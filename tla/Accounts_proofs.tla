---------------------------- MODULE Accounts_proofs ----------------------------
(* Logins and the naming of users, for any number of requests, browsers,         *)
(* identities and failures: the account tables are those of the atomic book, and  *)
(* every answer is true.                                                         *)
EXTENDS Server, TLAPS

LoginSteps == {"state", "token", "insert", "select", "commit_login"}
InitSteps == {"context", "insert_user", "link", "commit_init"}

\* Where a request is tells what it asked for, and whether it was answered.
Roles ==
  \A r \in Request :
    /\ pc[r] \in LoginSteps => IsLogin(r)
    /\ pc[r] \in InitSteps => IsInit(r)
    /\ ~ (IsLogin(r) /\ IsInit(r))
    /\ pc[r] = "idle" => ~ IsLogin(r) /\ ~ IsInit(r)
    /\ answer[r] # "none" <=> pc[r] = "done"
    /\ pc[r] \in {"insert_user", "link", "commit_init"} => task[r].username \in ValidUsername

\* The id names a row that was inserted by a login that has ended, if only to be
\* rolled back or removed: nobody inserts it again.
Settled(id) == id \in Request /\ pc[id] = "done" /\ IsLogin(id) /\ task[id].row = id

\* A committed row is the one that the login of its id inserted, with its identity.
RowsAreOwn ==
  /\ \A p \in providers : Settled(p.id) /\ task[p.id].who = p.who
  /\ \A p, q \in providers : p.id = q.id \/ p.who = q.who => p = q

\* A row that is held by a cookie or a request is settled, but for the one that its
\* own login is about to commit; a login holds one of its identity.
HeldRowsAreSettled ==
  /\ \A b \in Browser : jar[b] # NoRow => Settled(jar[b])
  /\ \A r \in Request : task[r].row # NoRow =>
       /\ Settled(task[r].row) \/ InsertedProvider(r)
       /\ IsLogin(r) => task[task[r].row].who = task[r].who

\* Uncommitted rows conflict with no committed one, nor with each other.
InsertsAreAlone ==
  \A r \in Request : InsertedProvider(r) =>
    /\ RowsOf(task[r].who) = {}
    /\ \A other \in Request :
         InsertedProvider(other) /\ task[other].who = task[r].who => other = r

UsersAreOwn ==
  \A u \in users :
    /\ pc[u.id] = "done" /\ IsInit(u.id) /\ task[u.id].username = u.username
    /\ answer[u.id] \in {"Ok", "DatabaseError"}

NamesAreAlone ==
  \A r \in Request : InsertedUser(r) =>
    /\ \A u \in users : u.username # task[r].username
    /\ \A other \in Request :
         InsertedUser(other) /\ task[other].username = task[r].username => other = r

LinksAreAlone ==
  \A r \in Request : LinkedProvider(r) =>
    /\ Linkable(task[r].row) # {}
    /\ \A other \in Request :
         LinkedProvider(other) /\ task[other].row = task[r].row => other = r

\* A row that made an INSERT do nothing is still there for the SELECT.
ConflictsStay ==
  \A r \in Request : pc[r] = "select" /\ removals = 0 => RowsOf(task[r].who) # {}

AInv ==
  /\ TypeOK /\ removals \in Nat /\ failures \in Nat
  /\ Roles /\ RowsAreOwn /\ HeldRowsAreSettled /\ InsertsAreAlone
  /\ UsersAreOwn /\ NamesAreAlone /\ LinksAreAlone /\ ConflictsStay
  /\ AnswersAreTrue
-------------------------------------------------------------------------------
(* What a step of one request leaves alone                                      *)

LEMMA Sentinels ==
  /\ NoRow \notin Request /\ NoRow \notin Username /\ NoRow \notin Browser
  /\ NoUser \notin Request /\ NoIdentity \notin Identity
  /\ NoRow # "Ok" /\ NoUser = "NoUser"
BY SentinelAssumption DEF NoRow, NoUser

LEMMA GoEffect ==
  ASSUME TypeOK, NEW r \in Request, NEW from, NEW to \in Connected \cup {"idle", "done"},
         Go(r, from, to)
  PROVE  /\ pc[r] = from /\ pc'[r] = to
         /\ \A other \in Request : other # r => pc'[other] = pc[other]
         /\ pc' \in [Request -> Connected \cup {"idle", "done"}]
BY DEF TypeOK, Go

\* Settled rows stay settled: a request that has ended never moves again.
LEMMA SettledStays ==
  ASSUME NEW r \in Request, pc[r] # "done",
         \A other \in Request : other # r => pc'[other] = pc[other] /\ task'[other] = task[other],
         NEW id, Settled(id)
  PROVE  Settled(id)' /\ id # r /\ task'[id] = task[id]
BY DEF Settled, IsLogin

-------------------------------------------------------------------------------
(* Requests that are refused                                                   *)

\* What a refusal says is true.
RefusalIsTrue(r, reason) ==
  /\ reason = "DatabaseError" => failures' # 0 \/ removals' # 0
  /\ IsInit(r) =>
       /\ reason = "AlreadyExists" => \E u \in users : u.username = task[r].username
       /\ reason = "NotFound" => Linkable(task[r].row) = {}

LEMMA RefuseOK ==
  ASSUME AInv, NEW r \in Request, NEW from \in Connected \cup {"idle"}, NEW reason \in Errors,
         Refuse(r, from, reason), RefusalIsTrue(r, reason),
         removals' \in Nat, failures' \in Nat,
         removals' = 0 => removals = 0, failures' = 0 => failures = 0
  PROVE  AInv'
<1>1. /\ pc[r] = from /\ pc'[r] = "done" /\ from # "done"
      /\ \A other \in Request : other # r => pc'[other] = pc[other]
      /\ pc' \in [Request -> Connected \cup {"idle", "done"}]
  BY GoEffect DEF AInv, Refuse, Connected
<1>2. UNCHANGED <<providers, users, jar, task>>
  BY DEF Refuse
<1>3. /\ answer' \in [Request -> Errors \cup {"none", "Ok"}] /\ answer'[r] = reason
      /\ \A other \in Request : other # r => answer'[other] = answer[other]
      /\ reason # "none" /\ reason # "Ok"
  BY DEF Refuse, AInv, TypeOK, Errors
<1>4. TypeOK'
  BY <1>1, <1>2, <1>3 DEF AInv, TypeOK
<1>5. Roles'
  BY <1>1, <1>2, <1>3 DEF AInv, Roles, IsLogin, IsInit, LoginSteps, InitSteps
<1>6. \A id : Settled(id) => Settled(id)'
  BY <1>1, <1>2, SettledStays
<1>7. RowsAreOwn'
  BY <1>2, <1>6 DEF AInv, RowsAreOwn
<1>8. HeldRowsAreSettled'
  <2>1. \A b \in Browser : (jar[b] # NoRow => Settled(jar[b]))'
    BY <1>2, <1>6 DEF AInv, HeldRowsAreSettled
  <2>2. ASSUME NEW o \in Request, task'[o].row # NoRow
        PROVE  /\ Settled(task[o].row)' \/ InsertedProvider(o)'
               /\ IsLogin(o)' => task'[task'[o].row].who = task'[o].who
    <3>1. Settled(task[o].row) \/ InsertedProvider(o)
      BY <1>2, <2>2 DEF AInv, HeldRowsAreSettled
    <3>2. InsertedProvider(o) => InsertedProvider(o)' \/ Settled(task[o].row)'
      BY <1>1, <1>2 DEF InsertedProvider, Settled, AInv, Roles, IsLogin, LoginSteps
    <3> QED
      BY <1>2, <1>6, <2>2, <3>1, <3>2 DEF AInv, HeldRowsAreSettled, IsLogin
  <2> QED
    BY <2>1, <2>2 DEF HeldRowsAreSettled
<1>9. \A o \in Request : /\ InsertedProvider(o)' => InsertedProvider(o)
                         /\ InsertedUser(o)' => InsertedUser(o)
                         /\ LinkedProvider(o)' => LinkedProvider(o)
                         /\ pc'[o] = "select" => pc[o] = "select"
  BY <1>1, <1>2 DEF InsertedProvider, InsertedUser, LinkedProvider
<1>10. InsertsAreAlone' /\ NamesAreAlone' /\ LinksAreAlone' /\ ConflictsStay'
  BY <1>2, <1>9
     DEF AInv, InsertsAreAlone, NamesAreAlone, LinksAreAlone, ConflictsStay, RowsOf, Linkable
<1>11. UsersAreOwn'
  BY <1>1, <1>2, <1>3 DEF AInv, UsersAreOwn, IsInit, TypeOK
<1>12. AnswersAreTrue'
  <2>1. failures' = 0 /\ removals' = 0 => \A o \in Request : answer'[o] # "DatabaseError"
    BY <1>3 DEF AInv, AnswersAreTrue, RefusalIsTrue
  <2>2. \A u \in users : u.id # r
    BY <1>1 DEF AInv, UsersAreOwn
  <2>3. ASSUME NEW o \in Request, IsInit(o)
        PROVE  /\ answer'[o] = "Ok" =>
                    /\ [id |-> o, username |-> task[o].username] \in users
                    /\ \A p \in RowWithId(task[o].row) : p.user = o
               /\ answer'[o] = "AlreadyExists" => \E u \in users : u.username = task[o].username
               /\ answer'[o] = "NotFound" => Linkable(task[o].row) = {}
               /\ answer'[o] \in Errors \ {"DatabaseError"} => \A u \in users : u.id # o
    BY <1>3, <2>2, <2>3 DEF AInv, AnswersAreTrue, RefusalIsTrue
  <2> QED
    BY <1>2, <2>1, <2>3 DEF AnswersAreTrue, IsInit, RowWithId, Linkable
<1> QED
  BY <1>4, <1>5, <1>7, <1>8, <1>10, <1>11, <1>12 DEF AInv

-------------------------------------------------------------------------------
(* Statements that change nothing but where the request is                      *)

Moves == {<<"state", "token">>, <<"token", "insert">>, <<"insert", "select">>,
          <<"context", "insert_user">>, <<"insert_user", "link">>, <<"link", "commit_init">>}

LEMMA MoveOK ==
  ASSUME AInv, NEW r \in Request, NEW from, NEW to, <<from, to>> \in Moves, Go(r, from, to),
         UNCHANGED <<providers, users, jar, task, answer, removals, failures>>,
         to = "select" => RowsOf(task[r].who) # {},
         to = "insert_user" => task[r].username \in ValidUsername,
         to = "link" =>
           /\ \A u \in users : u.username # task[r].username
           /\ \A o \in Request : InsertedUser(o) => task[o].username # task[r].username,
         to = "commit_init" =>
           /\ Linkable(task[r].row) # {}
           /\ \A o \in Request : LinkedProvider(o) => task[o].row # task[r].row
  PROVE  AInv'
<1>0. /\ from # "done" /\ to # "done" /\ from # "idle" /\ from # "commit_login"
      /\ to # "idle" /\ to # "commit_login" /\ to \in Connected /\ from # "commit_init"
      /\ from \in LoginSteps <=> to \in LoginSteps
      /\ from \in InitSteps <=> to \in InitSteps
      /\ from \in LoginSteps \/ from \in InitSteps
      /\ to = "commit_init" => from = "link"
      /\ to = "link" => from = "insert_user"
  BY DEF Moves, LoginSteps, InitSteps, Connected
<1>1. /\ pc[r] = from /\ pc'[r] = to
      /\ \A other \in Request : other # r => pc'[other] = pc[other]
      /\ pc' \in [Request -> Connected \cup {"idle", "done"}]
  BY <1>0, GoEffect DEF AInv
<1>2. UNCHANGED <<providers, users, jar, task, answer, removals, failures>>
  OBVIOUS
<1>3. TypeOK' /\ removals' \in Nat /\ failures' \in Nat
  BY <1>1, <1>2 DEF AInv, TypeOK
<1>4. Roles'
  <2>1. ASSUME NEW o \in Request, o # r
        PROVE  pc'[o] = pc[o] /\ task'[o] = task[o] /\ answer'[o] = answer[o]
    BY <1>1, <1>2, <2>1
  <2>2. to \in {"insert_user", "link", "commit_init"} => task[r].username \in ValidUsername
    BY <1>0, <1>1 DEF AInv, Roles
  <2> QED
    BY <1>0, <1>1, <1>2, <2>1, <2>2 DEF AInv, Roles, IsLogin, IsInit
<1>5. \A id : Settled(id) => Settled(id)'
  BY <1>0, <1>1, <1>2, SettledStays
<1>6. RowsAreOwn'
  BY <1>2, <1>5 DEF AInv, RowsAreOwn
<1>7. \A o \in Request : InsertedProvider(o)' <=> InsertedProvider(o)
  BY <1>0, <1>1, <1>2 DEF InsertedProvider
<1>8. HeldRowsAreSettled'
  BY <1>2, <1>5, <1>7 DEF AInv, HeldRowsAreSettled, IsLogin
<1>9. InsertsAreAlone'
  BY <1>2, <1>7 DEF AInv, InsertsAreAlone, RowsOf
<1>10. UsersAreOwn'
  BY <1>0, <1>1, <1>2 DEF AInv, UsersAreOwn, IsInit, TypeOK
<1>11. NamesAreAlone'
  <2>1. \A o \in Request : o # r => (InsertedUser(o)' <=> InsertedUser(o))
    BY <1>1 DEF InsertedUser
  <2>2. InsertedUser(r)' => InsertedUser(r) \/ to = "link"
    BY <1>0, <1>1 DEF InsertedUser
  <2>3. /\ InsertedUser(r)' => \A u \in users : u.username # task[r].username
        /\ InsertedUser(r)' => \A o \in Request : InsertedUser(o) /\ o # r =>
                                 task[o].username # task[r].username
    BY <2>2 DEF AInv, NamesAreAlone
  <2> QED
    BY <1>2, <2>1, <2>3 DEF AInv, NamesAreAlone
<1>12. LinksAreAlone'
  <2>1. \A o \in Request : o # r => (LinkedProvider(o)' <=> LinkedProvider(o))
    BY <1>1 DEF LinkedProvider
  <2>2. LinkedProvider(r)' => to = "commit_init"
    BY <1>1 DEF LinkedProvider
  <2> QED
    BY <1>2, <2>1, <2>2 DEF AInv, LinksAreAlone, Linkable
<1>13. ConflictsStay'
  BY <1>1, <1>2 DEF AInv, ConflictsStay, RowsOf
<1>14. AnswersAreTrue'
  BY <1>2 DEF AInv, AnswersAreTrue, IsInit, RowWithId, Linkable
<1> QED
  BY <1>3, <1>4, <1>6, <1>8, <1>9, <1>10, <1>11, <1>12, <1>13, <1>14 DEF AInv

-------------------------------------------------------------------------------
(* Requests that come in, and rows they take hold of                            *)

\* A request that has not ended takes on what it needs for its next statement.
LEMMA TakeOK ==
  ASSUME AInv, NEW r \in Request, NEW from, NEW to, NEW t, Go(r, from, to),
         <<from, to>> \in {<<"idle", "state">>, <<"idle", "context">>,
                           <<"insert", "commit_login">>, <<"select", "commit_login">>},
         task' = [task EXCEPT ![r] = t],
         t \in [browser : Browser \cup {NoRow}, who : Identity \cup {NoIdentity},
                username : Username \cup {NoRow}, row : Request \cup {NoRow}],
         UNCHANGED <<providers, users, jar, answer, removals, failures>>,
         to = "context" <=> t.username # NoRow, to = "context" <=> t.who = NoIdentity,
         to = "state" => t.row = NoRow,
         to = "context" /\ t.row # NoRow => Settled(t.row),
         to = "commit_login" =>
           /\ t.who = task[r].who
           /\ \/ Settled(t.row) /\ task[t.row].who = t.who
              \/ /\ t.row = r /\ RowsOf(t.who) = {}
                 /\ \A o \in Request : InsertedProvider(o) => task[o].who # t.who
  PROVE  AInv'
<1>0. /\ from # "done" /\ to # "done" /\ to # "idle" /\ to \in Connected /\ from # "commit_login"
      /\ to \in {"state", "context", "commit_login"}
  BY DEF Connected
<1>1. /\ pc[r] = from /\ pc'[r] = to
      /\ \A o \in Request : o # r => pc'[o] = pc[o]
      /\ pc' \in [Request -> Connected \cup {"idle", "done"}]
  BY <1>0, GoEffect DEF AInv
<1>2. /\ task'[r] = t /\ \A o \in Request : o # r => task'[o] = task[o]
      /\ UNCHANGED <<providers, users, jar, answer, removals, failures>>
  BY DEF AInv, TypeOK
<1>3. TypeOK' /\ removals' \in Nat /\ failures' \in Nat
  BY <1>1, <1>2 DEF AInv, TypeOK
<1>4. Roles'
  <2>1. ASSUME NEW o \in Request, o # r
        PROVE  pc'[o] = pc[o] /\ task'[o] = task[o] /\ answer'[o] = answer[o]
    BY <1>1, <1>2, <2>1
  <2>2. answer'[r] = answer[r] /\ ~ (answer[r] # "none")
    BY <1>0, <1>1, <1>2 DEF AInv, Roles
  <2> QED
    BY <1>0, <1>1, <1>2, <2>1, <2>2 DEF AInv, Roles, IsLogin, IsInit, LoginSteps, InitSteps
<1>5. \A id : Settled(id) => Settled(id)' /\ id # r /\ task'[id] = task[id]
  BY <1>0, <1>1, <1>2, SettledStays
<1>6. RowsAreOwn'
  BY <1>2, <1>5 DEF AInv, RowsAreOwn
<1>7. /\ \A o \in Request : o # r => (InsertedProvider(o)' <=> InsertedProvider(o))
      /\ ~ InsertedProvider(r) /\ (InsertedProvider(r)' <=> to = "commit_login" /\ t.row = r)
  BY <1>0, <1>1, <1>2 DEF InsertedProvider
<1>8. HeldRowsAreSettled'
  <2>1. (\A b \in Browser : jar[b] # NoRow => Settled(jar[b]))'
    BY <1>2, <1>5 DEF AInv, HeldRowsAreSettled
  <2>2. ASSUME NEW o \in Request, o # r, task[o].row # NoRow
        PROVE  /\ Settled(task[o].row)' \/ InsertedProvider(o)'
               /\ IsLogin(o) => task'[task[o].row].who = task[o].who
    <3>1. CASE Settled(task[o].row)
      BY <1>5, <2>2, <3>1 DEF AInv, HeldRowsAreSettled
    <3>2. CASE InsertedProvider(o)
      BY <1>2, <1>7, <2>2, <3>2 DEF InsertedProvider
    <3> QED
      BY <2>2, <3>1, <3>2 DEF AInv, HeldRowsAreSettled
  <2>3. ASSUME t.row # NoRow
        PROVE  /\ Settled(t.row)' \/ InsertedProvider(r)'
               /\ t.who # NoIdentity => task'[t.row].who = t.who
    <3>1. CASE to = "context"
      BY <1>5, <2>3, <3>1
    <3>2. CASE to = "commit_login" /\ Settled(t.row) /\ task[t.row].who = t.who
      BY <1>5, <3>2
    <3>3. CASE to = "commit_login" /\ t.row = r
      BY <1>2, <1>7, <3>3
    <3> QED
      BY <1>0, <2>3, <3>1, <3>2, <3>3
  <2>4. ASSUME NEW o \in Request, task'[o].row # NoRow
        PROVE  /\ Settled(task[o].row)' \/ InsertedProvider(o)'
               /\ IsLogin(o)' => task'[task'[o].row].who = task'[o].who
    <3>1. CASE o = r
      BY <1>2, <2>3, <2>4, <3>1 DEF IsLogin, Settled
    <3>2. CASE o # r
      BY <1>2, <2>2, <2>4, <3>2 DEF IsLogin, Settled
    <3> QED
      BY <3>1, <3>2
  <2> QED
    BY <2>1, <2>4 DEF HeldRowsAreSettled
<1>9. InsertsAreAlone'
  <2>1. \A o \in Request : o # r => (InsertedProvider(o)' <=> InsertedProvider(o))
    BY <1>7
  <2>2. InsertedProvider(r)' => /\ t.row = r /\ to = "commit_login" /\ ~ Settled(r)
    BY <1>0, <1>1, <1>7 DEF Settled
  <2>3. InsertedProvider(r)' =>
          RowsOf(t.who) = {} /\ \A o \in Request : InsertedProvider(o) => task[o].who # t.who
    BY <2>2
  <2> QED
    BY <1>2, <2>1, <2>3 DEF AInv, InsertsAreAlone, RowsOf
<1>10. UsersAreOwn'
  <2>1. \A u \in users : u.id # r /\ u.id \in Request
    BY <1>0, <1>1 DEF AInv, UsersAreOwn, TypeOK
  <2> QED
    BY <1>1, <1>2, <2>1 DEF AInv, UsersAreOwn, IsInit
<1>11. NamesAreAlone' /\ LinksAreAlone'
  <2>1. /\ ~ InsertedUser(r)' /\ ~ LinkedProvider(r)'
        /\ \A o \in Request : o # r => /\ InsertedUser(o)' <=> InsertedUser(o)
                                       /\ LinkedProvider(o)' <=> LinkedProvider(o)
    BY <1>0, <1>1 DEF InsertedUser, LinkedProvider
  <2>2. NamesAreAlone'
    BY <1>2, <2>1 DEF AInv, NamesAreAlone
  <2>3. LinksAreAlone'
    BY <1>2, <2>1 DEF AInv, LinksAreAlone, Linkable
  <2> QED
    BY <2>2, <2>3
<1>12. ConflictsStay'
  BY <1>0, <1>1, <1>2 DEF AInv, ConflictsStay, RowsOf
<1>13. AnswersAreTrue'
  <2>1. \A o \in Request : answer[o] # "none" => o # r /\ task'[o] = task[o]
    BY <1>0, <1>1, <1>2 DEF AInv, Roles
  <2>2. "none" \notin Errors
    BY DEF Errors
  <2> QED
    BY <1>2, <2>1, <2>2 DEF AInv, AnswersAreTrue, IsInit, RowWithId, Linkable
<1> QED
  BY <1>3, <1>4, <1>6, <1>8, <1>9, <1>10, <1>11, <1>12, <1>13 DEF AInv

-------------------------------------------------------------------------------
(* Commits                                                                      *)

\* The COMMIT of a login, whether its caller hears of it or not.
LEMMA CommitLoginOK ==
  ASSUME AInv, NEW r \in Request, NEW reply \in {"Ok", "DatabaseError"},
         Go(r, "commit_login", "done"), providers' = providers \cup NewProvider(r),
         answer' = [answer EXCEPT ![r] = reply],
         \/ UNCHANGED jar
         \/ jar' = [jar EXCEPT ![task[r].browser] = task[r].row] /\ reply = "Ok",
         UNCHANGED <<users, task, removals>>, failures' \in Nat,
         failures' = 0 => failures = 0 /\ reply = "Ok"
  PROVE  AInv'
<1>1. /\ pc[r] = "commit_login" /\ pc'[r] = "done" /\ IsLogin(r) /\ ~ IsInit(r)
      /\ \A o \in Request : o # r => pc'[o] = pc[o]
      /\ pc' \in [Request -> Connected \cup {"idle", "done"}]
  BY GoEffect DEF AInv, Roles, LoginSteps
<1>2. /\ answer' \in [Request -> Errors \cup {"none", "Ok"}] /\ answer'[r] = reply
      /\ \A o \in Request : o # r => answer'[o] = answer[o]
  BY DEF AInv, TypeOK, Errors
<1>3. \A p \in NewProvider(r) :
        /\ task[r].row = r /\ InsertedProvider(r)
        /\ p = [id |-> r, who |-> task[r].who, user |-> NoUser]
  BY <1>1 DEF NewProvider, InsertedProvider
<1>4. TypeOK' /\ removals' \in Nat
  <2>1. task[r].who \in Identity /\ task[r].row \in Request \cup {NoRow}
    BY <1>1 DEF AInv, TypeOK, IsLogin
  <2>2. providers' \subseteq [id : Request, who : Identity, user : Request \cup {NoUser}]
    BY <1>3, <2>1 DEF AInv, TypeOK
  <2>3. jar' \in [Browser -> Request \cup {NoRow}]
    BY <2>1 DEF AInv, TypeOK
  <2> QED
    BY <1>1, <1>2, <2>2, <2>3 DEF AInv, TypeOK
<1>5. Roles'
  BY <1>1, <1>2 DEF AInv, Roles, IsLogin, IsInit, LoginSteps, InitSteps
<1>6. \A id : Settled(id) => Settled(id)' /\ id # r
  BY <1>1, SettledStays
<1>7. InsertedProvider(r) => Settled(r)'
  BY <1>1 DEF InsertedProvider, Settled, IsLogin
<1>8. RowsAreOwn'
  <2>1. \A p \in providers' : (Settled(p.id) /\ task[p.id].who = p.who)'
    BY <1>3, <1>6, <1>7 DEF AInv, RowsAreOwn
  <2>2. ASSUME NEW p \in providers, NEW q \in NewProvider(r) PROVE p.id # q.id /\ p.who # q.who
    BY <1>3, <1>6 DEF AInv, RowsAreOwn, InsertsAreAlone, RowsOf
  <2> QED
    BY <1>3, <2>1, <2>2 DEF AInv, RowsAreOwn
<1>9. HeldRowsAreSettled'
  <2>1. task[r].row # NoRow => Settled(task[r].row)'
    BY <1>6, <1>7 DEF AInv, HeldRowsAreSettled, InsertedProvider
  <2>2. ASSUME NEW b \in Browser, jar'[b] # NoRow PROVE Settled(jar[b])'
    <3>1. CASE jar'[b] = jar[b]
      BY <1>6, <2>2, <3>1 DEF AInv, HeldRowsAreSettled, Settled
    <3>2. CASE jar'[b] = task[r].row
      BY <2>1, <2>2, <3>2 DEF Settled
    <3> QED
      BY <3>1, <3>2 DEF AInv, TypeOK
  <2>3. ASSUME NEW o \in Request, task[o].row # NoRow
        PROVE  Settled(task[o].row)' \/ InsertedProvider(o)'
    <3>1. CASE o = r
      BY <2>1, <2>3, <3>1
    <3>2. CASE o # r
      BY <1>1, <1>6, <2>3, <3>2 DEF AInv, HeldRowsAreSettled, InsertedProvider
    <3> QED
      BY <3>1, <3>2
  <2> QED
    BY <2>2, <2>3 DEF AInv, HeldRowsAreSettled, IsLogin
<1>10. \A o \in Request : /\ InsertedProvider(o)' <=> o # r /\ InsertedProvider(o)
                          /\ InsertedUser(o)' <=> InsertedUser(o)
                          /\ LinkedProvider(o)' <=> LinkedProvider(o)
                          /\ pc'[o] = "select" <=> pc[o] = "select"
  BY <1>1 DEF InsertedProvider, InsertedUser, LinkedProvider
<1>11. InsertsAreAlone'
  <2>1. ASSUME NEW o \in Request, InsertedProvider(o), o # r, NEW p \in NewProvider(r)
        PROVE  p.who # task[o].who
    BY <1>3, <2>1 DEF AInv, InsertsAreAlone
  <2> QED
    BY <1>10, <2>1 DEF AInv, InsertsAreAlone, RowsOf
<1>12. UsersAreOwn' /\ NamesAreAlone'
  <2>1. \A u \in users : u.id # r /\ u.id \in Request
    BY <1>1 DEF AInv, UsersAreOwn, TypeOK
  <2>2. UsersAreOwn'
    BY <1>1, <1>2, <2>1 DEF AInv, UsersAreOwn, IsInit
  <2>3. NamesAreAlone'
    BY <1>10 DEF AInv, NamesAreAlone
  <2> QED
    BY <2>2, <2>3
<1>13. LinksAreAlone' /\ ConflictsStay'
  <2>1. LinksAreAlone'
    BY <1>10 DEF AInv, LinksAreAlone, Linkable
  <2>2. ConflictsStay'
    BY <1>10 DEF AInv, ConflictsStay, RowsOf
  <2> QED
    BY <2>1, <2>2
<1>14. AnswersAreTrue'
  <2>1. failures' = 0 /\ removals' = 0 => \A o \in Request : answer'[o] # "DatabaseError"
    BY <1>2 DEF AInv, AnswersAreTrue
  <2>2. ASSUME NEW o \in Request, IsInit(o), answer[o] \in {"Ok", "NotFound"},
               NEW p \in NewProvider(r)
        PROVE  p.id # task[o].row
    <3>1. o # r /\ task[o].row # NoRow => Settled(task[o].row) \/ InsertedProvider(o)
      BY <1>1, <2>2 DEF AInv, HeldRowsAreSettled
    <3>2. ~ InsertedProvider(o)
      BY <2>2 DEF AInv, Roles, InsertedProvider, LoginSteps
    <3>3. p.id # NoRow /\ p.id = r
      BY <1>3, Sentinels
    <3> QED
      BY <1>1, <1>6, <2>2, <3>1, <3>2, <3>3
  <2>3. ASSUME NEW o \in Request, IsInit(o)
        PROVE  /\ answer'[o] = "Ok" =>
                    /\ [id |-> o, username |-> task[o].username] \in users
                    /\ \A p \in RowWithId(task[o].row)' : p.user = o
               /\ answer'[o] = "AlreadyExists" => \E u \in users : u.username = task[o].username
               /\ answer'[o] = "NotFound" => Linkable(task[o].row)' = {}
               /\ answer'[o] \in Errors \ {"DatabaseError"} => \A u \in users : u.id # o
    <3>1. o # r /\ answer'[o] = answer[o]
      BY <1>1, <1>2, <2>3
    <3> QED
      BY <2>2, <2>3, <3>1 DEF AInv, AnswersAreTrue, RowWithId, Linkable
  <2> QED
    BY <2>1, <2>3 DEF AnswersAreTrue, IsInit, RowWithId, Linkable
<1> QED
  BY <1>4, <1>5, <1>8, <1>9, <1>11, <1>12, <1>13, <1>14 DEF AInv

\* The transaction of initializeUser commits: its row is there, unnamed, and nobody
\* else is about to name it.
LEMMA WriteUserEffect ==
  ASSUME AInv, NEW r \in Request, LinkedProvider(r), WriteUser(r)
  PROVE  \E p \in providers :
           /\ RowWithId(task[r].row) = {p} /\ p.id = task[r].row /\ p.user = NoUser
           /\ providers' = (providers \ {p}) \cup {[p EXCEPT !.user = r]}
           /\ users' = users \cup {[id |-> r, username |-> task[r].username]}
<1>1. PICK p \in providers : p.id = task[r].row /\ p.user = NoUser
  BY DEF AInv, LinksAreAlone, Linkable
<1>2. RowWithId(task[r].row) = {p}
  BY <1>1 DEF AInv, RowsAreOwn, RowWithId
<1> QED
  BY <1>1, <1>2 DEF WriteUser

LEMMA CommitInitOK ==
  ASSUME AInv, NEW r \in Request, NEW reply \in {"Ok", "DatabaseError"},
         Go(r, "commit_init", "done"), WriteUser(r),
         answer' = [answer EXCEPT ![r] = reply],
         UNCHANGED <<jar, task, removals>>, failures' \in Nat,
         failures' = 0 => failures = 0 /\ reply = "Ok"
  PROVE  AInv'
<1> DEFINE new == [id |-> r, username |-> task[r].username]
<1>1. /\ pc[r] = "commit_init" /\ pc'[r] = "done" /\ IsInit(r) /\ ~ IsLogin(r)
      /\ \A o \in Request : o # r => pc'[o] = pc[o]
      /\ pc' \in [Request -> Connected \cup {"idle", "done"}]
      /\ task[r].username \in ValidUsername
  BY GoEffect DEF AInv, Roles, InitSteps
<1>2. /\ answer' \in [Request -> Errors \cup {"none", "Ok"}] /\ answer'[r] = reply
      /\ \A o \in Request : o # r => answer'[o] = answer[o]
  BY DEF AInv, TypeOK, Errors
<1>3. LinkedProvider(r) /\ InsertedUser(r)
  BY <1>1 DEF LinkedProvider, InsertedUser
<1>4. PICK p \in providers :
        /\ RowWithId(task[r].row) = {p} /\ p.id = task[r].row /\ p.user = NoUser
        /\ providers' = (providers \ {p}) \cup {[p EXCEPT !.user = r]}
        /\ users' = users \cup {new}
  BY <1>3, WriteUserEffect
<1>5. /\ p = [id |-> p.id, who |-> p.who, user |-> NoUser]
      /\ [p EXCEPT !.user = r] = [id |-> p.id, who |-> p.who, user |-> r]
      /\ p.id \in Request /\ p.who \in Identity /\ r # NoUser
  BY <1>4, Sentinels DEF AInv, TypeOK
<1> HIDE DEF new
<1>6. TypeOK' /\ removals' \in Nat
  <2>1. providers' \subseteq [id : Request, who : Identity, user : Request \cup {NoUser}]
    BY <1>4, <1>5 DEF AInv, TypeOK
  <2>2. users' \subseteq [id : Request, username : ValidUsername]
    BY <1>1, <1>4 DEF AInv, TypeOK, new
  <2> QED
    BY <1>1, <1>2, <2>1, <2>2 DEF AInv, TypeOK
<1>7. Roles'
  BY <1>1, <1>2 DEF AInv, Roles, IsLogin, IsInit, LoginSteps, InitSteps
<1>8. \A id : Settled(id) => Settled(id)'
  BY <1>1, SettledStays
<1>9. RowsAreOwn'
  <2> DEFINE named == [id |-> p.id, who |-> p.who, user |-> r]
  <2>1. providers' = (providers \ {p}) \cup {named}
    BY <1>4, <1>5
  <2>2. \A q \in providers' : \E old \in providers : old.id = q.id /\ old.who = q.who
    BY <2>1
  <2>3. \A q \in providers' : (Settled(q.id) /\ task[q.id].who = q.who)'
    BY <1>8, <2>2 DEF AInv, RowsAreOwn
  <2>4. \A q \in providers \ {p} : q.id # named.id /\ q.who # named.who
    BY DEF AInv, RowsAreOwn
  <2> QED
    BY <2>1, <2>3, <2>4 DEF AInv, RowsAreOwn
<1>10. \A o \in Request : /\ InsertedProvider(o)' <=> InsertedProvider(o)
                          /\ InsertedUser(o)' <=> o # r /\ InsertedUser(o)
                          /\ LinkedProvider(o)' <=> o # r /\ LinkedProvider(o)
                          /\ pc'[o] = "select" <=> pc[o] = "select"
  BY <1>1 DEF InsertedProvider, InsertedUser, LinkedProvider
<1>11. HeldRowsAreSettled'
  BY <1>8, <1>10 DEF AInv, HeldRowsAreSettled, IsLogin
<1>12. \A who : RowsOf(who) = {} <=> RowsOf(who)' = {}
  BY <1>4, <1>5 DEF RowsOf
<1>13. InsertsAreAlone' /\ ConflictsStay'
  <2>1. InsertsAreAlone'
    BY <1>10, <1>12 DEF AInv, InsertsAreAlone
  <2>2. ConflictsStay'
    BY <1>10, <1>12 DEF AInv, ConflictsStay
  <2> QED
    BY <2>1, <2>2
<1>14. UsersAreOwn'
  <2>1. \A u \in users : u.id # r /\ u.id \in Request
    BY <1>1 DEF AInv, UsersAreOwn, TypeOK
  <2> QED
    BY <1>1, <1>2, <1>4, <2>1 DEF AInv, UsersAreOwn, IsInit, new
<1>15. NamesAreAlone'
  <2>1. ASSUME NEW o \in Request, InsertedUser(o), o # r
        PROVE  task[o].username # task[r].username
    BY <1>3, <2>1 DEF AInv, NamesAreAlone
  <2> QED
    BY <1>4, <1>10, <2>1 DEF AInv, NamesAreAlone, new
<1>16. LinksAreAlone'
  <2>1. ASSUME NEW o \in Request, LinkedProvider(o), o # r
        PROVE  Linkable(task[o].row)' # {}
    <3>1. task[o].row # task[r].row
      BY <1>3, <2>1 DEF AInv, LinksAreAlone
    <3>2. PICK q \in providers : q.id = task[o].row /\ q.user = NoUser
      BY <2>1 DEF AInv, LinksAreAlone, Linkable
    <3>3. q \in providers'
      BY <1>4, <3>1, <3>2
    <3> QED
      BY <3>2, <3>3 DEF Linkable
  <2> QED
    BY <1>10, <2>1 DEF AInv, LinksAreAlone
<1>17. AnswersAreTrue'
  <2>1. failures' = 0 /\ removals' = 0 => \A o \in Request : answer'[o] # "DatabaseError"
    BY <1>2 DEF AInv, AnswersAreTrue
  <2>2. new \in users' /\ \A q \in RowWithId(task[r].row)' : q.user = r
    BY <1>4, <1>5 DEF RowWithId
  <2>3. ASSUME NEW o \in Request, IsInit(o), o # r
        PROVE  /\ answer[o] = "Ok" =>
                    /\ [id |-> o, username |-> task[o].username] \in users'
                    /\ \A q \in RowWithId(task[o].row)' : q.user = o
               /\ answer[o] = "AlreadyExists" => \E u \in users' : u.username = task[o].username
               /\ answer[o] = "NotFound" => Linkable(task[o].row)' = {}
               /\ answer[o] \in Errors \ {"DatabaseError"} => \A u \in users' : u.id # o
    <3>1. /\ answer[o] = "Ok" =>
               /\ [id |-> o, username |-> task[o].username] \in users
               /\ \A q \in providers : q.id = task[o].row => q.user = o
          /\ answer[o] = "AlreadyExists" => \E u \in users : u.username = task[o].username
          /\ answer[o] = "NotFound" =>
               \A q \in providers : ~ (q.id = task[o].row /\ q.user = NoUser)
          /\ answer[o] \in Errors \ {"DatabaseError"} => \A u \in users : u.id # o
      BY <2>3 DEF AInv, AnswersAreTrue, RowWithId, Linkable
    <3>2. ASSUME answer[o] = "Ok", NEW q \in providers', q.id = task[o].row PROVE q.user = o
      <4>1. p.id # task[o].row
        BY <1>4, <3>1, <3>2, Sentinels
      <4> QED
        BY <1>4, <1>5, <3>1, <3>2, <4>1
    <3>3. ASSUME answer[o] = "NotFound", NEW q \in providers', q.id = task[o].row
          PROVE  q.user # NoUser
      BY <1>4, <1>5, <3>1, <3>3
    <3>4. new.id = r
      BY DEF new
    <3> QED
      BY <1>4, <2>3, <3>1, <3>2, <3>3, <3>4 DEF RowWithId, Linkable
  <2> QED
    BY <1>1, <1>2, <2>1, <2>2, <2>3 DEF AnswersAreTrue, IsInit, new, Errors
<1> QED
  BY <1>6, <1>7, <1>9, <1>11, <1>13, <1>14, <1>15, <1>16, <1>17 DEF AInv

-------------------------------------------------------------------------------
(* The remaining actions: cookies that are forgotten, rows that are removed     *)

LEMMA LogoutOK ==
  ASSUME AInv, NEW b \in Browser, Logout(b)
  PROVE  AInv'
<1>1. UNCHANGED <<providers, users, pc, task, answer, removals, failures>>
  BY DEF Logout
<1>2. jar' \in [Browser -> Request \cup {NoRow}] /\ \A c \in Browser : jar'[c] \in {jar[c], NoRow}
  BY DEF Logout, AInv, TypeOK
<1>3. TypeOK' /\ removals' \in Nat /\ failures' \in Nat
  BY <1>1, <1>2 DEF AInv, TypeOK
<1>4. Roles'
  BY <1>1 DEF AInv, Roles, IsLogin, IsInit
<1>5. RowsAreOwn'
  BY <1>1 DEF AInv, RowsAreOwn, Settled, IsLogin
<1>6. HeldRowsAreSettled'
  BY <1>1, <1>2 DEF AInv, HeldRowsAreSettled, Settled, IsLogin, InsertedProvider
<1>7. InsertsAreAlone' /\ ConflictsStay'
  BY <1>1 DEF AInv, InsertsAreAlone, InsertedProvider, RowsOf, ConflictsStay
<1>8. UsersAreOwn' /\ NamesAreAlone'
  BY <1>1 DEF AInv, UsersAreOwn, NamesAreAlone, InsertedUser, IsInit
<1>9. LinksAreAlone' /\ AnswersAreTrue'
  BY <1>1 DEF AInv, LinksAreAlone, LinkedProvider, Linkable, AnswersAreTrue, IsInit, RowWithId
<1> QED
  BY <1>3, <1>4, <1>5, <1>6, <1>7, <1>8, <1>9 DEF AInv

LEMMA RemoveProviderOK ==
  ASSUME AInv, NEW p \in providers, RemoveProvider(p)
  PROVE  AInv'
<1>1. /\ UNCHANGED <<users, jar, pc, task, answer, failures>> /\ providers' = providers \ {p}
      /\ removals' = removals + 1 /\ removals' \in Nat /\ removals' # 0
  BY DEF RemoveProvider, AInv
<1>2. TypeOK' /\ failures' \in Nat
  BY <1>1 DEF AInv, TypeOK
<1>3. Roles'
  BY <1>1 DEF AInv, Roles, IsLogin, IsInit
<1>4. RowsAreOwn'
  BY <1>1 DEF AInv, RowsAreOwn, Settled, IsLogin
<1>5. HeldRowsAreSettled'
  BY <1>1 DEF AInv, HeldRowsAreSettled, Settled, IsLogin, InsertedProvider
<1>6. InsertsAreAlone' /\ ConflictsStay'
  BY <1>1 DEF AInv, InsertsAreAlone, InsertedProvider, RowsOf, ConflictsStay
<1>7. UsersAreOwn' /\ NamesAreAlone'
  BY <1>1 DEF AInv, UsersAreOwn, NamesAreAlone, InsertedUser, IsInit
<1>8. LinksAreAlone'
  <2>1. ASSUME NEW o \in Request, LinkedProvider(o) PROVE Linkable(task[o].row)' # {}
    <3>1. PICK q \in providers : q.id = task[o].row /\ q.user = NoUser
      BY <2>1 DEF AInv, LinksAreAlone, Linkable
    <3>2. q # p
      BY <2>1, <3>1 DEF RemoveProvider
    <3> QED
      BY <1>1, <3>1, <3>2 DEF Linkable
  <2> QED
    BY <1>1, <2>1 DEF AInv, LinksAreAlone, LinkedProvider
<1>9. AnswersAreTrue'
  BY <1>1 DEF AInv, AnswersAreTrue, IsInit, RowWithId, Linkable
<1> QED
  BY <1>1, <1>2, <1>3, <1>4, <1>5, <1>6, <1>7, <1>8, <1>9 DEF AInv

LEMMA StutterOK == AInv /\ UNCHANGED vars => AInv'
<1> SUFFICES ASSUME AInv, UNCHANGED vars PROVE AInv'
  OBVIOUS
<1> USE DEF vars, AInv
<1>1. TypeOK' /\ Roles' /\ RowsAreOwn' /\ UsersAreOwn'
  BY DEF TypeOK, Roles, RowsAreOwn, UsersAreOwn, Settled, IsLogin, IsInit
<1>2. HeldRowsAreSettled' /\ InsertsAreAlone'
  BY DEF HeldRowsAreSettled, InsertsAreAlone, Settled, IsLogin, InsertedProvider, RowsOf
<1>3. NamesAreAlone' /\ LinksAreAlone' /\ ConflictsStay'
  BY DEF NamesAreAlone, LinksAreAlone, ConflictsStay, InsertedUser, LinkedProvider, Linkable, RowsOf
<1>4. AnswersAreTrue'
  BY DEF AnswersAreTrue, IsInit, RowWithId, Linkable
<1> QED
  BY <1>1, <1>2, <1>3, <1>4

-------------------------------------------------------------------------------
(* Every step                                                                   *)

LEMMA InitAInv == Init => AInv
<1> SUFFICES ASSUME Init PROVE AInv
  OBVIOUS
<1>1. TypeOK /\ removals \in Nat /\ failures \in Nat
  BY DEF Init, TypeOK, NoTask
<1>2. Roles /\ AnswersAreTrue
  BY Sentinels DEF Init, Roles, AnswersAreTrue, IsLogin, IsInit, LoginSteps, InitSteps, NoTask,
     Errors
<1>3. /\ RowsAreOwn /\ HeldRowsAreSettled /\ InsertsAreAlone
      /\ UsersAreOwn /\ NamesAreAlone /\ LinksAreAlone /\ ConflictsStay
  BY Sentinels
     DEF Init, RowsAreOwn, HeldRowsAreSettled, InsertsAreAlone, UsersAreOwn, NamesAreAlone,
         LinksAreAlone, ConflictsStay, InsertedProvider, InsertedUser, LinkedProvider, NoTask
<1> QED
  BY <1>1, <1>2, <1>3 DEF AInv

LEMMA TasksAreTyped ==
  ASSUME AInv, NEW r \in Request
  PROVE  /\ task[r] = [browser |-> task[r].browser, who |-> task[r].who,
                       username |-> task[r].username, row |-> task[r].row]
         /\ task[r].browser \in Browser \cup {NoRow} /\ task[r].who \in Identity \cup {NoIdentity}
         /\ task[r].username \in Username \cup {NoRow} /\ task[r].row \in Request \cup {NoRow}
BY DEF AInv, TypeOK

LEMMA RowOfTask ==
  ASSUME AInv, NEW r \in Request, NEW n
  PROVE  [task[r] EXCEPT !.row = n] =
           [browser |-> task[r].browser, who |-> task[r].who,
            username |-> task[r].username, row |-> n]
<1>1. PICK b, w, u, o : task[r] = [browser |-> b, who |-> w, username |-> u, row |-> o]
  BY TasksAreTyped
<1> QED
  BY <1>1

LEMMA LoginsOfSteps ==
  ASSUME AInv, NEW r \in Request, pc[r] \in LoginSteps
  PROVE  task[r].who \in Identity /\ task[r].who # NoIdentity /\ task[r].username = NoRow
BY TasksAreTyped DEF AInv, Roles, IsLogin, IsInit

\* What a statement of a login does, seen as one of the steps above.
LEMMA LoginStepsOK ==
  ASSUME AInv, NEW r \in Request, HandleLogin(r)
  PROVE  AInv'
<1>1. ASSUME ParseState(r) PROVE AInv'
  <2>1. CASE Refuse(r, "state", "InvalidState")
    BY <1>1, <2>1, RefuseOK DEF ParseState, Connected, Errors, RefusalIsTrue, AInv
  <2>2. CASE ~ Refuse(r, "state", "InvalidState")
    BY <1>1, <2>2, MoveOK DEF ParseState, Moves
  <2> QED
    BY <2>1, <2>2
<1>2. ASSUME TokenRefused(r) PROVE AInv'
  <2>1. PICK reason \in {"OpenIdError", "InvalidCredentials"} : Refuse(r, "token", reason)
    BY <1>2 DEF TokenRefused
  <2>2. reason \in Errors /\ "token" \in Connected /\ RefusalIsTrue(r, reason)
    BY DEF Errors, Connected, RefusalIsTrue
  <2>3. UNCHANGED <<removals, failures>> /\ removals \in Nat /\ failures \in Nat
    BY <1>2 DEF TokenRefused, AInv
  <2> QED
    BY <2>1, <2>2, <2>3, RefuseOK
<1>3. ASSUME TokenAccepted(r) PROVE AInv'
  BY <1>3, MoveOK DEF TokenAccepted, Moves
<1>4. ASSUME InsertProvider(r) PROVE AInv'
  <2>1. CASE RowsOf(task[r].who) = {}
    <3> DEFINE t == [task[r] EXCEPT !.row = r]
    <3>1. /\ Go(r, "insert", "commit_login") /\ task' = [task EXCEPT ![r] = t]
          /\ UNCHANGED <<providers, users, jar, answer, removals, failures>>
          /\ \A o \in Request : InsertedProvider(o) => task[o].who # task[r].who
      BY <1>4, <2>1 DEF InsertProvider
    <3>2. /\ t = [browser |-> task[r].browser, who |-> task[r].who,
                  username |-> task[r].username, row |-> r]
          /\ t.who # NoIdentity /\ t.username = NoRow
      BY <3>1, RowOfTask, LoginsOfSteps DEF Go, LoginSteps
    <3>3. t \in [browser : Browser \cup {NoRow}, who : Identity \cup {NoIdentity},
                 username : Username \cup {NoRow}, row : Request \cup {NoRow}]
      BY <3>2, TasksAreTyped
    <3> HIDE DEF t
    <3> QED
      BY <2>1, <3>1, <3>2, <3>3, TakeOK
  <2>2. CASE RowsOf(task[r].who) # {}
    BY <1>4, <2>2, MoveOK DEF InsertProvider, Moves
  <2> QED
    BY <2>1, <2>2
<1>5. ASSUME SelectProvider(r) PROVE AInv'
  <2>1. ASSUME NEW p \in providers, Matches(p, task[r].who), Go(r, "select", "commit_login"),
               task' = [task EXCEPT ![r].row = p.id],
               UNCHANGED <<providers, users, jar, answer, removals, failures>>
        PROVE  AInv'
    <3> DEFINE t == [task[r] EXCEPT !.row = p.id]
    <3>1. /\ p.who = task[r].who /\ p.id \in Request /\ Settled(p.id) /\ task[p.id].who = p.who
      <4>1. p.who \in Identity /\ p.id \in Request /\ task[r].who \in Identity
        BY <2>1 DEF AInv, TypeOK, Roles, Go, LoginSteps, IsLogin
      <4>2. p.who = task[r].who
        BY <2>1, <4>1 DEF Matches, Identity
      <4> QED
        BY <4>1, <4>2 DEF AInv, RowsAreOwn
    <3>2. /\ t = [browser |-> task[r].browser, who |-> task[r].who,
                  username |-> task[r].username, row |-> p.id]
          /\ t.who # NoIdentity /\ t.username = NoRow
      BY <2>1, RowOfTask, LoginsOfSteps DEF Go, LoginSteps
    <3>3. t \in [browser : Browser \cup {NoRow}, who : Identity \cup {NoIdentity},
                 username : Username \cup {NoRow}, row : Request \cup {NoRow}]
      BY <3>1, <3>2, TasksAreTyped
    <3>4. task' = [task EXCEPT ![r] = t]
      BY <2>1
    <3> HIDE DEF t
    <3>5. t.who = task[r].who /\ t.row = p.id
      BY <3>2
    <3>6. Settled(t.row) /\ task[t.row].who = t.who
      BY <3>1, <3>5
    <3> QED
      BY <2>1, <3>2, <3>3, <3>4, <3>5, <3>6, TakeOK
  <2>2. ASSUME ~ \E p \in providers : Matches(p, task[r].who),
               Refuse(r, "select", "DatabaseError"), UNCHANGED <<removals, failures>>
        PROVE  AInv'
    <3>1. removals # 0
      BY <2>2 DEF AInv, ConflictsStay, RowsOf, Matches, Refuse, Go
    <3>2. ~ IsInit(r)
      BY <2>2 DEF AInv, Roles, Refuse, Go, LoginSteps
    <3> QED
      BY <2>2, <3>1, <3>2, RefuseOK DEF Connected, Errors, RefusalIsTrue, AInv
  <2> QED
    BY <1>5, <2>1, <2>2 DEF SelectProvider
<1>6. ASSUME CommitLogin(r) PROVE AInv'
  BY <1>6, CommitLoginOK DEF CommitLogin, AInv
<1> QED
  BY <1>1, <1>2, <1>3, <1>4, <1>5, <1>6 DEF HandleLogin

\* And of the mutation initializeUser.
LEMMA InitStepsOK ==
  ASSUME AInv, NEW r \in Request, HandleInit(r)
  PROVE  AInv'
<1>1. ASSUME LoadContext(r) PROVE AInv'
  <2>1. ASSUME NEW reason \in {"Unauthenticated", "ValidationErrors"},
               Refuse(r, "context", reason), UNCHANGED <<removals, failures>>
        PROVE  AInv'
    BY <2>1, RefuseOK DEF Connected, Errors, RefusalIsTrue, AInv
  <2>2. ASSUME Go(r, "context", "insert_user"), task[r].username \in ValidUsername,
               UNCHANGED <<providers, users, jar, task, answer, removals, failures>>
        PROVE  AInv'
    BY <2>2, MoveOK DEF Moves
  <2> QED
    BY <1>1, <2>1, <2>2 DEF LoadContext
<1>2. ASSUME InsertUser(r) PROVE AInv'
  <2>1. Convert({UniqueToExists}, "UniqueViolation") = "AlreadyExists"
    BY DEF Convert, UniqueToExists
  <2>2. ASSUME \E u \in users : u.username = task[r].username,
               Refuse(r, "insert_user", "AlreadyExists"), UNCHANGED <<removals, failures>>
        PROVE  AInv'
    BY <2>2, RefuseOK DEF Connected, Errors, RefusalIsTrue, AInv
  <2>3. ASSUME ~ \E u \in users : u.username = task[r].username,
               ~ \E o \in Request : InsertedUser(o) /\ task[o].username = task[r].username,
               Go(r, "insert_user", "link"),
               UNCHANGED <<providers, users, jar, task, answer, removals, failures>>
        PROVE  AInv'
    BY <2>3, MoveOK DEF Moves
  <2> QED
    BY <1>2, <2>1, <2>2, <2>3 DEF InsertUser
<1>3. ASSUME LinkProvider(r) PROVE AInv'
  <2>1. ASSUME Linkable(task[r].row) = {},
               Refuse(r, "link", "NotFound"), UNCHANGED <<removals, failures>>
        PROVE  AInv'
    BY <2>1, RefuseOK DEF Connected, Errors, RefusalIsTrue, AInv
  <2>2. ASSUME Linkable(task[r].row) # {},
               ~ \E o \in Request : LinkedProvider(o) /\ task[o].row = task[r].row,
               Go(r, "link", "commit_init"),
               UNCHANGED <<providers, users, jar, task, answer, removals, failures>>
        PROVE  AInv'
    BY <2>2, MoveOK DEF Moves
  <2> QED
    BY <1>3, <2>1, <2>2 DEF LinkProvider
<1>4. ASSUME CommitInit(r) PROVE AInv'
  BY <1>4, CommitInitOK DEF CommitInit, AInv
<1> QED
  BY <1>1, <1>2, <1>3, <1>4 DEF HandleInit

LEMMA FailuresOK ==
  ASSUME AInv, NEW r \in Request, LoseConnection(r) \/ LoseAcknowledgement(r)
  PROVE  AInv'
<1>1. ASSUME LoseConnection(r) PROVE AInv'
  <2>1. failures' = failures + 1 /\ failures' \in Nat /\ failures' # 0 /\ UNCHANGED removals
    BY <1>1 DEF LoseConnection, AInv
  <2>2. Refuse(r, pc[r], "DatabaseError") /\ pc[r] \in Connected /\ RefusalIsTrue(r, "DatabaseError")
    BY <1>1, <2>1 DEF LoseConnection, RefusalIsTrue
  <2> QED
    BY <2>1, <2>2, RefuseOK DEF Errors, AInv
<1>2. ASSUME LoseAcknowledgement(r) PROVE AInv'
  <2>1. failures' = failures + 1 /\ failures' \in Nat /\ failures' # 0
    BY <1>2 DEF LoseAcknowledgement, AInv
  <2>2. ASSUME Go(r, "commit_init", "done"), WriteUser(r) PROVE AInv'
    BY <1>2, <2>1, <2>2, CommitInitOK DEF LoseAcknowledgement
  <2>3. ASSUME Go(r, "commit_login", "done"), providers' = providers \cup NewProvider(r),
               UNCHANGED users
        PROVE  AInv'
    BY <1>2, <2>1, <2>3, CommitLoginOK DEF LoseAcknowledgement
  <2> QED
    BY <1>2, <2>2, <2>3 DEF LoseAcknowledgement
<1> QED
  BY <1>1, <1>2

LEMMA ReceiveOK ==
  ASSUME AInv, NEW r \in Request, NEW b \in Browser,
         \/ \E who \in Identity : ReceiveLogin(r, b, who)
         \/ \E name \in Username : ReceiveInit(r, b, name)
  PROVE  AInv'
<1>1. ASSUME NEW who \in Identity, ReceiveLogin(r, b, who) PROVE AInv'
  <2> DEFINE t == [browser |-> b, who |-> who, username |-> NoRow, row |-> NoRow]
  <2>1. who # NoIdentity /\ t.who = who /\ t.row = NoRow
    BY Sentinels
  <2>2. /\ Go(r, "idle", "state") /\ task' = [task EXCEPT ![r] = t]
        /\ UNCHANGED <<providers, users, jar, answer, removals, failures>>
    BY <1>1 DEF ReceiveLogin
  <2>3. t \in [browser : Browser \cup {NoRow}, who : Identity \cup {NoIdentity},
               username : Username \cup {NoRow}, row : Request \cup {NoRow}]
    OBVIOUS
  <2>4. t.username = NoRow
    OBVIOUS
  <2> HIDE DEF t
  <2> QED
    BY <2>1, <2>2, <2>3, <2>4, TakeOK
<1>2. ASSUME NEW name \in Username, ReceiveInit(r, b, name) PROVE AInv'
  <2> DEFINE t == [browser |-> b, who |-> NoIdentity, username |-> name, row |-> jar[b]]
  <2>1. /\ name # NoRow /\ jar[b] \in Request \cup {NoRow}
        /\ jar[b] # NoRow => Settled(jar[b])
    BY Sentinels DEF AInv, TypeOK, HeldRowsAreSettled
  <2>2. /\ Go(r, "idle", "context") /\ task' = [task EXCEPT ![r] = t]
        /\ UNCHANGED <<providers, users, jar, answer, removals, failures>>
    BY <1>2 DEF ReceiveInit
  <2>3. t \in [browser : Browser \cup {NoRow}, who : Identity \cup {NoIdentity},
               username : Username \cup {NoRow}, row : Request \cup {NoRow}]
    BY <2>1
  <2>4. t.who = NoIdentity /\ t.username = name /\ t.row = jar[b]
    OBVIOUS
  <2> HIDE DEF t
  <2>5. t.row # NoRow => Settled(t.row)
    BY <2>1, <2>4
  <2> QED
    BY <2>1, <2>2, <2>3, <2>4, <2>5, TakeOK
<1> QED
  BY <1>1, <1>2

\* A login with an unknown provider is answered at once.
LEMMA UnknownProviderOK ==
  ASSUME AInv, NEW r \in Request, UnknownProvider(r)
  PROVE  AInv'
<1>1. /\ Refuse(r, "idle", "NotFound") /\ UNCHANGED <<removals, failures>>
      /\ removals \in Nat /\ failures \in Nat
  BY DEF UnknownProvider, AInv
<1>2. ~ IsInit(r)
  BY <1>1 DEF Refuse, Go, AInv, Roles
<1>3. RefusalIsTrue(r, "NotFound")
  BY <1>2 DEF RefusalIsTrue
<1> QED
  BY <1>1, <1>3, RefuseOK DEF Errors

LEMMA AInvInductive == AInv /\ [Next]_vars => AInv'
<1> SUFFICES ASSUME AInv, [Next]_vars PROVE AInv'
  OBVIOUS
<1>1. CASE UNCHANGED vars
  BY <1>1, StutterOK
<1>2. CASE Next
  BY <1>2, ReceiveOK, UnknownProviderOK, LoginStepsOK, InitStepsOK, FailuresOK, LogoutOK, RemoveProviderOK DEF Next
<1> QED
  BY <1>1, <1>2

THEOREM InvariantOfAccounts == Spec => []AInv
BY InitAInv, AInvInductive, PTL DEF Spec

\* An answer to initializeUser is true of the tables for good, and without failures
\* and removals no request ends in a database error (user.rs:40-66, auth.rs:181-198).
THEOREM AnswersStayTrue == Spec => []AnswersAreTrue
<1>1. AInv => AnswersAreTrue
  BY DEF AInv
<1> QED
  BY <1>1, InvariantOfAccounts, PTL

LEMMA AInvLogins == AInv => LoginIsOwnIdentity
<1> SUFFICES ASSUME AInv, NEW r \in Request, IsLogin(r), answer[r] = "Ok",
                    NEW p \in RowWithId(task[r].row)
             PROVE  p.who = task[r].who
  BY DEF LoginIsOwnIdentity
<1>1. p \in providers /\ p.id = task[r].row /\ p.id \in Request
  BY DEF RowWithId, AInv, TypeOK
<1>2. task[p.id].who = p.who
  BY <1>1 DEF AInv, RowsAreOwn
<1>3. task[task[r].row].who = task[r].who
  BY <1>1, Sentinels DEF AInv, HeldRowsAreSettled
<1> QED
  BY <1>1, <1>2, <1>3

\* A login answered Ok remembers the row of the identity that logged in, whoever
\* inserted it and however the logins interleave (auth.rs:188-206).
THEOREM LoginsAreTheirOwn == Spec => []LoginIsOwnIdentity
BY AInvLogins, InvariantOfAccounts, PTL

-------------------------------------------------------------------------------
(* The refinement of the atomic book: commits are its steps, the rest are none  *)

LEMMA InitRefines == Init => Book!BookInit
BY DEF Init, Book!BookInit

\* A login's commit registers its identity, unless the row was there before.
LEMMA CommitLoginRefines ==
  ASSUME AInv, NEW r \in Request, pc[r] = "commit_login",
         providers' = providers \cup NewProvider(r), UNCHANGED users
  PROVE  Book!BookNext \/ UNCHANGED <<providers, users>>
<1>1. CASE task[r].row = r
  <2>1. InsertedProvider(r) /\ task[r].who \in Identity
    BY <1>1, LoginsOfSteps DEF InsertedProvider, LoginSteps
  <2>2. \A p \in providers : p.id # r /\ p.who # task[r].who
    BY <2>1 DEF AInv, RowsAreOwn, Settled, InsertsAreAlone, RowsOf, InsertedProvider
  <2>3. Book!Register(r, task[r].who)
    BY <1>1, <2>2 DEF Book!Register, NewProvider, NoUser, Book!NoUser
  <2> QED
    BY <2>1, <2>3 DEF Book!BookNext
<1>2. CASE task[r].row # r
  BY <1>2 DEF NewProvider
<1> QED
  BY <1>1, <1>2

\* The commit of initializeUser names the user of one unnamed row.
LEMMA CommitInitRefines ==
  ASSUME AInv, NEW r \in Request, pc[r] = "commit_init", WriteUser(r)
  PROVE  Book!BookNext
<1> DEFINE u == [id |-> r, username |-> task[r].username]
<1>1. LinkedProvider(r) /\ InsertedUser(r) /\ task[r].username \in Username
  BY DEF LinkedProvider, InsertedUser, AInv, Roles, ValidUsername
<1>2. PICK p \in providers :
        /\ RowWithId(task[r].row) = {p} /\ p.id = task[r].row /\ p.user = NoUser
        /\ providers' = (providers \ {p}) \cup {[p EXCEPT !.user = r]}
        /\ users' = users \cup {u}
  BY <1>1, WriteUserEffect
<1>3. \A other \in users : other.username # task[r].username /\ other.id # r
  BY <1>1 DEF AInv, NamesAreAlone, UsersAreOwn
<1>4. Book!NameUser(p, u)
  <2>1. u.id = r /\ u.username = task[r].username
    OBVIOUS
  <2> HIDE DEF u
  <2> QED
    BY <1>2, <1>3, <2>1 DEF Book!NameUser, NoUser, Book!NoUser
<1> QED
  BY <1>1, <1>4 DEF Book!BookNext

LEMMA StepRefines == AInv /\ [Next]_vars => Book!BookNext \/ UNCHANGED <<providers, users>>
<1> SUFFICES ASSUME AInv, [Next]_vars PROVE Book!BookNext \/ UNCHANGED <<providers, users>>
  OBVIOUS
<1>1. ASSUME NEW r \in Request, CommitLogin(r)
      PROVE  Book!BookNext \/ UNCHANGED <<providers, users>>
  BY <1>1, CommitLoginRefines DEF CommitLogin, Go
<1>2. ASSUME NEW r \in Request, CommitInit(r)
      PROVE  Book!BookNext \/ UNCHANGED <<providers, users>>
  BY <1>2, CommitInitRefines DEF CommitInit, Go
<1>3. ASSUME NEW r \in Request, LoseAcknowledgement(r)
      PROVE  Book!BookNext \/ UNCHANGED <<providers, users>>
  BY <1>3, CommitLoginRefines, CommitInitRefines DEF LoseAcknowledgement, Go
<1>4. ASSUME NEW p \in providers, RemoveProvider(p)
      PROVE  Book!BookNext
  BY <1>4 DEF RemoveProvider, Book!Remove, Book!BookNext
<1>5. ASSUME NEW r \in Request, NEW b \in Browser,
             \/ \E who \in Identity : ReceiveLogin(r, b, who)
             \/ \E name \in Username : ReceiveInit(r, b, name)
      PROVE  UNCHANGED <<providers, users>>
  BY <1>5 DEF ReceiveLogin, ReceiveInit
<1>6. ASSUME NEW r \in Request, HandleLogin(r), ~ CommitLogin(r)
      PROVE  UNCHANGED <<providers, users>>
  BY <1>6 DEF HandleLogin, ParseState, TokenRefused, TokenAccepted, InsertProvider, SelectProvider, Refuse
<1>7. ASSUME NEW r \in Request, HandleInit(r), ~ CommitInit(r)
      PROVE  UNCHANGED <<providers, users>>
  BY <1>7 DEF HandleInit, LoadContext, InsertUser, LinkProvider, Refuse
<1>8. ASSUME NEW r \in Request, LoseConnection(r)
      PROVE  UNCHANGED <<providers, users>>
  BY <1>8 DEF LoseConnection, Refuse
<1>9. ASSUME NEW b \in Browser, Logout(b)
      PROVE  UNCHANGED <<providers, users>>
  BY <1>9 DEF Logout
<1>10. ASSUME NEW r \in Request, UnknownProvider(r)
       PROVE  UNCHANGED <<providers, users>>
  BY <1>10 DEF UnknownProvider, Refuse
<1> QED
  BY <1>1, <1>2, <1>3, <1>4, <1>5, <1>6, <1>7, <1>8, <1>9, <1>10 DEF Next, vars

\* However requests, failures and removals interleave, the committed tables only
\* change as the atomic book does (user.rs:31-67, auth.rs:170-202).
THEOREM AccountsImplementTheBook == Spec => BookIsAtomic
<1>1. AInv /\ [Next]_vars => [Book!BookNext]_<<providers, users>>
  BY StepRefines
<1> QED
  BY <1>1, InitRefines, InvariantOfAccounts, PTL DEF Spec, BookIsAtomic, Book!BookSpec

-------------------------------------------------------------------------------
(* Behind the pool and the workers of the server                                *)

\* What the server adds to the handlers: requests are refused when the pool is empty.
LEMMA ServerSteps ==
  ASSUME [ServerNext]_serverVars
  PROVE  \/ [Next]_vars
         \/ \E r \in Request : PoolTimeout(r)
<1>1. ASSUME NEW r \in Request, NEW w \in Worker, Receive(r, w) PROVE Next
  BY <1>1 DEF Receive, Next
<1>2. ASSUME NEW r \in Request, GetConnection(r) \/ TakeThread(r) PROVE UNCHANGED vars
  BY <1>2 DEF GetConnection, TakeThread
<1>3. ASSUME NEW r \in Request, Handle(r) \/ Fail(r) PROVE Next
  BY <1>3 DEF Handle, Fail, Next
<1>4. ASSUME Elsewhere PROVE Next
  BY <1>4 DEF Elsewhere, Next
<1>5. UNCHANGED serverVars => UNCHANGED vars
  BY DEF serverVars
<1>6. ASSUME NEW r \in Request, Reject(r) PROVE Next
  BY <1>6 DEF Reject, Next
<1> QED
  BY <1>1, <1>2, <1>3, <1>4, <1>5, <1>6 DEF ServerNext

LEMMA PoolTimeoutOK ==
  ASSUME AInv, NEW r \in Request, PoolTimeout(r)
  PROVE  AInv' /\ UNCHANGED <<providers, users>>
<1>1. /\ Refuse(r, pc[r], "R2d2Error") /\ pc[r] \in Connected /\ UNCHANGED <<removals, failures>>
  BY DEF PoolTimeout, Waiting, Connected
<1>2. RefusalIsTrue(r, "R2d2Error")
  BY DEF RefusalIsTrue
<1> QED
  BY <1>1, <1>2, RefuseOK DEF Errors, AInv, Refuse

\* The pool, the workers and the blocking threads take nothing away: the accounts
\* keep their promises behind them (server/mod.rs:33-51).
THEOREM ServerKeepsTheAccounts ==
  ServerSpec => [](AnswersAreTrue /\ LoginIsOwnIdentity) /\ BookIsAtomic
<1>1. ServerInit => AInv /\ Book!BookInit
  BY InitAInv, InitRefines DEF ServerInit
<1>2. AInv /\ [ServerNext]_serverVars => AInv' /\ [Book!BookNext]_<<providers, users>>
  BY ServerSteps, PoolTimeoutOK, AInvInductive, StepRefines
<1>3. AInv => AnswersAreTrue /\ LoginIsOwnIdentity
  BY AInvLogins DEF AInv
<1> QED
  BY <1>1, <1>2, <1>3, PTL DEF ServerSpec, BookIsAtomic, Book!BookSpec
===============================================================================
