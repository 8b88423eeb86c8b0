------------------------------- MODULE Accounts -------------------------------
(* Login, naming one's user, and logout: src/api/src/server/auth.rs,           *)
(* views/context.rs and views/user.rs over the tables user_providers and users *)
(* of PostgreSQL at its default isolation, READ COMMITTED. One action per SQL  *)
(* statement: a statement sees what is committed when it runs, waits for an    *)
(* uncommitted row that would conflict with it or that it would update, and    *)
(* reads it again afterwards. A transaction's own writes stay in `task` until  *)
(* it commits.                                                                 *)
EXTENDS Naturals, FiniteSets, ApiErrors

CONSTANTS
  Request,       \* requests; also the ids of the rows they insert (a fresh UUID each)
  Browser,       \* cookie jars
  Subject,
  ProviderName,  \* the providers that are configured
  Username,
  MaxRemovals,   \* bound on rows removed by an operator
  MaxFailures    \* bound on connections lost

Identity == [sub : Subject, provider_name : ProviderName]
ValidUsername == Username \ {""}

VARIABLES
  providers, users,  \* the committed rows
  jar,               \* the identity cookie of each browser: a row's id, or NoRow
  pc, task,          \* where each request is, and what it holds
  answer,
  removals, failures

NoUser == "NoUser"
NoRow == "NoRow"
vars == <<providers, users, jar, pc, task, answer, removals, failures>>

Errors == {"NotFound", "AlreadyExists", "Unauthenticated", "ValidationErrors",
           "DatabaseError", "OpenIdError", "InvalidCredentials", "InvalidState", "R2d2Error"}
NoIdentity == [sub |-> "none", provider_name |-> "none"]
NoTask == [browser |-> NoRow, who |-> NoIdentity, username |-> NoRow, row |-> NoRow]

\* What stands for nothing is no row's id, and nothing that users or providers send.
ASSUME SentinelAssumption ==
  /\ NoRow \notin Request \cup Username \cup Browser /\ NoUser \notin Request
  /\ NoIdentity \notin Identity

Init ==
  /\ providers = {} /\ users = {}
  /\ jar = [b \in Browser |-> NoRow]
  /\ pc = [r \in Request |-> "idle"]
  /\ task = [r \in Request |-> NoTask]
  /\ answer = [r \in Request |-> "none"]
  /\ removals = 0 /\ failures = 0

Go(r, from, to) == pc[r] = from /\ pc' = [pc EXCEPT ![r] = to]

\* The request ends; whatever its transaction did is rolled back.
Refuse(r, from, reason) ==
  /\ Go(r, from, "done")
  /\ answer' = [answer EXCEPT ![r] = reason]
  /\ UNCHANGED <<providers, users, jar, task>>

-------------------------------------------------------------------------------
(* The database: committed rows, and the uncommitted ones others wait for.     *)

RowsOf(who) == {p \in providers : p.who = who}
RowWithId(id) == {p \in providers : p.id = id}

\* Requests holding an uncommitted row of user_providers, of users, or an update.
InsertedProvider(r) == pc[r] = "commit_login" /\ task[r].row = r
InsertedUser(r) == pc[r] \in {"link", "commit_init"}
LinkedProvider(r) == pc[r] = "commit_init"

-------------------------------------------------------------------------------
(* GET /api/oidc/{provider}/callback                                           *)

\* get_client knows no such provider.
UnknownProvider(r) == Refuse(r, "idle", "NotFound") /\ UNCHANGED <<removals, failures>>

ReceiveLogin(r, b, who) ==
  /\ Go(r, "idle", "state")
  /\ task' = [task EXCEPT ![r] =
       [browser |-> b, who |-> who, username |-> NoRow, row |-> NoRow]]
  /\ UNCHANGED <<providers, users, jar, answer, removals, failures>>

\* The state parameter is parsed, if there is one, when the connection is there.
ParseState(r) ==
  /\ \/ Refuse(r, "state", "InvalidState")
     \/ Go(r, "state", "token") /\ UNCHANGED <<providers, users, jar, task, answer>>
  /\ UNCHANGED <<removals, failures>>

\* The provider refuses the code or its token does not validate, or it sent no id token.
TokenRefused(r) ==
  /\ \E reason \in {"OpenIdError", "InvalidCredentials"} : Refuse(r, "token", reason)
  /\ UNCHANGED <<removals, failures>>

\* request_token: the provider answers with a valid token and the user's subject.
TokenAccepted(r) ==
  /\ Go(r, "token", "insert")
  /\ UNCHANGED <<providers, users, jar, task, answer, removals, failures>>

\* INSERT ... ON CONFLICT DO NOTHING RETURNING id
InsertProvider(r) ==
  LET who == task[r].who IN
  /\ ~ \E other \in Request : InsertedProvider(other) /\ task[other].who = who
  /\ IF RowsOf(who) = {}
     THEN Go(r, "insert", "commit_login") /\ task' = [task EXCEPT ![r].row = r]
     ELSE Go(r, "insert", "select") /\ UNCHANGED task
  /\ UNCHANGED <<providers, users, jar, answer, removals, failures>>

\* Mutant: the provider's name is forgotten in the filter.
MatchesSub(p, who) == p.who.sub = who.sub

Matches(p, who) == p.who.sub = who.sub /\ p.who.provider_name = who.provider_name

\* The row was there when the INSERT ran; it is looked up by a later statement.
SelectProvider(r) ==
  \/ \E p \in providers :
       /\ Matches(p, task[r].who)
       /\ Go(r, "select", "commit_login")
       /\ task' = [task EXCEPT ![r].row = p.id]
       /\ UNCHANGED <<providers, users, jar, answer, removals, failures>>
  \/ /\ ~ \E p \in providers : Matches(p, task[r].who)
     /\ Refuse(r, "select", "DatabaseError")
     /\ UNCHANGED <<removals, failures>>

NewProvider(r) ==
  IF task[r].row = r THEN {[id |-> r, who |-> task[r].who, user |-> NoUser]} ELSE {}

\* COMMIT, then identity.remember and the redirect.
CommitLogin(r) ==
  /\ Go(r, "commit_login", "done")
  /\ providers' = providers \cup NewProvider(r)
  /\ jar' = [jar EXCEPT ![task[r].browser] = task[r].row]
  /\ answer' = [answer EXCEPT ![r] = "Ok"]
  /\ UNCHANGED <<users, task, removals, failures>>

\* POST /api/logout: the cookie is forgotten; requests under way keep theirs.
Logout(b) ==
  /\ jar' = [jar EXCEPT ![b] = NoRow]
  /\ UNCHANGED <<providers, users, pc, task, answer, removals, failures>>

-------------------------------------------------------------------------------
(* The mutation initializeUser                                                 *)

ReceiveInit(r, b, name) ==
  /\ Go(r, "idle", "context")
  /\ task' = [task EXCEPT ![r] =
       [browser |-> b, who |-> NoIdentity, username |-> name, row |-> jar[b]]]
  /\ UNCHANGED <<providers, users, jar, answer, removals, failures>>

\* RequestContext::load_context and the checks before the transaction. A row that
\* already has its user passes: the update below is what refuses it.
LoadContext(r) ==
  \/ /\ RowWithId(task[r].row) = {}
     /\ Refuse(r, "context", "Unauthenticated")
     /\ UNCHANGED <<removals, failures>>
  \/ /\ RowWithId(task[r].row) # {} /\ task[r].username \notin ValidUsername
     /\ Refuse(r, "context", "ValidationErrors")
     /\ UNCHANGED <<removals, failures>>
  \/ /\ RowWithId(task[r].row) # {} /\ task[r].username \in ValidUsername
     /\ Go(r, "context", "insert_user")
     /\ UNCHANGED <<providers, users, jar, task, answer, removals, failures>>

\* Mutant: the user is inserted outside of the transaction.
InsertUserCommitted(r) ==
  /\ ~ \E u \in users : u.username = task[r].username
  /\ Go(r, "insert_user", "link")
  /\ users' = users \cup {[id |-> r, username |-> task[r].username]}
  /\ UNCHANGED <<providers, jar, task, answer, removals, failures>>

\* INSERT INTO users: waits for an uncommitted row of the same name.
InsertUser(r) ==
  /\ ~ \E other \in Request : InsertedUser(other) /\ task[other].username = task[r].username
  /\ \/ /\ \E u \in users : u.username = task[r].username
        /\ Refuse(r, "insert_user", Convert({UniqueToExists}, "UniqueViolation"))
        /\ UNCHANGED <<removals, failures>>
     \/ /\ ~ \E u \in users : u.username = task[r].username
        /\ Go(r, "insert_user", "link")
        /\ UNCHANGED <<providers, users, jar, task, answer, removals, failures>>

\* Mutant: no IS NULL filter.
LinkableTwice(id) == RowWithId(id)

\* The row the update may change: WHERE id = .. AND user_id IS NULL.
Linkable(id) == {p \in providers : p.id = id /\ p.user = NoUser}

\* UPDATE user_providers: waits for the row's uncommitted update, then looks again.
LinkProvider(r) ==
  /\ ~ \E other \in Request : LinkedProvider(other) /\ task[other].row = task[r].row
  /\ \/ /\ Linkable(task[r].row) = {}
        /\ Refuse(r, "link", "NotFound")
        /\ UNCHANGED <<removals, failures>>
     \/ /\ Linkable(task[r].row) # {}
        /\ Go(r, "link", "commit_init")
        /\ UNCHANGED <<providers, users, jar, task, answer, removals, failures>>

WriteUser(r) ==
  LET old == RowWithId(task[r].row) IN
  /\ providers' = (providers \ old) \cup {[p EXCEPT !.user = r] : p \in old}
  /\ users' = users \cup {[id |-> r, username |-> task[r].username]}

CommitInit(r) ==
  /\ Go(r, "commit_init", "done")
  /\ WriteUser(r)
  /\ answer' = [answer EXCEPT ![r] = "Ok"]
  /\ UNCHANGED <<jar, task, removals, failures>>

-------------------------------------------------------------------------------
(* What the code does not decide: connections and rows are lost.               *)

Connected == {"state", "token", "insert", "select", "commit_login",
              "context", "insert_user", "link", "commit_init"}

\* The database or the connection goes away: the transaction is rolled back. A
\* login that awaits its provider only notices at its first statement.
LoseConnection(r) ==
  /\ failures < MaxFailures /\ pc[r] \in Connected \ {"state", "token"}
  /\ Refuse(r, pc[r], "DatabaseError")
  /\ failures' = failures + 1
  /\ UNCHANGED removals

\* It goes away between the COMMIT and its acknowledgement: the caller sees an
\* error, and the rows are there.
LoseAcknowledgement(r) ==
  /\ failures < MaxFailures
  /\ \/ /\ Go(r, "commit_init", "done")
        /\ WriteUser(r)
     \/ /\ Go(r, "commit_login", "done")
        /\ providers' = providers \cup NewProvider(r)
        /\ UNCHANGED users
  /\ answer' = [answer EXCEPT ![r] = "DatabaseError"]
  /\ failures' = failures + 1
  /\ UNCHANGED <<jar, task, removals>>

\* An operator removes a login row (no code does); a locked row makes it wait.
RemoveProvider(p) ==
  /\ removals < MaxRemovals
  /\ ~ \E r \in Request : LinkedProvider(r) /\ task[r].row = p.id
  /\ providers' = providers \ {p}
  /\ removals' = removals + 1
  /\ UNCHANGED <<users, jar, pc, task, answer, failures>>

-------------------------------------------------------------------------------
HandleLogin(r) ==
  \/ ParseState(r) \/ TokenRefused(r) \/ TokenAccepted(r)
  \/ InsertProvider(r) \/ SelectProvider(r) \/ CommitLogin(r)
HandleInit(r) == LoadContext(r) \/ InsertUser(r) \/ LinkProvider(r) \/ CommitInit(r)

Next ==
  \/ \E r \in Request, b \in Browser :
       \/ \E who \in Identity : ReceiveLogin(r, b, who)
       \/ \E name \in Username : ReceiveInit(r, b, name)
  \/ \E r \in Request :
       \/ UnknownProvider(r) \/ HandleLogin(r) \/ HandleInit(r)
       \/ LoseConnection(r) \/ LoseAcknowledgement(r)
  \/ \E b \in Browser : Logout(b)
  \/ \E p \in providers : RemoveProvider(p)

Spec == Init /\ [][Next]_vars

-------------------------------------------------------------------------------
TypeOK ==
  /\ providers \subseteq [id : Request, who : Identity, user : Request \cup {NoUser}]
  /\ users \subseteq [id : Request, username : ValidUsername]
  /\ jar \in [Browser -> Request \cup {NoRow}]
  /\ pc \in [Request -> Connected \cup {"idle", "done"}]
  /\ task \in [Request -> [browser : Browser \cup {NoRow}, who : Identity \cup {NoIdentity},
                           username : Username \cup {NoRow}, row : Request \cup {NoRow}]]
  /\ answer \in [Request -> Errors \cup {"none", "Ok"}]

\* However requests, failures and removals interleave, the committed tables only
\* change as the atomic book does: one row per identity, one user per name, a user
\* tied to its row in one step and never to a second row's (user.rs:31-67, the
\* transaction and its IS NULL filter; auth.rs:170-202).
Book == INSTANCE AccountBook WITH Id <- Request
BookIsAtomic == Book!BookSpec

IsInit(r) == task[r].username # NoRow
IsLogin(r) == task[r].who # NoIdentity

\* An answer to initializeUser is true of the tables for good: Ok, and the user is
\* there and its row, if not removed, points to it; AlreadyExists, and somebody
\* has the name; NotFound, and the row is removed or has another user; and no
\* refusal leaves a user behind (user.rs:40-66). Without failures and removals no
\* request ends in a database error, whatever the others insert (auth.rs:181-198).
AnswersAreTrue ==
  /\ failures = 0 /\ removals = 0 => \A r \in Request : answer[r] # "DatabaseError"
  /\ \A r \in Request : IsInit(r) =>
       /\ answer[r] = "Ok" =>
            /\ [id |-> r, username |-> task[r].username] \in users
            /\ \A p \in RowWithId(task[r].row) : p.user = r
       /\ answer[r] = "AlreadyExists" => \E u \in users : u.username = task[r].username
       /\ answer[r] = "NotFound" => Linkable(task[r].row) = {}
       /\ answer[r] \in Errors \ {"DatabaseError"} => \A u \in users : u.id # r

\* A login answered Ok remembers the row of the identity that logged in: same
\* subject at the same provider, whoever inserted the row (auth.rs:188-206).
LoginIsOwnIdentity ==
  \A r \in Request : IsLogin(r) /\ answer[r] = "Ok" =>
    \A p \in RowWithId(task[r].row) : p.who = task[r].who
================================================================================
