-------------------------------- MODULE Server --------------------------------
(* Who runs the handlers of Accounts: src/api/src/server/mod.rs, server/auth.rs *)
(* and util.rs (init_db_conn_pool). actix-web runs each request on one worker, *)
(* a thread that polls one handler at a time. Both routes begin with pool.get(), *)
(* which blocks that thread, once a login's provider is looked up; a login then *)
(* awaits its provider with the connection in its hands, and a GraphQL request  *)
(* is executed by web::block on the blocking threads.                           *)
EXTENDS Accounts

CONSTANTS
  Worker,    \* the HTTP server's threads
  PoolSize,  \* connections of the pool (r2d2's default is 10)
  Threads    \* threads that web::block runs closures on

ASSUME PoolAssumption == PoolSize \in Nat \ {0} /\ Threads \in Nat \ {0}

VARIABLES
  worker,    \* the worker of each request
  conn,      \* the requests that hold a connection
  thread     \* the requests whose closure runs on a blocking thread

serverVars == <<vars, worker, conn, thread>>

NoWorker == "NoWorker"

ServerInit ==
  /\ Init
  /\ worker = [r \in Request |-> NoWorker] /\ conn = {} /\ thread = {}

\* In pool.get(): route_login calls it before it parses the state, route_graphql before
\* load_context.
Waiting(r) == pc[r] \in {"state", "context"} /\ r \notin conn

\* Suspended in the .await of request_token, with the connection.
Awaits(r) == pc[r] = "token" /\ r \in conn

\* The execution of the GraphQL request, behind web::block.
Blocking == {"insert_user", "link", "commit_init"}

\* The worker's thread is inside this handler and can poll no other.
OnWorker(r) == pc[r] \in {"state", "insert", "select", "commit_login", "context"}
Free(w) == ~ \E r \in Request : worker[r] = w /\ OnWorker(r)

\* A request that ended drops its connection and leaves its thread.
Release ==
  /\ conn' = {r \in conn : pc'[r] # "done"}
  /\ thread' = {r \in thread : pc'[r] # "done"}
  /\ UNCHANGED worker

-------------------------------------------------------------------------------
Receive(r, w) ==
  /\ Free(w)
  /\ \E b \in Browser :
       \/ \E who \in Identity : ReceiveLogin(r, b, who)
       \/ \E name \in Username : ReceiveInit(r, b, name)
  /\ worker' = [worker EXCEPT ![r] = w]
  /\ UNCHANGED <<conn, thread>>

\* A login with a provider that is not configured asks for no connection.
Reject(r) ==
  /\ \E w \in Worker : Free(w)
  /\ UnknownProvider(r) /\ UNCHANGED <<worker, conn, thread>>

GetConnection(r) ==
  /\ Waiting(r) /\ Cardinality(conn) < PoolSize
  /\ conn' = conn \cup {r}
  /\ UNCHANGED <<vars, worker, thread>>

\* Mutant: pool.get() waits as long as it takes.
PoolNeverTimesOut(r) == FALSE

\* No connection came back in time (30 s): the request is refused.
PoolTimeout(r) ==
  /\ Waiting(r) /\ Cardinality(conn) = PoolSize
  /\ Refuse(r, pc[r], "R2d2Error") /\ UNCHANGED <<removals, failures>>
  /\ Release

\* Mutant: the closure takes a connection of its own.
TakeThreadAndConnection(r) ==
  /\ pc[r] \in Blocking /\ r \notin thread /\ Cardinality(thread) < Threads
  /\ Cardinality(conn) + Cardinality(thread) < PoolSize
  /\ thread' = thread \cup {r}
  /\ UNCHANGED <<vars, worker, conn>>

\* A blocking thread takes the closure. It has its connection, inside the context.
TakeThread(r) ==
  /\ pc[r] \in Blocking /\ r \notin thread /\ Cardinality(thread) < Threads
  /\ thread' = thread \cup {r}
  /\ UNCHANGED <<vars, worker, conn>>

\* The handler has what its next step needs.
CanRun(r) ==
  /\ r \in conn
  /\ pc[r] = "token" => Free(worker[r])
  /\ pc[r] \in Blocking => r \in thread

Handle(r) == CanRun(r) /\ (HandleLogin(r) \/ HandleInit(r)) /\ Release
Fail(r) == CanRun(r) /\ (LoseConnection(r) \/ LoseAcknowledgement(r)) /\ Release

Elsewhere == (\E b \in Browser : Logout(b)) \/ (\E p \in providers : RemoveProvider(p))

ServerNext ==
  \/ \E r \in Request :
       \/ \E w \in Worker : Receive(r, w)
       \/ Reject(r) \/ GetConnection(r) \/ PoolTimeout(r) \/ TakeThread(r)
       \/ Handle(r) \/ Fail(r)
  \/ Elsewhere /\ UNCHANGED <<worker, conn, thread>>

ServerSpec == ServerInit /\ [][ServerNext]_serverVars

\* The pool hands out what it has or times out, a thread that ends takes the next
\* closure, the scheduler runs the handlers and PostgreSQL grants a lock when its
\* holder ends. Nothing makes the OpenID provider answer: no step from "token" is
\* fair.
FairServerSpec ==
  /\ ServerSpec
  /\ \A r \in Request :
       /\ WF_serverVars(GetConnection(r) \/ PoolTimeout(r))
       /\ WF_serverVars(TakeThread(r))
       /\ WF_serverVars(pc[r] # "token" /\ Handle(r))

-------------------------------------------------------------------------------
\* Every request is answered unless it awaits the OpenID provider: neither the
\* waits for rows, nor the pool, nor the workers and threads ever close a cycle that
\* no timeout opens (server/mod.rs:33-51, auth.rs:145-202, user.rs:34-67).
EveryRequestIsAnswered ==
  \A r \in Request : pc[r] # "idle" ~> answer[r] # "none" \/ Awaits(r)

\* Only logins exhaust the pool: when every connection is taken and none of their
\* holders can take a step, all of them are logins that await their provider on
\* workers blocked in pool.get(). Whoever executes a query has all it needs, the
\* one connection in its context included (auth.rs:147, server/mod.rs:38-46).
OnlyLoginsExhaustThePool ==
  Cardinality(conn) = PoolSize /\ (\A r \in conn : ~ ENABLED (Handle(r) \/ TakeThread(r))) =>
    \A r \in conn : Awaits(r)
================================================================================
