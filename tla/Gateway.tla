------------------------------ MODULE Gateway ------------------------------
(***************************************************************************)
(* The way of a request through one backend process: authenticateToken,    *)
(* authorizeRoles and the handler, which share a pool of pg clients.       *)
(*                                                                         *)
(* JavaScript runs from one await to the next without interruption, and so *)
(* does a step of this module.  In particular the middleware calls next()  *)
(* and does not wait for it: the handler runs up to its own pool.connect() *)
(* before the finally block of the middleware gives its client back.       *)
(***************************************************************************)
EXTENDS Naturals, Sequences

CONSTANTS
    Requests,    \* requests the process can have in hand at once
    Clients,     \* the clients of the pool (max)
    Endpoints,   \* names of the routes
    Route,       \* what stands before each: auth, roles and the documented answers
    Handler,     \* what each handler does: tx, locks, early, exits, catch and frees
    Callers,     \* role: in tenant_users for the tenant asked for; claim: in the token
    None         \* no request

Codes == {200, 201, 400, 401, 403, 404, 409, 410, 500}

Roles == {"superadmin", "tenant_admin", "provider", "staff", "customer"}

\* The statement a handler awaits before it answers.
Ends == {"nothing", "ROLLBACK", "COMMIT"}

ASSUME NoneIsNoRequest == None \notin Requests

ASSUME RoutesAreRoutes ==
    Route \in [Endpoints -> [auth : BOOLEAN, roles : SUBSET Roles, answers : SUBSET Codes]]

ASSUME HandlersAreHandlers ==
    Handler \in [Endpoints -> [tx : BOOLEAN, locks : BOOLEAN, early : SUBSET Codes,
                               exits : SUBSET [code : Codes, ends : Ends],
                               catch : Ends, frees : BOOLEAN]]

ASSUME CallersAreCallers == Callers \subseteq [role : Roles \cup {"none"}, claim : Roles]

VARIABLES
    stage,     \* how far each request has come
    job,       \* the endpoint each request is for, and who asks
    answer,    \* the code each request is answered, and by whom
    owner,     \* Clients -> the request that has the client checked out
    inTx,      \* the clients with a transaction open
    queue,     \* the requests that wait for a client, first come first served
    row        \* the request whose transaction has the row locked that all want

gateVars == <<stage, job, answer, owner, inTx, queue, row>>

Waiting == {"auth_wait", "wait"}

\* A handler with its client: before BEGIN, before it has its row, at work, and on its
\* way out, with only the finally block left.
InHandler == {"open", "begun", "working", "leaving"}

Holding == {"auth"} \cup InHandler

Stages == {"idle", "arrived"} \cup Waiting \cup Holding

NoJob == [endpoint |-> "none", caller |-> [role |-> "none", claim |-> "none"]]

NoAnswer == [code |-> 0, by |-> "nobody"]

TypeOK ==
    /\ stage \in [Requests -> Stages]
    /\ job \in [Requests -> [endpoint : Endpoints, caller : Callers] \cup {NoJob}]
    /\ answer \in [Requests -> [code : Codes, by : {"middleware", "handler"}] \cup {NoAnswer}]
    /\ owner \in [Clients -> Requests \cup {None}]
    /\ inTx \subseteq Clients
    /\ queue \in Seq(Requests)
    /\ row \in Requests \cup {None}

Init ==
    /\ stage = [r \in Requests |-> "idle"]
    /\ job = [r \in Requests |-> NoJob]
    /\ answer = [r \in Requests |-> NoAnswer]
    /\ owner = [c \in Clients |-> None]
    /\ inTx = {}
    /\ queue = <<>>
    /\ row = None

HandlerOf(r) == Handler[job[r].endpoint]

RouteOf(r) == Route[job[r].endpoint]

(***************************************************************************)
(* Answering, and what the middleware and a handler give back.             *)
(***************************************************************************)
Reply(r, code, who) ==
    /\ stage' = [stage EXCEPT ![r] = "idle"]
    /\ job' = [job EXCEPT ![r] = NoJob]
    /\ answer' = [answer EXCEPT ![r] = [code |-> code, by |-> who]]

Released(r) == [c \in Clients |-> IF owner[c] = r THEN None ELSE owner[c]]

\* An exit of a handler: COMMIT or ROLLBACK is executed, or nothing is, and the answer
\* is known.
Take(r, exit) ==
    /\ stage' = [stage EXCEPT ![r] = "leaving"]
    /\ answer' = [answer EXCEPT ![r] = [code |-> exit.code, by |-> "handler"]]
    /\ IF exit.ends = "nothing"
       THEN UNCHANGED <<inTx, row>>
       ELSE /\ inTx' = {c \in inTx : owner[c] # r}
            /\ row' = IF row = r THEN None ELSE row
    /\ UNCHANGED <<job, owner, queue>>

\* pool.connect(): whoever asks for a client waits in line for it.
Ask(r, label) ==
    /\ stage' = [stage EXCEPT ![r] = label]
    /\ queue' = Append(queue, r)
    /\ UNCHANGED <<inTx, row>>

(***************************************************************************)
(* A request arrives: at the middleware, or at once at a public handler,   *)
(* which checks its body before it asks for a client.                      *)
(***************************************************************************)
Receive(r) ==
    /\ stage[r] = "idle"
    /\ \E e \in Endpoints, caller \in Callers :
          job' = [job EXCEPT ![r] = [endpoint |-> e, caller |-> caller]]
    /\ stage' = [stage EXCEPT ![r] = "arrived"]
    /\ answer' = [answer EXCEPT ![r] = NoAnswer]
    /\ UNCHANGED <<owner, inTx, queue, row>>

\* No token or an expired one, no tenant, one that does not verify, no JWT_SECRET.
RefuseToken(r) ==
    /\ stage[r] = "arrived"
    /\ RouteOf(r).auth
    /\ \E code \in {400, 401, 403, 500} : Reply(r, code, "middleware")
    /\ UNCHANGED <<owner, inTx, queue, row>>

Authenticate(r) ==
    /\ stage[r] = "arrived"
    /\ RouteOf(r).auth
    /\ Ask(r, "auth_wait")
    /\ UNCHANGED <<job, answer, owner>>

EnterPublic(r) ==
    /\ stage[r] = "arrived"
    /\ ~RouteOf(r).auth
    /\ \/ /\ \E code \in HandlerOf(r).early : Reply(r, code, "handler")
          /\ UNCHANGED <<owner, inTx, queue, row>>
       \/ /\ Ask(r, "wait")
          /\ UNCHANGED <<job, answer, owner>>

(***************************************************************************)
(* The pool serves the head of its queue.  After connectionTimeoutMillis a *)
(* waiting connect() is rejected: a 500 of whoever called it, or of        *)
(* Express, where the call stands before the try block.                    *)
(***************************************************************************)
Serve(c) ==
    /\ owner[c] = None
    /\ queue # <<>>
    /\ LET r == Head(queue)
       IN  /\ owner' = [owner EXCEPT ![c] = r]
           /\ stage' = [stage EXCEPT ![r] = IF @ = "auth_wait" THEN "auth" ELSE "open"]
    /\ queue' = Tail(queue)
    /\ UNCHANGED <<job, answer, inTx, row>>

Without(k) == [i \in 1 .. Len(queue) - 1 |-> IF i < k THEN queue[i] ELSE queue[i + 1]]

TimeOut(k) ==
    LET r == queue[k]
    IN  /\ queue' = Without(k)
        /\ Reply(r, 500, IF stage[r] = "auth_wait" THEN "middleware" ELSE "handler")
        /\ UNCHANGED <<owner, inTx, row>>

(***************************************************************************)
(* The middleware has its client and reads the caller's role.  Its finally *)
(* block gives the client back on every way out.                           *)
(***************************************************************************)

\* The role the token claims.
RoleOf_Token(r) == job[r].caller.claim

\* The role tenant_users has for the tenant of the x-tenant-id header.
RoleOf(r) == job[r].caller.role

NotAllowed(r) ==
    /\ stage[r] = "auth"
    /\ RoleOf(r) \notin RouteOf(r).roles
    /\ Reply(r, 403, "middleware")
    /\ owner' = Released(r)
    /\ UNCHANGED <<inTx, queue, row>>

\* Its query fails.
AuthFault(r) ==
    /\ stage[r] = "auth"
    /\ Reply(r, 500, "middleware")
    /\ owner' = Released(r)
    /\ UNCHANGED <<inTx, queue, row>>

\* await next() before the finally block.
AfterNext_Awaited(r) == owner

\* What the pool looks like when the synchronous part of next() is over.
AfterNext(r) == Released(r)

Admit(r) ==
    /\ stage[r] = "auth"
    /\ RoleOf(r) \in RouteOf(r).roles
    /\ \/ /\ \E code \in HandlerOf(r).early : Reply(r, code, "handler")
          /\ owner' = Released(r)
          /\ UNCHANGED <<inTx, queue, row>>
       \/ /\ Ask(r, "wait")
          /\ owner' = AfterNext(r)
          /\ UNCHANGED <<job, answer>>

(***************************************************************************)
(* The handler has a client.  Each return and each catch of it ends the    *)
(* transaction by itself, or does not.                                     *)
(***************************************************************************)
Read(r) ==
    /\ stage[r] = "open"
    /\ ~HandlerOf(r).tx
    /\ \E x \in HandlerOf(r).exits : Take(r, x)

BeginTx(r) ==
    /\ stage[r] = "open"
    /\ HandlerOf(r).tx
    /\ stage' = [stage EXCEPT ![r] = "begun"]
    /\ inTx' = inTx \cup {c \in Clients : owner[c] = r}
    /\ UNCHANGED <<job, answer, owner, queue, row>>

\* SELECT ... FOR UPDATE: no row, or its lock once it is free.
NotFound(r) ==
    /\ stage[r] = "begun"
    /\ HandlerOf(r).locks
    /\ \E x \in HandlerOf(r).exits : x.code = 404 /\ Take(r, x)

LockRow(r) ==
    /\ stage[r] = "begun"
    /\ HandlerOf(r).locks => row = None
    /\ stage' = [stage EXCEPT ![r] = "working"]
    /\ row' = IF HandlerOf(r).locks THEN r ELSE row
    /\ UNCHANGED <<job, answer, owner, inTx, queue>>

\* A refusal, or success.  createCheckoutSession has called Stripe in between, with the
\* row locked.
Conclude(r) ==
    /\ stage[r] = "working"
    /\ \E x \in HandlerOf(r).exits : x.code # 404 /\ Take(r, x)

\* A query fails, Stripe does, or the answer of a statement is lost, that of COMMIT
\* included: the catch block runs, and Express answers 500 where the catch fails, too.
Catch(r) ==
    /\ stage[r] \in InHandler
    /\ Take(r, [code |-> 500, ends |-> HandlerOf(r).catch])

\* finally { client.release() }
Finally(r) ==
    /\ stage[r] = "leaving"
    /\ stage' = [stage EXCEPT ![r] = "idle"]
    /\ job' = [job EXCEPT ![r] = NoJob]
    /\ owner' = IF HandlerOf(r).frees THEN Released(r) ELSE owner
    /\ UNCHANGED <<answer, inTx, queue, row>>

Step(r) ==
    \/ RefuseToken(r) \/ Authenticate(r) \/ EnterPublic(r) \/ NotAllowed(r) \/ Admit(r)
    \/ Read(r) \/ BeginTx(r) \/ NotFound(r) \/ LockRow(r) \/ Conclude(r) \/ Finally(r)

Fault(r) == AuthFault(r) \/ Catch(r)

Next ==
    \/ \E r \in Requests : Receive(r) \/ Step(r) \/ Fault(r)
    \/ \E c \in Clients : Serve(c)
    \/ \E k \in 1 .. Len(queue) : TimeOut(k)

Spec == Init /\ [][Next]_gateVars

(***************************************************************************)
(* The pool serves whoever is next when it has an idle client; a query is  *)
(* answered, and Postgres queues the waiters for a row.  The timer of      *)
(* connect() need not run out, and nothing has to fail.                    *)
(***************************************************************************)
FairSpec ==
    /\ Spec
    /\ \A r \in Requests : SF_gateVars(Step(r))
    /\ WF_gateVars(\E c \in Clients : Serve(c))

(***************************************************************************)
(* Safety.                                                                 *)
(***************************************************************************)

\* Nobody waits for a client with one in hand: were the middleware's client still
\* checked out when the handler's connect() waits, as many requests as there are
\* clients could all wait for each other.
NobodyHoldsAndWaits ==
    \A c \in Clients, k \in 1 .. Len(queue) : owner[c] # queue[k]

\* Whichever return or catch a handler leaves by, its client goes back to the pool with
\* the transaction over, and no row stays locked behind it: the next request begins
\* from a clean connection.
CleanClients ==
    /\ \A c \in Clients : owner[c] = None => c \notin inTx
    /\ row # None => \E c \in inTx : owner[c] = row

\* Clients that are checked out belong to requests that have not been answered: no
\* path through middleware and handler leaks one.
NoClientLeaks == \A c \in Clients : owner[c] # None => stage[owner[c]] # "idle"

\* A handler that has a client, or waits for one, serves somebody whom the database
\* gives a role the route allows, whatever role the token claims.
WorkIsAuthorised ==
    \A r \in Requests :
        /\ stage[r] \in {"wait"} \cup InHandler
        /\ RouteOf(r).auth
        => job[r].caller.role \in RouteOf(r).roles

\* What a handler answers is listed in the OpenAPI annotation of its route.
AnswersAreDocumented ==
    [][\A r \in Requests :
          stage[r] # "idle" /\ stage'[r] = "idle" /\ answer'[r].by = "handler" =>
             answer'[r].code \in RouteOf(r).answers]_gateVars

(***************************************************************************)
(* Liveness.                                                               *)
(***************************************************************************)

\* Every request is answered without the help of the pool's timer: the pool does
\* not deadlock, although each request takes two clients one after the other and
\* transactions wait for rows with their client in hand.
EveryRequestAnswered == \A r \in Requests : stage[r] # "idle" ~> stage[r] = "idle"

(***************************************************************************)
(* The inductive invariant: how the stage of a request goes with the queue *)
(* and the clients.                                                        *)
(***************************************************************************)
JobsOK ==
    \A r \in Requests :
        stage[r] # "idle" => job[r] \in [endpoint : Endpoints, caller : Callers]

QueueOK ==
    /\ \A k \in 1 .. Len(queue) : stage[queue[k]] \in Waiting
    /\ \A i, j \in 1 .. Len(queue) : queue[i] = queue[j] => i = j

ClientsOK ==
    /\ \A c \in Clients : owner[c] # None => stage[owner[c]] \in Holding
    /\ \A r \in Requests : stage[r] \in Holding => \E c \in Clients : owner[c] = r

InTransaction == {"begun", "working"}

TransactionsOK ==
    /\ \A c \in inTx : owner[c] # None /\ stage[owner[c]] \in InTransaction
    /\ \A r \in Requests :
          stage[r] \in InTransaction => HandlerOf(r).tx /\ \E c \in inTx : owner[c] = r
    /\ row # None => stage[row] = "working"

\* What a handler that is on its way out answers is one of its codes.
ExitsOK ==
    \A r \in Requests :
        stage[r] = "leaving" =>
            /\ answer[r].by = "handler"
            /\ answer[r].code = 500 \/ \E x \in HandlerOf(r).exits : answer[r].code = x.code

GatewayInv ==
    /\ TypeOK
    /\ JobsOK
    /\ QueueOK
    /\ ClientsOK
    /\ TransactionsOK
    /\ ExitsOK
    /\ WorkIsAuthorised

=============================================================================
