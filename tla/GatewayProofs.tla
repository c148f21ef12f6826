---------------------------- MODULE GatewayProofs ----------------------------
(***************************************************************************)
(* Proofs about Gateway for every pool size and every number of requests:  *)
(* GatewayInv is inductive for every table of handlers each of whose ways  *)
(* out cleans up, and those of the backend are such a table.               *)
(***************************************************************************)
EXTENDS Gateway, ApiHandlers, TLAPS

USE NoneIsNoRequest, RoutesAreRoutes, HandlersAreHandlers

\* Every return in a transaction, and the catch block, has its COMMIT or ROLLBACK, and a
\* finally block releases the client.
CleansUp(h) ==
    /\ h.frees
    /\ h.tx => h.catch # "nothing" /\ \A x \in h.exits : x.ends # "nothing"

HandlersCleanUp == \A e \in Endpoints : CleansUp(Handler[e])

LEMMA InitGatewayInv == Init => GatewayInv
  BY DEF Init, GatewayInv, TypeOK, JobsOK, QueueOK, ClientsOK, TransactionsOK, ExitsOK,
         WorkIsAuthorised, Stages, Holding, InHandler, Waiting, InTransaction

\* The tables give codes and statements that exist.
LEMMA HandlerCodes ==
    ASSUME GatewayInv, NEW r \in Requests, stage[r] # "idle"
    PROVE  /\ HandlerOf(r).early \subseteq Codes
           /\ HandlerOf(r).exits \subseteq [code : Codes, ends : Ends]
           /\ HandlerOf(r).catch \in Ends
           /\ HandlersCleanUp => CleansUp(HandlerOf(r))
  BY DEF GatewayInv, JobsOK, HandlerOf, HandlersCleanUp

\* The end of a request that has no transaction open and is not in the queue
\* afterwards.
LEMMA EndKeeps ==
    ASSUME GatewayInv, NEW r \in Requests, stage[r] \notin InTransaction,
           stage' = [stage EXCEPT ![r] = "idle"], job' = [job EXCEPT ![r] = NoJob],
           answer' \in [Requests -> [code : Codes, by : {"middleware", "handler"}] \cup {NoAnswer}],
           \A q \in Requests \ {r} : answer'[q] = answer[q],
           owner' = Released(r), UNCHANGED <<inTx, row>>,
           queue' \in Seq(Requests),
           \A k \in 1 .. Len(queue') : queue'[k] # r /\ stage[queue'[k]] \in Waiting,
           \A i, j \in 1 .. Len(queue') : queue'[i] = queue'[j] => i = j
    PROVE  GatewayInv'
<1> USE DEF Released, GatewayInv
<1>1. TypeOK'
  BY DEF TypeOK, Stages
<1>2. JobsOK'
  BY DEF TypeOK, JobsOK
<1>3. QueueOK'
  BY DEF TypeOK, QueueOK
<1>4. ClientsOK'
  BY DEF TypeOK, ClientsOK, Holding, InHandler
<1>5. TransactionsOK'
  BY DEF TypeOK, TransactionsOK, InTransaction, HandlerOf
<1>6. ExitsOK'
  BY DEF TypeOK, ExitsOK, HandlerOf
<1>7. WorkIsAuthorised'
  BY DEF TypeOK, WorkIsAuthorised, RouteOf, InHandler
<1> QED
  BY <1>1, <1>2, <1>3, <1>4, <1>5, <1>6, <1>7

\* The common case: the request was not waiting for a client.
LEMMA ReplyInHand ==
    ASSUME GatewayInv, NEW r \in Requests, stage[r] \notin Waiting \cup InTransaction,
           NEW code \in Codes, NEW who \in {"middleware", "handler"}, Reply(r, code, who),
           owner' = Released(r), UNCHANGED <<inTx, queue, row>>
    PROVE  GatewayInv'
<1>1. /\ answer' \in [Requests -> [code : Codes, by : {"middleware", "handler"}] \cup {NoAnswer}]
      /\ \A q \in Requests \ {r} : answer'[q] = answer[q]
  BY DEF GatewayInv, TypeOK, Reply
<1>2. /\ queue' \in Seq(Requests)
      /\ \A k \in 1 .. Len(queue') : queue'[k] # r /\ stage[queue'[k]] \in Waiting
      /\ \A i, j \in 1 .. Len(queue') : queue'[i] = queue'[j] => i = j
  BY DEF GatewayInv, TypeOK, QueueOK
<1> QED
  BY <1>1, <1>2, EndKeeps DEF Reply

\* The way out of a handler, over an exit that ends its transaction if it has one.
LEMMA TakeKeeps ==
    ASSUME GatewayInv, NEW r \in Requests, stage[r] \in InHandler,
           NEW exit \in [code : Codes, ends : Ends], Take(r, exit),
           HandlerOf(r).tx => exit.ends # "nothing",
           exit.code = 500 \/ exit \in HandlerOf(r).exits
    PROVE  GatewayInv'
<1> USE DEF GatewayInv
<1>1. /\ stage' = [stage EXCEPT ![r] = "leaving"]
      /\ answer' = [answer EXCEPT ![r] = [code |-> exit.code, by |-> "handler"]]
      /\ UNCHANGED <<job, owner, queue>>
      /\ inTx' \subseteq inTx /\ row' \in {row, None}
  BY DEF Take
<1>2. stage[r] \in InTransaction => \A c \in inTx' : owner[c] # r
  BY DEF TransactionsOK, Take
<1>3. row' # None => row' # r
  <2>1. CASE exit.ends = "nothing"
    BY <2>1 DEF Take, TransactionsOK, InTransaction
  <2>2. CASE exit.ends # "nothing"
    BY <2>2 DEF Take
  <2> QED
    BY <2>1, <2>2
<1>4. \A c \in inTx : owner[c] # r => c \in inTx'
  BY DEF Take
<1>5. TypeOK'
  BY <1>1 DEF TypeOK, Stages, Holding, InHandler
<1>6. JobsOK' /\ QueueOK'
  BY <1>1 DEF TypeOK, JobsOK, QueueOK, Waiting, InHandler
<1>7. ClientsOK'
  BY <1>1 DEF TypeOK, ClientsOK, Holding, InHandler
<1>8. TransactionsOK'
  <2>1. \A c \in inTx' : owner'[c] # None /\ stage'[owner'[c]] \in InTransaction
    BY <1>1, <1>2 DEF TypeOK, TransactionsOK
  <2>2. ASSUME NEW q \in Requests, stage'[q] \in InTransaction
        PROVE  HandlerOf(q).tx' /\ \E c \in inTx' : owner'[c] = q
    <3>1. q # r /\ stage[q] \in InTransaction
      BY <1>1, <2>2 DEF TypeOK, InTransaction
    <3> QED
      BY <1>1, <1>4, <3>1 DEF TransactionsOK, HandlerOf
  <2>3. row' # None => stage'[row'] = "working"
    BY <1>1, <1>3 DEF TypeOK, TransactionsOK
  <2> QED
    BY <2>1, <2>2, <2>3 DEF TransactionsOK
<1>9. ExitsOK'
  BY <1>1 DEF TypeOK, ExitsOK, HandlerOf
<1>10. WorkIsAuthorised'
  BY <1>1 DEF TypeOK, WorkIsAuthorised, RouteOf, InHandler
<1> QED
  BY <1>5, <1>6, <1>7, <1>8, <1>9, <1>10

\* Joining the queue, after the middleware or before it.
LEMMA AskKeeps ==
    ASSUME GatewayInv, NEW r \in Requests, stage[r] \in {"arrived", "auth"},
           NEW label \in Waiting, Ask(r, label), UNCHANGED <<job, answer>>,
           owner' = Released(r),
           label = "wait" /\ RouteOf(r).auth => job[r].caller.role \in RouteOf(r).roles
    PROVE  GatewayInv'
<1> USE DEF Ask, Released, GatewayInv, Waiting
<1>0. /\ Len(queue') = Len(queue) + 1
      /\ \A k \in 1 .. Len(queue) : queue'[k] = queue[k] /\ queue[k] # r
      /\ queue'[Len(queue')] = r
  BY DEF TypeOK, QueueOK
<1>1. TypeOK'
  BY DEF TypeOK, Stages
<1>2. JobsOK'
  BY DEF TypeOK, JobsOK
<1>3. QueueOK'
  BY <1>0 DEF TypeOK, QueueOK
<1>4. ClientsOK'
  BY DEF TypeOK, ClientsOK, Holding, InHandler
<1>5. TransactionsOK'
  BY DEF TypeOK, TransactionsOK, InTransaction, HandlerOf
<1>6. ExitsOK'
  BY DEF TypeOK, ExitsOK, HandlerOf
<1>7. WorkIsAuthorised'
  BY DEF TypeOK, WorkIsAuthorised, RouteOf, InHandler
<1> QED
  BY <1>1, <1>2, <1>3, <1>4, <1>5, <1>6, <1>7

\* A request without a client has nothing to release.
LEMMA NothingToRelease ==
    ASSUME GatewayInv, NEW r \in Requests, stage[r] \notin Holding
    PROVE  Released(r) = owner
  BY DEF GatewayInv, TypeOK, ClientsOK, Released

LEMMA ReceiveKeeps ==
    ASSUME GatewayInv, NEW r \in Requests, Receive(r)
    PROVE  GatewayInv'
<1> USE DEF Receive, GatewayInv
<1>1. TypeOK'
  BY DEF TypeOK, Stages
<1>2. JobsOK'
  BY DEF TypeOK, JobsOK
<1>3. QueueOK'
  BY DEF TypeOK, QueueOK, Waiting
<1>4. ClientsOK'
  BY DEF TypeOK, ClientsOK, Holding, InHandler
<1>5. TransactionsOK'
  BY DEF TypeOK, TransactionsOK, InTransaction, HandlerOf
<1>6. ExitsOK'
  BY DEF TypeOK, ExitsOK, HandlerOf
<1>7. WorkIsAuthorised'
  BY DEF TypeOK, WorkIsAuthorised, RouteOf, InHandler
<1> QED
  BY <1>1, <1>2, <1>3, <1>4, <1>5, <1>6, <1>7

LEMMA ServeKeeps ==
    ASSUME GatewayInv, NEW c \in Clients, Serve(c)
    PROVE  GatewayInv'
<1> DEFINE r == Head(queue)
<1> USE DEF Serve, GatewayInv
<1>0. /\ r \in Requests /\ r = queue[1] /\ stage[r] \in Waiting
      /\ queue' \in Seq(Requests) /\ Len(queue') = Len(queue) - 1
      /\ \A k \in 1 .. Len(queue') : queue'[k] = queue[k + 1] /\ queue'[k] # r
      /\ stage'[r] \in {"auth", "open"}
      /\ \A q \in Requests \ {r} : stage'[q] = stage[q]
      /\ owner'[c] = r
      /\ \A d \in Clients \ {c} : owner'[d] = owner[d]
  BY DEF TypeOK, QueueOK
<1>1. TypeOK'
  BY <1>0 DEF TypeOK, Stages, Holding, InHandler, Waiting
<1>2. JobsOK'
  BY <1>0 DEF TypeOK, JobsOK, Waiting
<1>3. QueueOK'
  BY <1>0 DEF TypeOK, QueueOK
<1>4. ClientsOK'
  BY <1>0 DEF TypeOK, ClientsOK, Holding, InHandler, Waiting
<1>5. TransactionsOK'
  BY <1>0 DEF TypeOK, TransactionsOK, InTransaction, HandlerOf, Waiting
<1>6. ExitsOK'
  BY <1>0 DEF TypeOK, ExitsOK, HandlerOf
<1>7. WorkIsAuthorised'
  BY <1>0 DEF TypeOK, WorkIsAuthorised, RouteOf, InHandler, Waiting
<1> QED
  BY <1>1, <1>2, <1>3, <1>4, <1>5, <1>6, <1>7

LEMMA TimeOutKeeps ==
    ASSUME GatewayInv, NEW k \in 1 .. Len(queue), TimeOut(k)
    PROVE  GatewayInv'
<1> DEFINE r == queue[k]
<1>1. r \in Requests /\ queue \in Seq(Requests) /\ Len(queue) \in Nat
  BY DEF GatewayInv, TypeOK
<1>2. /\ queue' \in Seq(Requests) /\ Len(queue') = Len(queue) - 1
      /\ \A i \in 1 .. Len(queue') : queue'[i] = IF i < k THEN queue[i] ELSE queue[i + 1]
  BY <1>1 DEF TimeOut, Without
<1>3. \A i \in 1 .. Len(queue') : queue'[i] # r /\ stage[queue'[i]] \in Waiting
  BY <1>1, <1>2 DEF GatewayInv, QueueOK
<1>4. \A i, j \in 1 .. Len(queue') : queue'[i] = queue'[j] => i = j
  BY <1>1, <1>2 DEF GatewayInv, QueueOK
<1>5. PICK who \in {"middleware", "handler"} :
         Reply(r, 500, who) /\ UNCHANGED <<owner, inTx, row>>
  BY DEF TimeOut
<1>6. 500 \in Codes
  BY DEF Codes
<1> HIDE DEF r
<1>7. stage[r] \in Waiting
  BY DEF GatewayInv, QueueOK, r
<1>8. Released(r) = owner /\ stage[r] \notin InTransaction
  BY <1>1, <1>7, NothingToRelease DEF Waiting, Holding, InHandler, InTransaction
<1>9. /\ answer' \in [Requests -> [code : Codes, by : {"middleware", "handler"}] \cup {NoAnswer}]
      /\ \A q \in Requests \ {r} : answer'[q] = answer[q]
  BY <1>5, <1>6 DEF GatewayInv, TypeOK, Reply
<1> QED
  BY <1>1, <1>2, <1>3, <1>4, <1>5, <1>8, <1>9, EndKeeps DEF Reply

LEMMA BeginTxKeeps ==
    ASSUME GatewayInv, NEW r \in Requests, BeginTx(r)
    PROVE  GatewayInv'
<1> USE DEF BeginTx, GatewayInv
<1>1. TypeOK'
  BY DEF TypeOK, Stages, Holding, InHandler
<1>2. JobsOK' /\ QueueOK'
  <2>1. JobsOK'
    BY DEF TypeOK, JobsOK
  <2>2. QueueOK'
    BY DEF TypeOK, QueueOK, Waiting
  <2> QED
    BY <2>1, <2>2
<1>3. ClientsOK'
  BY DEF TypeOK, ClientsOK, Holding, InHandler
<1>4. TransactionsOK'
  BY DEF TypeOK, ClientsOK, TransactionsOK, InTransaction, Holding, InHandler, HandlerOf
<1>5. ExitsOK'
  BY DEF TypeOK, ExitsOK, HandlerOf
<1>6. WorkIsAuthorised'
  BY DEF TypeOK, WorkIsAuthorised, RouteOf, InHandler
<1> QED
  BY <1>1, <1>2, <1>3, <1>4, <1>5, <1>6

LEMMA LockRowKeeps ==
    ASSUME GatewayInv, NEW r \in Requests, LockRow(r)
    PROVE  GatewayInv'
<1> USE DEF LockRow, GatewayInv
<1>1. TypeOK'
  BY DEF TypeOK, Stages, Holding, InHandler
<1>2. JobsOK' /\ QueueOK'
  <2>1. JobsOK'
    BY DEF TypeOK, JobsOK
  <2>2. QueueOK'
    BY DEF TypeOK, QueueOK, Waiting
  <2> QED
    BY <2>1, <2>2
<1>3. ClientsOK'
  BY DEF TypeOK, ClientsOK, Holding, InHandler
<1>4. TransactionsOK'
  BY DEF TypeOK, TransactionsOK, InTransaction, HandlerOf
<1>5. ExitsOK'
  BY DEF TypeOK, ExitsOK, HandlerOf
<1>6. WorkIsAuthorised'
  BY DEF TypeOK, WorkIsAuthorised, RouteOf, InHandler
<1> QED
  BY <1>1, <1>2, <1>3, <1>4, <1>5, <1>6

LEMMA FinallyKeeps ==
    ASSUME HandlersCleanUp, GatewayInv, NEW r \in Requests, Finally(r)
    PROVE  GatewayInv'
<1>1. stage[r] = "leaving" /\ stage[r] \notin InTransaction
  BY DEF Finally, InTransaction
<1>2. owner' = Released(r)
  BY <1>1, HandlerCodes DEF Finally, CleansUp
<1>3. /\ answer' \in [Requests -> [code : Codes, by : {"middleware", "handler"}] \cup {NoAnswer}]
      /\ \A q \in Requests \ {r} : answer'[q] = answer[q]
  BY DEF GatewayInv, TypeOK, Finally
<1>4. /\ queue' \in Seq(Requests)
      /\ \A k \in 1 .. Len(queue') : queue'[k] # r /\ stage[queue'[k]] \in Waiting
      /\ \A i, j \in 1 .. Len(queue') : queue'[i] = queue'[j] => i = j
  BY <1>1 DEF GatewayInv, TypeOK, QueueOK, Waiting, Finally
<1> QED
  BY <1>1, <1>2, <1>3, <1>4, EndKeeps DEF Finally

\* A return of a handler.
LEMMA ExitKeeps ==
    ASSUME HandlersCleanUp, GatewayInv, NEW r \in Requests, stage[r] \in InHandler,
           NEW x \in HandlerOf(r).exits, Take(r, x)
    PROVE  GatewayInv'
<1>1. stage[r] # "idle"
  BY DEF InHandler
<1>2. x \in [code : Codes, ends : Ends] /\ (HandlerOf(r).tx => x.ends # "nothing")
  BY <1>1, HandlerCodes DEF CleansUp
<1> QED
  BY <1>2, TakeKeeps

LEMMA StepKeeps ==
    ASSUME HandlersCleanUp, GatewayInv, NEW r \in Requests, Step(r)
    PROVE  GatewayInv'
<1> USE DEF Waiting, Holding, InHandler, InTransaction
<1>1. CASE RefuseToken(r)
  BY <1>1, NothingToRelease, ReplyInHand DEF RefuseToken, Codes
<1>2. CASE Authenticate(r)
  BY <1>2, NothingToRelease, AskKeeps DEF Authenticate
<1>3. CASE EnterPublic(r)
  <2>1. stage[r] = "arrived" /\ ~RouteOf(r).auth /\ Released(r) = owner
    BY <1>3, NothingToRelease DEF EnterPublic
  <2>2. CASE Ask(r, "wait") /\ UNCHANGED <<job, answer, owner>>
    BY <2>1, <2>2, AskKeeps
  <2>3. ASSUME NEW code \in HandlerOf(r).early, Reply(r, code, "handler"),
               UNCHANGED <<owner, inTx, queue, row>>
        PROVE  GatewayInv'
    BY <2>1, <2>3, HandlerCodes, ReplyInHand
  <2> QED
    BY <1>3, <2>2, <2>3 DEF EnterPublic
<1>4. CASE NotAllowed(r)
  BY <1>4, ReplyInHand DEF NotAllowed, Codes
<1>5. CASE Admit(r)
  <2>1. stage[r] = "auth" /\ job[r].caller.role \in RouteOf(r).roles
    BY <1>5 DEF Admit, RoleOf
  <2>2. CASE Ask(r, "wait") /\ owner' = AfterNext(r) /\ UNCHANGED <<job, answer>>
    BY <2>1, <2>2, AskKeeps DEF AfterNext
  <2>3. ASSUME NEW code \in HandlerOf(r).early, Reply(r, code, "handler"),
               owner' = Released(r), UNCHANGED <<inTx, queue, row>>
        PROVE  GatewayInv'
    BY <2>1, <2>3, HandlerCodes, ReplyInHand
  <2> QED
    BY <1>5, <2>2, <2>3 DEF Admit
<1>6. CASE Read(r) \/ NotFound(r) \/ Conclude(r)
  <2>1. stage[r] \in InHandler
    BY <1>6 DEF Read, NotFound, Conclude
  <2>2. PICK x \in HandlerOf(r).exits : Take(r, x)
    BY <1>6 DEF Read, NotFound, Conclude
  <2> QED
    BY <2>1, <2>2, ExitKeeps
<1>7. CASE BeginTx(r)
  BY <1>7, BeginTxKeeps
<1>8. CASE LockRow(r)
  BY <1>8, LockRowKeeps
<1>9. CASE Finally(r)
  BY <1>9, FinallyKeeps
<1> QED
  BY <1>1, <1>2, <1>3, <1>4, <1>5, <1>6, <1>7, <1>8, <1>9 DEF Step

LEMMA FaultKeeps ==
    ASSUME HandlersCleanUp, GatewayInv, NEW r \in Requests, Fault(r)
    PROVE  GatewayInv'
<1>1. CASE AuthFault(r)
  BY <1>1, ReplyInHand DEF AuthFault, Codes, Waiting, InTransaction
<1>2. CASE Catch(r)
  <2>1. stage[r] \in InHandler /\ stage[r] # "idle"
    BY <1>2 DEF Catch, InHandler
  <2>2. PICK exit : exit = [code |-> 500, ends |-> HandlerOf(r).catch]
    OBVIOUS
  <2>3. /\ exit \in [code : Codes, ends : Ends] /\ exit.code = 500
        /\ HandlerOf(r).tx => exit.ends # "nothing"
    BY <2>1, <2>2, HandlerCodes DEF CleansUp, Codes
  <2>4. Take(r, exit)
    BY <1>2, <2>2 DEF Catch
  <2> QED
    BY <2>1, <2>3, <2>4, TakeKeeps
<1> QED
  BY <1>1, <1>2 DEF Fault

LEMMA NextKeeps ==
    ASSUME HandlersCleanUp
    PROVE  GatewayInv /\ [Next]_gateVars => GatewayInv'
<1> SUFFICES ASSUME GatewayInv, [Next]_gateVars PROVE GatewayInv'
  OBVIOUS
<1>1. CASE UNCHANGED gateVars
  <2> USE <1>1 DEF gateVars, GatewayInv
  <2>1. TypeOK' /\ JobsOK' /\ QueueOK' /\ ClientsOK'
    BY DEF TypeOK, JobsOK, QueueOK, ClientsOK
  <2>2. TransactionsOK'
    BY DEF TransactionsOK, HandlerOf
  <2>3. ExitsOK'
    BY DEF ExitsOK, HandlerOf
  <2>4. WorkIsAuthorised'
    BY DEF WorkIsAuthorised, RouteOf
  <2> QED
    BY <2>1, <2>2, <2>3, <2>4
<1>2. ASSUME NEW r \in Requests, Receive(r) \/ Step(r) \/ Fault(r) PROVE GatewayInv'
  BY <1>2, ReceiveKeeps, StepKeeps, FaultKeeps
<1>3. ASSUME NEW c \in Clients, Serve(c) PROVE GatewayInv'
  BY <1>3, ServeKeeps
<1>4. ASSUME NEW k \in 1 .. Len(queue), TimeOut(k) PROVE GatewayInv'
  BY <1>4, TimeOutKeeps
<1> QED
  BY <1>1, <1>2, <1>3, <1>4 DEF Next

\* The three kinds of handlers.
LEMMA ReadsCleanUp ==
    ASSUME NEW early, NEW refusals
    PROVE  CleansUp(Reads(early, refusals))
  BY DEF CleansUp, Reads

LEMMA InsertsCleanUp ==
    ASSUME NEW early, NEW refusals
    PROVE  CleansUp(Inserts(early, refusals))
  BY DEF CleansUp, Inserts, After

LEMMA LocksCleanUp ==
    ASSUME NEW early, NEW refusals, NEW ok
    PROVE  CleansUp(Locks(early, refusals, ok))
  BY DEF CleansUp, Locks, After

\* The handlers of the backend: every return and every catch of the nineteen has its
\* statement, and every finally its release.
LEMMA ApiHandlersCleanUp ==
    ASSUME Endpoints = ApiEndpoints, Handler = ApiHandler
    PROVE  HandlersCleanUp
<1>1. CleansUp(loginUser)
  BY ReadsCleanUp DEF loginUser
<1>2. CleansUp(listProviders)
  BY ReadsCleanUp DEF listProviders
<1>3. CleansUp(listAvailabilities)
  BY ReadsCleanUp DEF listAvailabilities
<1>4. CleansUp(getAvailability)
  BY ReadsCleanUp DEF getAvailability
<1>5. CleansUp(getBooking)
  BY ReadsCleanUp DEF getBooking
<1>6. CleansUp(listBookings)
  BY ReadsCleanUp DEF listBookings
<1>7. CleansUp(publicList)
  BY ReadsCleanUp DEF publicList
<1>8. CleansUp(publicSlot)
  BY ReadsCleanUp DEF publicSlot
<1>9. CleansUp(createAvailability)
  BY InsertsCleanUp DEF createAvailability
<1>10. CleansUp(createInvitation)
  BY InsertsCleanUp DEF createInvitation
<1>11. CleansUp(registerTenantAdmin)
  BY InsertsCleanUp DEF registerTenantAdmin
<1>12. CleansUp(updateAvailability)
  BY LocksCleanUp DEF updateAvailability
<1>13. CleansUp(deleteAvailability)
  BY LocksCleanUp DEF deleteAvailability
<1>14. CleansUp(createBooking)
  BY LocksCleanUp DEF createBooking
<1>15. CleansUp(createCheckoutSession)
  BY LocksCleanUp DEF createCheckoutSession
<1>16. CleansUp(updateBookingStatus)
  BY LocksCleanUp DEF updateBookingStatus
<1>17. CleansUp(acceptInvitation)
  BY LocksCleanUp DEF acceptInvitation
<1>18. CleansUp(registerInvited)
  BY LocksCleanUp DEF registerInvited
<1>19. CleansUp(handleStripeWebhook)
  BY LocksCleanUp DEF handleStripeWebhook
<1>20. \A e \in ApiEndpoints : CleansUp(ApiHandler[e])
  BY <1>1, <1>2, <1>3, <1>4, <1>5, <1>6, <1>7, <1>8, <1>9, <1>10,
     <1>11, <1>12, <1>13, <1>14, <1>15, <1>16, <1>17, <1>18, <1>19 DEF ApiEndpoints, ApiHandler
<1> QED
  BY <1>20 DEF HandlersCleanUp

\* With handlers that clean up, every reachable state of a backend process satisfies the
\* inductive invariant.
THEOREM Inductive ==
    ASSUME HandlersCleanUp
    PROVE  Spec => []GatewayInv
<1>1. GatewayInv /\ [Next]_gateVars => GatewayInv'
  BY NextKeeps
<1> QED
  BY <1>1, InitGatewayInv, PTL DEF Spec

\* With any number of requests and clients, no request waits for a client with one
\* in hand (middleware and pool).
THEOREM PoolCannotDeadlock ==
    ASSUME HandlersCleanUp
    PROVE  Spec => []NobodyHoldsAndWaits
<1>1. GatewayInv => NobodyHoldsAndWaits
  BY DEF GatewayInv, TypeOK, QueueOK, ClientsOK, NobodyHoldsAndWaits, Waiting, Holding, InHandler
<1> QED
  BY <1>1, Inductive, PTL

\* With the handlers of the backend, on whichever return or catch one is left: a client
\* that goes back to the pool has no transaction open and leaves no row locked.
THEOREM PoolStaysClean ==
    ASSUME Endpoints = ApiEndpoints, Handler = ApiHandler
    PROVE  Spec => []CleanClients
<1>1. GatewayInv => CleanClients
  BY DEF GatewayInv, TypeOK, TransactionsOK, CleanClients, InTransaction
<1>2. HandlersCleanUp
  BY ApiHandlersCleanUp
<1>3. Spec => []GatewayInv
  BY <1>2, Inductive
<1> QED
  BY <1>1, <1>3, PTL

\* With the handlers of the backend, no path through middleware, handler and catch
\* leaves a client checked out.
THEOREM NothingLeaks ==
    ASSUME Endpoints = ApiEndpoints, Handler = ApiHandler
    PROVE  Spec => []NoClientLeaks
<1>1. GatewayInv => NoClientLeaks
  BY DEF GatewayInv, TypeOK, ClientsOK, NoClientLeaks, Holding, InHandler
<1>2. HandlersCleanUp
  BY ApiHandlersCleanUp
<1>3. Spec => []GatewayInv
  BY <1>2, Inductive
<1> QED
  BY <1>1, <1>3, PTL

\* Handlers only work for callers whose role in the database the route allows.
THEOREM OnlyAllowedRolesWork ==
    ASSUME HandlersCleanUp
    PROVE  Spec => []WorkIsAuthorised
<1>1. GatewayInv => WorkIsAuthorised
  BY DEF GatewayInv
<1> QED
  BY <1>1, Inductive, PTL

(***************************************************************************)
(* What handlers answer.                                                   *)
(***************************************************************************)

\* Every code a handler can answer, and the 500 of its catch block, is in the
\* annotation of its route.
CodesAreListed ==
    \A e \in Endpoints :
        /\ Handler[e].early \cup {500} \subseteq Route[e].answers
        /\ \A x \in Handler[e].exits : x.code \in Route[e].answers

Listed(r) ==
    stage[r] # "idle" /\ stage'[r] = "idle" /\ answer'[r].by = "handler" =>
        answer'[r].code \in RouteOf(r).answers

LEMMA JobCodes ==
    ASSUME CodesAreListed, GatewayInv, NEW r \in Requests, stage[r] # "idle"
    PROVE  /\ HandlerOf(r).early \cup {500} \subseteq RouteOf(r).answers
           /\ \A x \in HandlerOf(r).exits : x.code \in RouteOf(r).answers
  BY DEF CodesAreListed, GatewayInv, JobsOK, HandlerOf, RouteOf

\* A reply ends one request, and with the code it gives.
LEMMA ReplyListed ==
    ASSUME GatewayInv, NEW r \in Requests, NEW code, NEW who, Reply(r, code, who),
           who = "handler" => code \in RouteOf(r).answers
    PROVE  \A q \in Requests : Listed(q)
  BY DEF Reply, Listed, GatewayInv, TypeOK

\* So does the finally block of a handler, with the code of its exit.
LEMMA FinallyListed ==
    ASSUME CodesAreListed, GatewayInv, NEW r \in Requests, Finally(r)
    PROVE  \A q \in Requests : Listed(q)
<1>1. stage[r] = "leaving" /\ answer' = answer /\ stage' = [stage EXCEPT ![r] = "idle"]
  BY DEF Finally
<1>2. answer[r].code \in RouteOf(r).answers
  BY <1>1, JobCodes DEF GatewayInv, ExitsOK
<1> QED
  BY <1>1, <1>2 DEF Listed, GatewayInv, TypeOK

\* Any other step that takes a request on ends none.
LEMMA OnwardListed ==
    ASSUME GatewayInv, NEW r, NEW label, label # "idle", stage' = [stage EXCEPT ![r] = label]
    PROVE  \A q \in Requests : Listed(q)
  BY DEF Listed, GatewayInv, TypeOK

LEMMA StepListed ==
    ASSUME CodesAreListed, GatewayInv, NEW r \in Requests, Step(r)
    PROVE  \A q \in Requests : Listed(q)
<1>1. CASE RefuseToken(r) \/ NotAllowed(r)
  BY <1>1, ReplyListed DEF RefuseToken, NotAllowed
<1>2. CASE Authenticate(r)
  BY <1>2, OnwardListed DEF Authenticate, Ask
<1>3. CASE EnterPublic(r) \/ Admit(r)
  <2>1. stage[r] # "idle"
    BY <1>3 DEF EnterPublic, Admit
  <2>2. CASE Ask(r, "wait")
    BY <2>2, OnwardListed DEF Ask
  <2>3. ASSUME NEW code \in HandlerOf(r).early, Reply(r, code, "handler")
        PROVE  \A q \in Requests : Listed(q)
    BY <2>1, <2>3, JobCodes, ReplyListed
  <2> QED
    BY <1>3, <2>2, <2>3 DEF EnterPublic, Admit
<1>4. CASE Read(r) \/ NotFound(r) \/ Conclude(r)
  <2>1. PICK x : Take(r, x)
    BY <1>4 DEF Read, NotFound, Conclude
  <2> QED
    BY <2>1, OnwardListed DEF Take
<1>5. CASE BeginTx(r) \/ LockRow(r)
  BY <1>5, OnwardListed DEF BeginTx, LockRow
<1>6. CASE Finally(r)
  BY <1>6, FinallyListed
<1> QED
  BY <1>1, <1>2, <1>3, <1>4, <1>5, <1>6 DEF Step

LEMMA NextListed ==
    ASSUME CodesAreListed, GatewayInv, [Next]_gateVars
    PROVE  \A q \in Requests : Listed(q)
<1>1. CASE UNCHANGED gateVars
  BY <1>1 DEF gateVars, Listed
<1>2. ASSUME NEW r \in Requests, Receive(r) \/ Step(r) \/ Fault(r)
      PROVE  \A q \in Requests : Listed(q)
  <2>1. CASE Receive(r)
    BY <2>1, OnwardListed DEF Receive
  <2>2. CASE Step(r)
    BY <2>2, StepListed
  <2>3. CASE AuthFault(r)
    BY <2>3, ReplyListed DEF AuthFault
  <2>4. CASE Catch(r)
    BY <2>4, OnwardListed DEF Catch, Take
  <2> QED
    BY <1>2, <2>1, <2>2, <2>3, <2>4 DEF Fault
<1>3. ASSUME NEW c \in Clients, Serve(c)
      PROVE  \A q \in Requests : Listed(q)
  <2>1. PICK r, label :
           stage' = [stage EXCEPT ![r] = label] /\ label \in {"auth", "open"}
    BY <1>3 DEF Serve
  <2> QED
    BY <2>1, OnwardListed
<1>4. ASSUME NEW k \in 1 .. Len(queue), TimeOut(k)
      PROVE  \A q \in Requests : Listed(q)
  <2>1. PICK r, who : r = queue[k] /\ Reply(r, 500, who)
    BY <1>4 DEF TimeOut
  <2>2. r \in Requests /\ stage[r] # "idle"
    BY <2>1 DEF GatewayInv, TypeOK, QueueOK, Waiting
  <2> QED
    BY <2>1, <2>2, JobCodes, ReplyListed
<1> QED
  BY <1>1, <1>2, <1>3, <1>4 DEF Next

Lists(h, answers) ==
    /\ h.early \cup {500} \subseteq answers
    /\ \A x \in h.exits : x.code \in answers

LEMMA ReadsListed ==
    ASSUME NEW early, NEW refusals, NEW answers,
           early \cup refusals \cup {200, 500} \subseteq answers
    PROVE  Lists(Reads(early, refusals), answers)
  BY DEF Lists, Reads, After

LEMMA InsertsListed ==
    ASSUME NEW early, NEW refusals, NEW answers,
           early \cup refusals \cup {201, 500} \subseteq answers
    PROVE  Lists(Inserts(early, refusals), answers)
  BY DEF Lists, Inserts, After

LEMMA LocksListed ==
    ASSUME NEW early, NEW refusals, NEW ok, NEW answers,
           early \cup refusals \cup {ok, 500} \subseteq answers
    PROVE  Lists(Locks(early, refusals, ok), answers)
  BY DEF Lists, Locks, After

\* The handlers against the annotations, route by route.
LEMMA ApiCodesAreListed ==
    ASSUME Endpoints = ApiEndpoints, Route = ApiRoute, Handler = ApiHandler
    PROVE  CodesAreListed
<1>1. Lists(loginUser, PostLogin.answers)
  BY ReadsListed DEF loginUser, PostLogin, Public, Members, Only
<1>2. Lists(listProviders, GetProviders.answers)
  BY ReadsListed DEF listProviders, GetProviders, Public, Members, Only
<1>3. Lists(listAvailabilities, GetAvailabilities.answers)
  BY ReadsListed DEF listAvailabilities, GetAvailabilities, Public, Members, Only
<1>4. Lists(getAvailability, GetAvailability.answers)
  BY ReadsListed DEF getAvailability, GetAvailability, Public, Members, Only
<1>5. Lists(getBooking, GetBooking.answers)
  BY ReadsListed DEF getBooking, GetBooking, Public, Members, Only
<1>6. Lists(listBookings, GetBookings.answers)
  BY ReadsListed DEF listBookings, GetBookings, Public, Members, Only
<1>7. Lists(publicList, GetPublicList.answers)
  BY ReadsListed DEF publicList, GetPublicList, Public, Members, Only
<1>8. Lists(publicSlot, GetPublicSlot.answers)
  BY ReadsListed DEF publicSlot, GetPublicSlot, Public, Members, Only
<1>9. Lists(createAvailability, PostAvailability.answers)
  BY InsertsListed DEF createAvailability, PostAvailability, Public, Members, Only
<1>10. Lists(createInvitation, PostInvitation.answers)
  BY InsertsListed DEF createInvitation, PostInvitation, Public, Members, Only
<1>11. Lists(registerTenantAdmin, PostOnboard.answers)
  BY InsertsListed DEF registerTenantAdmin, PostOnboard, Public, Members, Only
<1>12. Lists(updateAvailability, PutAvailability.answers)
  BY LocksListed DEF updateAvailability, PutAvailability, Public, Members, Only
<1>13. Lists(deleteAvailability, DeleteAvailability.answers)
  BY LocksListed DEF deleteAvailability, DeleteAvailability, Public, Members, Only
<1>14. Lists(createBooking, PostBooking.answers)
  BY LocksListed DEF createBooking, PostBooking, Public, Members, Only
<1>15. Lists(createCheckoutSession, PostCheckout.answers)
  BY LocksListed DEF createCheckoutSession, PostCheckout, Public, Members, Only
<1>16. Lists(updateBookingStatus, PatchStatus.answers)
  BY LocksListed DEF updateBookingStatus, PatchStatus, Public, Members, Only
<1>17. Lists(acceptInvitation, PostAccept.answers)
  BY LocksListed DEF acceptInvitation, PostAccept, Public, Members, Only
<1>18. Lists(registerInvited, PostOnboard.answers)
  BY LocksListed DEF registerInvited, PostOnboard, Public, Members, Only
<1>19. Lists(handleStripeWebhook, PostStripe.answers)
  BY LocksListed DEF handleStripeWebhook, PostStripe, Public, Members, Only
<1>20. \A e \in ApiEndpoints : Lists(ApiHandler[e], ApiRoute[e].answers)
  BY <1>1, <1>2, <1>3, <1>4, <1>5, <1>6, <1>7, <1>8, <1>9, <1>10,
     <1>11, <1>12, <1>13, <1>14, <1>15, <1>16, <1>17, <1>18, <1>19
     DEF ApiEndpoints, ApiHandler, ApiRoute
<1> QED
  BY <1>20 DEF CodesAreListed, Lists

\* With the routes and handlers of the backend, whatever requests, clients and callers:
\* what a handler answers is in the OpenAPI annotation of its route.
THEOREM HandlersKeepTheContract ==
    ASSUME Endpoints = ApiEndpoints, Route = ApiRoute, Handler = ApiHandler
    PROVE  Spec => AnswersAreDocumented
<1>1. GatewayInv /\ [Next]_gateVars =>
         [\A r \in Requests :
             stage[r] # "idle" /\ stage'[r] = "idle" /\ answer'[r].by = "handler" =>
                answer'[r].code \in RouteOf(r).answers]_gateVars
  BY ApiCodesAreListed, NextListed DEF Listed
<1>2. HandlersCleanUp
  BY ApiHandlersCleanUp
<1>3. Spec => []GatewayInv
  BY <1>2, Inductive
<1> QED
  BY <1>1, <1>3, PTL DEF Spec, AnswersAreDocumented

=============================================================================
