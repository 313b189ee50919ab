------------------------------- MODULE Requests -------------------------------
(***************************************************************************)
(* Serving HTTP requests: the middleware and the error handler of          *)
(* app/main.py, the dependencies of app/dependencies.py, the routes of     *)
(* app/api, the two health checks of src/main.py, and the connection pool  *)
(* of database.py below them.  A process serves one of the two planes.     *)
(* FastAPI, Starlette, uvicorn and the pool are libraries: a request       *)
(* passes log_requests, then CORS, then routing, its dependencies and its  *)
(* handler; an HTTPException becomes a response inside log_requests, any   *)
(* other exception only outside of it.  Whether a request parses and       *)
(* validates is left open.                                                 *)
(***************************************************************************)
EXTENDS Integers, Sequences, FiniteSets

CONSTANTS Clients,    \* connections of the server, one request at a time each
          Capacities, \* pool_size + max_overflow; Cardinality(Clients) stands for NullPool
          RoutesInUse \* the routes that are asked for

\* What the handlers answer: most are stubs.
TaskRoutes == [create_task |-> 201, list_tasks |-> 200, get_task |-> 404, cancel_task |-> 204]
AgentRoutes == [heartbeat |-> 200, list_agents |-> 200]
RunRoutes == [list_runs |-> 200, get_run |-> 404]
ReviewRoutes == [list_pending |-> 200, decide |-> 404]
UserRoutes == UNION {DOMAIN TaskRoutes, DOMAIN AgentRoutes, DOMAIN RunRoutes, DOMAIN ReviewRoutes}
Answer(route) == CASE route \in DOMAIN TaskRoutes -> TaskRoutes[route]
                   [] route \in DOMAIN AgentRoutes -> AgentRoutes[route]
                   [] route \in DOMAIN RunRoutes -> RunRoutes[route]
                   [] OTHER -> ReviewRoutes[route]

\* Routes with a JSON body, and those with nothing to validate after it.
TakesBody == {"create_task", "heartbeat", "decide"}
TakesNothing == {"list_agents"}
Routes(plane) == {"unmatched", "health_check"} \cup
                 IF plane = "app" THEN UserRoutes ELSE {"database_health"}
ASSUME RoutesAssumption == RoutesInUse \subseteq Routes("app") \cup Routes("src")
ASSUME CapacitiesAssumption == Capacities \subseteq Nat \ {0}

VARIABLES plane,     \* which application the process serves
          bypass,    \* getattr(settings, "dev_bypass_auth", False)
          capacity,
          phase,     \* of the process: "serving", "stopping" or "disposed"
          seeded,    \* dev@local is in the users table
          pc, route, \* of each request
          status,    \* of its response; 0 before there is one
          sessions,  \* the requests with a session of get_db_session
          connected, \* the requests that hold a connection of the pool
          lines,     \* what log_requests logged about each
          sighted    \* history: dev@local was in the table while the request ran
process == <<plane, bypass, capacity>>
request == <<pc, route, status, sessions, connected, lines, sighted>>
vars == <<process, phase, seeded, request>>

Active == {c \in Clients : pc[c] # "idle"}
Step(c, from, to) == pc[c] = from /\ pc' = [pc EXCEPT ![c] = to]
RequestLine == [event |-> "http.request", status |-> 0]
ResponseLine(code) == [event |-> "http.response", status |-> code]
Respond(c, code) == status' = [status EXCEPT ![c] = code]

-------------------------------------------------------------------------------
\* Settings has no field dev_bypass_auth and ignores what else the environment
\* sets, so bypass is false of it; get_current_user has both branches.
Init == /\ plane \in {"app", "src"} /\ bypass \in BOOLEAN /\ capacity \in Capacities
        /\ phase = "serving" /\ seeded \in BOOLEAN
        /\ pc = [c \in Clients |-> "idle"] /\ route = [c \in Clients |-> "unmatched"]
        /\ status = [c \in Clients |-> 0] /\ lines = [c \in Clients |-> << >>]
        /\ sessions = {} /\ connected = {} /\ sighted = [c \in Clients |-> FALSE]

\* log_requests up to call_next.
Receive(c, path) ==
    /\ phase = "serving" /\ Step(c, "idle", "received")
    /\ route' = [route EXCEPT ![c] = path] /\ Respond(c, 0)
    /\ lines' = [lines EXCEPT ![c] = IF plane = "app" THEN <<RequestLine>> ELSE << >>]
    /\ sighted' = [sighted EXCEPT ![c] = seeded]
    /\ UNCHANGED <<process, phase, seeded, sessions, connected>>

\* No route, or a body that is not JSON: neither gets as far as the dependencies.
RefuseEarly(c) ==
    /\ Step(c, "received", "refused")
    /\ \/ route[c] = "unmatched" /\ (Respond(c, 404) \/ Respond(c, 405))
       \/ route[c] \in TakesBody /\ Respond(c, 422)
    /\ UNCHANGED <<process, phase, seeded, route, sessions, connected, lines, sighted>>

health_check(c) ==
    /\ route[c] = "health_check" /\ Step(c, "received", "ready") /\ Respond(c, 200)
    /\ UNCHANGED <<process, phase, seeded, route, sessions, connected, lines, sighted>>

\* The dependency is cached: the handler and get_current_user share one session,
\* which takes no connection before it is used.
get_db_session(c) ==
    /\ route[c] \in UserRoutes /\ Step(c, "received", "resolving")
    /\ sessions' = sessions \cup {c}
    /\ UNCHANGED <<process, phase, seeded, route, status, connected, lines, sighted>>

\* Mutation: without the setting any token will do.
AcceptAnyToken(c) ==
    /\ Step(c, "resolving", IF bypass THEN "waiting" ELSE "handling")
    /\ UNCHANGED <<process, phase, seeded, route, status, sessions, connected, lines, sighted>>

\* get_current_user up to its query: every token is refused.
get_current_user(c) ==
    /\ pc[c] = "resolving"
    /\ IF bypass THEN Step(c, "resolving", "waiting") /\ UNCHANGED status
       ELSE Step(c, "resolving", "refused") /\ Respond(c, 401)
    /\ UNCHANGED <<process, phase, seeded, route, sessions, connected, lines, sighted>>

database_health(c) ==
    /\ route[c] = "database_health" /\ Step(c, "received", "waiting")
    /\ UNCHANGED <<process, phase, seeded, route, status, sessions, connected, lines, sighted>>

-------------------------------------------------------------------------------
(* The pool.                                                               *)
\* A place in the pool; making the connection, or the ping of pool_pre_ping, is
\* part of the query.
Connect(c) == /\ Step(c, "waiting", "querying") /\ Cardinality(connected) < capacity
              /\ connected' = connected \cup {c}
              /\ UNCHANGED <<process, phase, seeded, route, status, sessions, lines, sighted>>

\* Mutation: pool_timeout=None.
PoolWaits(c) == FALSE

\* After pool_timeout seconds the wait is a TimeoutError.
PoolTimeout(c) ==
    /\ Step(c, "waiting", "raised") /\ Cardinality(connected) >= capacity
    /\ UNCHANGED <<process, phase, seeded, route, status, sessions, connected, lines, sighted>>

\* The database cannot be reached, or the query fails; the block around a connection
\* of database_health gives it back, a session keeps one that was made until it closes.
DatabaseError(c) ==
    /\ Step(c, "querying", "raised")
    /\ connected' \in {connected, connected \ {c}} /\ (c \notin sessions => c \notin connected')
    /\ UNCHANGED <<process, phase, seeded, route, status, sessions, lines, sighted>>

SelectOne(c) ==
    /\ c \notin sessions /\ Step(c, "querying", "ready") /\ Respond(c, 200)
    /\ connected' = connected \ {c}
    /\ UNCHANGED <<process, phase, seeded, route, sessions, lines, sighted>>

SelectUser(c) ==
    /\ c \in sessions /\ pc[c] = "querying"
    /\ IF seeded THEN Step(c, "querying", "handling") /\ UNCHANGED status
       ELSE Step(c, "querying", "refused") /\ Respond(c, 401)
    /\ UNCHANGED <<process, phase, seeded, route, sessions, connected, lines, sighted>>

-------------------------------------------------------------------------------
(* Handlers and responses.                                                 *)
RefuseInvalid(c) ==
    /\ route[c] \notin TakesNothing /\ Step(c, "handling", "refused") /\ Respond(c, 422)
    /\ UNCHANGED <<process, phase, seeded, route, sessions, connected, lines, sighted>>

Handle(c) ==
    /\ pc[c] = "handling" /\ Respond(c, Answer(route[c]))
    /\ Step(c, "handling", IF Answer(route[c]) = 404 THEN "refused" ELSE "ready")
    /\ UNCHANGED <<process, phase, seeded, route, sessions, connected, lines, sighted>>

\* Mutation: the session is closed and its connection is not given back.
CloseKeepsConnection(c) ==
    /\ c \in sessions /\ pc[c] \in {"refused", "raised", "ready", "sent"}
    /\ sessions' = sessions \ {c}
    /\ UNCHANGED <<process, phase, seeded, pc, route, status, connected, lines, sighted>>

\* "async with" of get_db_session: an exception closes the session on its way
\* out; after a handler has returned, older versions of FastAPI close it before
\* the response is sent and newer ones after.
Close(c) ==
    /\ c \in sessions /\ pc[c] \in {"refused", "raised", "ready", "sent"}
    /\ sessions' = sessions \ {c} /\ connected' = connected \ {c}
    /\ UNCHANGED <<process, phase, seeded, pc, route, status, lines, sighted>>

\* log_requests after call_next.
Send(c) ==
    /\ \/ Step(c, "ready", "sent")
       \/ c \notin sessions /\ Step(c, "refused", "sent")
    /\ lines' = IF plane = "app" THEN [lines EXCEPT ![c] = Append(@, ResponseLine(status[c]))] ELSE lines
    /\ UNCHANGED <<process, phase, seeded, route, status, sessions, connected, sighted>>

\* Mutation: the handler runs inside log_requests.
unhandled_exception_logged(c) ==
    /\ c \notin sessions /\ Step(c, "raised", "sent") /\ Respond(c, 500)
    /\ lines' = IF plane = "app" THEN [lines EXCEPT ![c] = Append(@, ResponseLine(500))] ELSE lines
    /\ UNCHANGED <<process, phase, seeded, route, sessions, connected, sighted>>

\* call_next raises, so log_requests does not go on; the handler answers outside.
unhandled_exception_handler(c) ==
    /\ c \notin sessions /\ Step(c, "raised", "sent") /\ Respond(c, 500)
    /\ UNCHANGED <<process, phase, seeded, route, sessions, connected, lines, sighted>>

Finish(c) ==
    /\ c \notin sessions /\ Step(c, "sent", "idle")
    /\ UNCHANGED <<process, phase, seeded, route, status, sessions, connected, lines, sighted>>

\* What the process does of a request by itself, what takes an answer of the
\* database, and what takes one if there is a connection to be given back, which
\* is rolled back first, by some versions before the response is sent.
Serve(c) == \/ RefuseEarly(c) \/ health_check(c) \/ get_db_session(c) \/ get_current_user(c)
            \/ database_health(c) \/ Connect(c) \/ PoolTimeout(c) \/ RefuseInvalid(c)
            \/ Handle(c) \/ unhandled_exception_handler(c) \/ Finish(c)
Query(c) == SelectOne(c) \/ SelectUser(c) \/ DatabaseError(c)
Release(c) == Close(c) \/ Send(c)

-------------------------------------------------------------------------------
(* The process and its surroundings.                                       *)
\* A seed run adds dev@local, an administrator may delete it.
ChangeUsers == /\ seeded' = ~seeded
               /\ sighted' = [c \in Clients |-> sighted[c] \/ (c \in Active /\ seeded')]
               /\ UNCHANGED <<process, phase, pc, route, status, sessions, connected, lines>>

\* The server lets the requests under way finish, then ends the lifespan.
Stop == /\ phase = "serving" /\ phase' = "stopping"
        /\ UNCHANGED <<process, seeded, request>>
dispose == /\ phase = "stopping" /\ Active = {} /\ phase' = "disposed"
           /\ UNCHANGED <<process, seeded, request>>

Next == \/ \E c \in Clients : \/ \E path \in RoutesInUse \cap Routes(plane) : Receive(c, path)
                              \/ Serve(c) \/ Query(c) \/ Release(c)
        \/ ChangeUsers \/ Stop \/ dispose
Spec == Init /\ [][Next]_vars

\* No timeout is set for statements: that the database answers is not assumed.
FairSpec == Spec /\ \A c \in Clients : WF_vars(Serve(c) \/ (c \notin connected /\ Release(c)))

-------------------------------------------------------------------------------
Line == [event : {"http.request", "http.response"}, status : Nat]
Places == {"idle", "received", "resolving", "waiting", "querying",
           "handling", "ready", "refused", "raised", "sent"}
Codes == {200, 201, 204, 401, 404, 405, 422, 500}
TypeOK == /\ plane \in {"app", "src"} /\ bypass \in BOOLEAN /\ capacity \in Capacities
          /\ phase \in {"serving", "stopping", "disposed"} /\ seeded \in BOOLEAN
          /\ pc \in [Clients -> Places]
          /\ route \in [Clients -> Routes("app") \cup Routes("src")]
          /\ status \in [Clients -> Codes \cup {0}]
          /\ sessions \subseteq Clients /\ connected \subseteq Clients
          /\ lines \in [Clients -> Seq(Line)]
          /\ sighted \in [Clients -> BOOLEAN]

\* dependencies.py:17-20, database.py:24-39.  On every way out of a request its
\* session and its connection are given back, nobody who waits for a connection
\* holds one, and the engine is disposed with all of them in the pool.
ConnectionsReturned ==
    /\ Cardinality(connected) <= capacity
    /\ connected \cup sessions \subseteq Active
    /\ \A c \in connected : pc[c] \notin {"received", "resolving", "waiting"}
    /\ phase = "disposed" => connected = {}

\* main.py:76-101.  Every request leaves one "http.request" line and every answer
\* one "http.response" line with its status, except the answers to unhandled
\* exceptions, which leave none.
LinesMatchAnswers ==
    plane = "app" => \A c \in Clients : pc[c] = "sent" =>
        lines[c] = IF status[c] = 500 THEN <<RequestLine>> ELSE <<RequestLine, ResponseLine(status[c])>>

\* dependencies.py:23-57.  A request that a handler of the API answers belongs to
\* a user who was in the table while it ran, though not necessarily at the end.
OnlyUsersServed ==
    \A c \in Clients :
        (route[c] \in UserRoutes /\ status[c] \in {200, 201, 204, 404}) => bypass /\ sighted[c]

\* database.py:24-39, main.py:94-101.  A database that says nothing keeps only those
\* waiting who hold a connection: every other request is answered, also when these
\* hold all connections of the pool, when a query fails, and when the process stops.
AtDatabase(c) == c \in connected /\ pc[c] # "handling"
Answered == \A c \in Clients : pc[c] = "received" ~> (pc[c] = "sent" \/ []AtDatabase(c))
===============================================================================
