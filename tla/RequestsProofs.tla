---------------------------- MODULE RequestsProofs ----------------------------
(***************************************************************************)
(* Serving requests, for any number of connections of the server and of    *)
(* the pool: what a request holds it gives back, the log lines tell which  *)
(* answer was given, and nobody is served who was not in the users table.  *)
(***************************************************************************)
EXTENDS Requests, FiniteSetTheorems, SequenceTheorems, TLAPS

\* What log_requests has written when the handler runs.
Begun(c) == lines[c] = IF plane = "app" THEN <<RequestLine>> ELSE << >>
Ended(c) == plane = "app" =>
    lines[c] = IF status[c] = 500 THEN <<RequestLine>> ELSE <<RequestLine, ResponseLine(status[c])>>

\* How far a request is, and what it holds, has written and knows there.
Logging(c) == IF pc[c] = "sent" THEN Ended(c) ELSE pc[c] # "idle" => Begun(c)
Answering(c) ==
    /\ pc[c] \in {"received", "resolving", "waiting", "querying", "handling", "raised"} => status[c] = 0
    /\ pc[c] = "ready" => status[c] \in {200, 201, 204}
    /\ pc[c] = "refused" => status[c] \in {401, 404, 405, 422}
Holding(c) ==
    /\ pc[c] \in {"idle", "received"} => c \notin sessions
    /\ pc[c] \in {"resolving", "handling"} => c \in sessions
    /\ pc[c] \in {"idle", "received", "resolving", "waiting"} => c \notin connected
    /\ (c \in connected /\ pc[c] # "querying") => c \in sessions
Entitled(c) ==
    /\ c \in sessions => route[c] \in UserRoutes
    /\ (pc[c] \in {"waiting", "querying"} /\ c \notin sessions) => route[c] = "database_health"
    /\ (pc[c] \in {"waiting", "querying"} /\ c \in sessions) => bypass
    /\ pc[c] = "handling" => bypass /\ sighted[c]
    /\ (pc[c] # "idle" /\ seeded) => sighted[c]
    /\ (route[c] \in UserRoutes /\ status[c] \in {200, 201, 204, 404}) => bypass /\ sighted[c]
Course(c) == Logging(c) /\ Answering(c) /\ Holding(c) /\ Entitled(c)

PoolBounded == IsFiniteSet(connected) /\ Cardinality(connected) <= capacity
IInv == /\ TypeOK /\ PoolBounded
        /\ \A c \in Clients : Course(c)
        /\ phase = "disposed" => Active = {}

-------------------------------------------------------------------------------
\* The routes behind get_current_user, apart from the others, and what they say.
LEMMA RouteFacts ==
    /\ UserRoutes \subseteq Routes("app")
    /\ {"unmatched", "health_check", "database_health"} \cap UserRoutes = {}
    /\ {"unmatched", "health_check", "database_health"} \subseteq Routes("app") \cup Routes("src")
  BY DEF UserRoutes, Routes, TaskRoutes, AgentRoutes, RunRoutes, ReviewRoutes

LEMMA StubAnswers == \A r \in UserRoutes : Answer(r) \in {200, 201, 204, 404}
  BY DEF UserRoutes, Answer, TaskRoutes, AgentRoutes, RunRoutes, ReviewRoutes

\* A step of one request leaves the course of every other one as it is.
LEMMA OthersKeep ==
    ASSUME NEW q \in Clients, Course(q),
           UNCHANGED <<plane, bypass, seeded, pc[q], route[q], status[q], lines[q], sighted[q]>>,
           (q \in sessions)' <=> (q \in sessions), (q \in connected)' <=> (q \in connected)
    PROVE  Course(q)'
  BY DEF Course, Logging, Begun, Ended, Answering, Holding, Entitled

-------------------------------------------------------------------------------
LEMMA InitInv == Init => IInv
  <1> SUFFICES ASSUME Init PROVE IInv
    OBVIOUS
  <1>1. TypeOK
    <2>1. << >> \in Seq(Line)
      OBVIOUS
    <2>2. /\ pc \in [Clients -> Places] /\ status \in [Clients -> Codes \cup {0}]
          /\ route \in [Clients -> Routes("app") \cup Routes("src")]
          /\ lines \in [Clients -> Seq(Line)] /\ sighted \in [Clients -> BOOLEAN]
      BY <2>1, RouteFacts DEF Init, Places
    <2> QED
      BY <2>2 DEF Init, TypeOK
  <1>2. PoolBounded
    BY FS_EmptySet, CapacitiesAssumption DEF Init, PoolBounded
  <1>3. \A c \in Clients : Course(c)
    BY RouteFacts DEF Init, Course, Logging, Answering, Holding, Entitled
  <1> QED
    BY <1>1, <1>2, <1>3 DEF Init, IInv

LEMMA LineTypes == RequestLine \in Line /\ \A n \in Nat : ResponseLine(n) \in Line
  BY DEF RequestLine, ResponseLine, Line

LEMMA AppendsOne ==
    ASSUME NEW x \in Line, NEW y \in Line PROVE Append(<<x>>, y) = <<x, y>>
  <1>1. <<x>> \in Seq(Line) /\ Len(<<x>>) = 1 /\ <<x>>[1] = x
    OBVIOUS
  <1>2. /\ Append(<<x>>, y) \in Seq(Line) /\ Len(Append(<<x>>, y)) = 2
        /\ Append(<<x>>, y)[1] = x /\ Append(<<x>>, y)[2] = y
    BY <1>1, AppendProperties
  <1>3. /\ <<x, y>> \in Seq(Line) /\ Len(<<x, y>>) = 2
        /\ <<x, y>>[1] = x /\ <<x, y>>[2] = y
    OBVIOUS
  <1>4. \A i \in 1..2 : Append(<<x>>, y)[i] = <<x, y>>[i]
    BY <1>2, <1>3
  <1> QED
    BY <1>2, <1>3, <1>4, SeqEqual

LEMMA ReceiveType ==
    ASSUME TypeOK, NEW c \in Clients, NEW path \in RoutesInUse \cap Routes(plane), Receive(c, path)
    PROVE  TypeOK'
  <1>1. path \in Routes("app") \cup Routes("src")
    BY RoutesAssumption
  <1>2. <<RequestLine>> \in Seq(Line) /\ << >> \in Seq(Line)
    BY LineTypes
  <1>3. lines' \in [Clients -> Seq(Line)]
    BY <1>2 DEF TypeOK, Receive
  <1>4. pc' \in [Clients -> Places] /\ status' \in [Clients -> Codes \cup {0}]
    BY DEF TypeOK, Receive, Step, Respond, Places
  <1>5. route' \in [Clients -> Routes("app") \cup Routes("src")] /\ sighted' \in [Clients -> BOOLEAN]
    BY <1>1 DEF TypeOK, Receive
  <1> QED
    BY <1>3, <1>4, <1>5 DEF TypeOK, Receive, process

\* A step of a request, whoever takes it.
Advances(c) == Serve(c) \/ Query(c) \/ Release(c)

\* What a step of one request leaves alone.
Alone(c) ==
    /\ UNCHANGED <<plane, bypass, capacity, phase, seeded>>
    /\ \A q \in Clients \ {c} :
          /\ UNCHANGED <<pc[q], route[q], status[q], lines[q], sighted[q]>>
          /\ (q \in sessions)' <=> (q \in sessions)
          /\ (q \in connected)' <=> (q \in connected)

LEMMA ServeAlone ==
    ASSUME TypeOK, NEW c \in Clients, Advances(c)
    PROVE  Alone(c)
  <1>1. pc \in [Clients -> Places]
    BY DEF TypeOK
  <1>2. DOMAIN pc = Clients /\ DOMAIN route = Clients /\ DOMAIN status = Clients
        /\ DOMAIN lines = Clients /\ DOMAIN sighted = Clients
    BY DEF TypeOK
  <1> USE DEF Step, Respond, process, Alone
  <1>3. CASE Serve(c)
    BY <1>1, <1>2, <1>3 DEF Serve, RefuseEarly, health_check, get_db_session, get_current_user,
       database_health, Connect, PoolTimeout, RefuseInvalid, Handle, unhandled_exception_handler, Finish
  <1>4. CASE Query(c)
    BY <1>1, <1>2, <1>4 DEF Query, SelectOne, SelectUser, DatabaseError
  <1>5. CASE Release(c)
    BY <1>1, <1>2, <1>5 DEF Release, Close, Send
  <1> QED
    BY <1>3, <1>4, <1>5 DEF Advances

\* A step writes the place of its request, and a code or a line if it has one.
Written(c) ==
    /\ \E place \in Places : pc' = [pc EXCEPT ![c] = place]
    /\ status' = status \/ \E code \in Codes : status' = [status EXCEPT ![c] = code]
    /\ \/ lines' = lines
       \/ lines' = [lines EXCEPT ![c] = Append(@, ResponseLine(status[c]))]
    /\ sessions' \subseteq Clients /\ connected' \subseteq Clients
    /\ UNCHANGED <<process, phase, seeded, route, sighted>>

LEMMA ServeWrites ==
    ASSUME TypeOK, NEW c \in Clients, Course(c), Advances(c)
    PROVE  Written(c)
  <1>1. /\ sessions \subseteq Clients /\ connected \subseteq Clients
        /\ pc \in [Clients -> Places] /\ pc = [pc EXCEPT ![c] = pc[c]]
    BY DEF TypeOK
  <1>2. CASE Handle(c)
    <2>1. Answer(route[c]) \in Codes
      BY <1>2, StubAnswers DEF Handle, Step, Course, Holding, Entitled, Codes
    <2>2. status' = [status EXCEPT ![c] = Answer(route[c])]
      BY <1>2 DEF Handle, Respond
    <2>3. \E place \in Places : pc' = [pc EXCEPT ![c] = place]
      BY <1>2 DEF Handle, Step, Places
    <2>4. UNCHANGED <<process, phase, seeded, route, sessions, connected, lines, sighted>>
      BY <1>2 DEF Handle
    <2> QED
      BY <1>1, <2>1, <2>2, <2>3, <2>4 DEF Written
  <1> USE <1>1 DEF Step, Respond, Written, Places, Codes
  <1>3. CASE RefuseEarly(c)
    BY <1>3 DEF RefuseEarly
  <1>4. CASE health_check(c)
    BY <1>4 DEF health_check
  <1>5. CASE get_db_session(c)
    BY <1>5 DEF get_db_session
  <1>6. CASE get_current_user(c)
    BY <1>6 DEF get_current_user
  <1>7. CASE database_health(c)
    BY <1>7 DEF database_health
  <1>8. CASE Connect(c)
    BY <1>8 DEF Connect
  <1>9. CASE PoolTimeout(c)
    BY <1>9 DEF PoolTimeout
  <1>10. CASE DatabaseError(c)
    BY <1>10 DEF DatabaseError
  <1>11. CASE SelectOne(c)
    BY <1>11 DEF SelectOne
  <1>12. CASE SelectUser(c)
    BY <1>12 DEF SelectUser
  <1>13. CASE RefuseInvalid(c)
    BY <1>13 DEF RefuseInvalid
  <1>14. CASE Close(c)
    BY <1>14 DEF Close
  <1>15. CASE Send(c)
    BY <1>15 DEF Send
  <1>16. CASE unhandled_exception_handler(c)
    BY <1>16 DEF unhandled_exception_handler
  <1>17. CASE Finish(c)
    BY <1>17 DEF Finish
  <1> QED
    BY <1>3, <1>4, <1>5, <1>6, <1>7, <1>8, <1>9, <1>10,
       <1>11, <1>12, <1>13, <1>2, <1>14, <1>15, <1>16, <1>17 DEF Advances, Serve, Query, Release

LEMMA ServeType ==
    ASSUME TypeOK, NEW c \in Clients, Written(c) PROVE TypeOK'
  <1>1. pc' \in [Clients -> Places]
    BY DEF TypeOK, Written
  <1>2. status' \in [Clients -> Codes \cup {0}]
    BY DEF TypeOK, Written
  <1>3. lines' \in [Clients -> Seq(Line)]
    <2>1. lines \in [Clients -> Seq(Line)] /\ status[c] \in Codes \cup {0}
      BY DEF TypeOK
    <2>2. ResponseLine(status[c]) \in Line
      BY <2>1, LineTypes DEF Codes
    <2>3. Append(lines[c], ResponseLine(status[c])) \in Seq(Line)
      BY <2>1, <2>2, AppendProperties
    <2>4. CASE lines' = lines
      BY <2>1, <2>4
    <2>5. CASE lines' = [lines EXCEPT ![c] = Append(@, ResponseLine(status[c]))]
      BY <2>1, <2>3, <2>5
    <2> QED
      BY <2>4, <2>5 DEF Written
  <1> QED
    BY <1>1, <1>2, <1>3 DEF TypeOK, Written, process

\* What a request holds and has written, after each of its steps.
LEMMA ServeCourse ==
    ASSUME TypeOK, NEW c \in Clients, Course(c), Advances(c)
    PROVE  Course(c)'
  <1>1. /\ DOMAIN pc = Clients /\ DOMAIN route = Clients /\ DOMAIN status = Clients
        /\ DOMAIN lines = Clients /\ DOMAIN sighted = Clients
    BY DEF TypeOK
  <1>2. /\ sessions \subseteq Clients /\ connected \subseteq Clients
    BY DEF TypeOK
  <1> USE RouteFacts DEF Course, Logging, Begun, Answering, Holding, Entitled, Step, Respond, process
  <1>3. CASE RefuseEarly(c)
    BY <1>1, <1>2, <1>3 DEF RefuseEarly
  <1>4. CASE health_check(c)
    BY <1>1, <1>2, <1>4 DEF health_check
  <1>5. CASE get_db_session(c)
    BY <1>1, <1>2, <1>5 DEF get_db_session
  <1>6. CASE get_current_user(c)
    BY <1>1, <1>2, <1>6 DEF get_current_user
  <1>7. CASE database_health(c)
    BY <1>1, <1>2, <1>7 DEF database_health
  <1>8. CASE Connect(c)
    BY <1>1, <1>2, <1>8 DEF Connect
  <1>9. CASE PoolTimeout(c)
    BY <1>1, <1>2, <1>9 DEF PoolTimeout
  <1>10. CASE DatabaseError(c)
    BY <1>1, <1>2, <1>10 DEF DatabaseError
  <1>11. CASE SelectOne(c)
    BY <1>1, <1>2, <1>11 DEF SelectOne
  <1>12. CASE SelectUser(c)
    BY <1>1, <1>2, <1>12 DEF SelectUser
  <1>13. CASE RefuseInvalid(c)
    BY <1>1, <1>2, <1>13 DEF RefuseInvalid
  <1>14. CASE Handle(c)
    BY <1>1, <1>2, <1>14, StubAnswers DEF Handle
  <1>15. CASE Close(c)
    BY <1>1, <1>2, <1>15 DEF Close, Ended
  <1>16. CASE Send(c)
    <2>1. plane = "app" => lines'[c] = <<RequestLine, ResponseLine(status[c])>>
      <3>1. RequestLine \in Line /\ ResponseLine(status[c]) \in Line
        BY LineTypes DEF TypeOK, Codes
      <3>2. plane = "app" => lines'[c] = Append(<<RequestLine>>, ResponseLine(status[c]))
        BY <1>1, <1>16 DEF Send
      <3> QED
        BY <3>1, <3>2, AppendsOne
    <2>2. status'[c] = status[c] /\ status[c] # 500 /\ plane' = plane
      BY <1>1, <1>16 DEF Send
    <2>3. Logging(c)'
      BY <1>1, <1>16, <2>1, <2>2 DEF Send, Ended
    <2> QED
      BY <1>1, <1>2, <1>16, <2>3 DEF Send
  <1>17. CASE unhandled_exception_handler(c)
    BY <1>1, <1>2, <1>17 DEF unhandled_exception_handler, Ended
  <1>18. CASE Finish(c)
    BY <1>1, <1>2, <1>18 DEF Finish, Ended
  <1> QED
    BY <1>3, <1>4, <1>5, <1>6, <1>7, <1>8, <1>9, <1>10, <1>11, <1>12, <1>13, <1>14, <1>15, <1>16, <1>17, <1>18
    DEF Advances, Serve, Query, Release

-------------------------------------------------------------------------------
\* The steps before the middleware has run and around the requests.
LEMMA ReceiveCourse ==
    ASSUME TypeOK, NEW c \in Clients, Course(c), NEW path \in RoutesInUse, Receive(c, path)
    PROVE  Course(c)' /\ Alone(c)
  <1>1. /\ DOMAIN pc = Clients /\ DOMAIN route = Clients /\ DOMAIN status = Clients
        /\ DOMAIN lines = Clients /\ DOMAIN sighted = Clients
    BY DEF TypeOK
  <1> USE DEF Receive, Step, Respond, process
  <1>2. Course(c)'
    BY <1>1 DEF Course, Logging, Begun, Answering, Holding, Entitled
  <1> QED
    BY <1>1, <1>2 DEF Alone

LEMMA UsersCourse ==
    ASSUME TypeOK, NEW c \in Clients, Course(c), ChangeUsers PROVE Course(c)'
  <1>1. sighted'[c] <=> (sighted[c] \/ (pc[c] # "idle" /\ seeded'))
    BY DEF ChangeUsers, Active, TypeOK
  <1>2. sighted[c] \in BOOLEAN
    BY DEF TypeOK
  <1>3. UNCHANGED <<plane, bypass, pc, route, status, lines, sessions, connected>>
    BY DEF ChangeUsers, process
  <1> QED
    BY <1>1, <1>3 DEF Course, Logging, Begun, Ended, Answering, Holding, Entitled

\* A connection is taken while there is one left, and otherwise only given back.
LEMMA ConnectionTaken ==
    ASSUME TypeOK, PoolBounded, NEW c \in Clients, Advances(c)
    PROVE  PoolBounded'
  <1>1. capacity \in Nat /\ capacity' = capacity
    BY CapacitiesAssumption, ServeAlone DEF TypeOK, Alone
  <1>2. Cardinality(connected) \in Nat
    BY FS_CardinalityType DEF PoolBounded
  <1>3. \/ connected' \subseteq connected
        \/ Cardinality(connected) < capacity /\ connected' = connected \cup {c}
    BY DEF Advances, Serve, Query, Release, RefuseEarly, health_check,
         get_db_session, get_current_user, database_health, Connect,
       PoolTimeout, SelectOne, SelectUser, RefuseInvalid, Handle, Close, Send,
       unhandled_exception_handler, Finish, DatabaseError
  <1>4. CASE connected' \subseteq connected
    <2>1. IsFiniteSet(connected') /\ Cardinality(connected') <= Cardinality(connected)
      BY <1>4, FS_Subset DEF PoolBounded
    <2>2. Cardinality(connected') \in Nat
      BY <2>1, FS_CardinalityType
    <2> QED
      BY <1>1, <1>2, <2>1, <2>2 DEF PoolBounded
  <1>5. CASE Cardinality(connected) < capacity /\ connected' = connected \cup {c}
    <2>1. /\ IsFiniteSet(connected')
          /\ Cardinality(connected') = IF c \in connected THEN Cardinality(connected)
                                       ELSE Cardinality(connected) + 1
      BY <1>5, FS_AddElement DEF PoolBounded
    <2> QED
      BY <1>1, <1>2, <1>5, <2>1 DEF PoolBounded
  <1> QED
    BY <1>3, <1>4, <1>5

LEMMA StepInv == IInv /\ [Next]_vars => IInv'
  <1> SUFFICES ASSUME IInv, [Next]_vars PROVE IInv'
    OBVIOUS
  <1>1. ASSUME NEW c \in Clients, Advances(c) PROVE IInv'
    <2>1. Alone(c) /\ Course(c)' /\ PoolBounded' /\ TypeOK'
      BY <1>1, ServeAlone, ServeCourse, ServeWrites, ServeType, ConnectionTaken DEF IInv
    <2>2. \A q \in Clients : Course(q)'
      BY <2>1, OthersKeep DEF IInv, Alone
    <2>3. pc[c] # "idle"
      BY <1>1 DEF Advances, Serve, Query, Release, RefuseEarly, health_check,
         get_db_session, get_current_user, database_health, Connect,
         PoolTimeout, SelectOne, SelectUser, RefuseInvalid, Handle, Close, Send,
         unhandled_exception_handler, Finish, DatabaseError, Step, IInv, Course, Holding
    <2>4. phase' # "disposed"
      BY <2>1, <2>3 DEF IInv, Alone, Active
    <2> QED
      BY <2>1, <2>2, <2>4 DEF IInv
  <1>2. ASSUME NEW c \in Clients, NEW path \in RoutesInUse \cap Routes(plane), Receive(c, path)
        PROVE  IInv'
    <2>1. Alone(c) /\ Course(c)' /\ TypeOK'
      BY <1>2, ReceiveCourse, ReceiveType DEF IInv
    <2>2. \A q \in Clients : Course(q)'
      BY <2>1, OthersKeep DEF IInv, Alone
    <2>3. PoolBounded' /\ phase' # "disposed"
      BY <1>2 DEF IInv, Receive, PoolBounded, process
    <2> QED
      BY <2>1, <2>2, <2>3 DEF IInv
  <1>3. CASE ChangeUsers
    <2>1. \A q \in Clients : Course(q)'
      BY <1>3, UsersCourse DEF IInv
    <2>2. TypeOK'
      BY <1>3 DEF IInv, TypeOK, ChangeUsers, process
    <2>3. PoolBounded' /\ (phase' = "disposed" => Active' = {})
      BY <1>3 DEF IInv, PoolBounded, ChangeUsers, process, Active
    <2> QED
      BY <2>1, <2>2, <2>3 DEF IInv
  <1>4. CASE Stop \/ dispose \/ UNCHANGED vars
    <2>1. UNCHANGED <<process, seeded, request>>
      BY <1>4 DEF Stop, dispose, vars
    <2>2. \A q \in Clients : Course(q)'
      BY <2>1 DEF IInv, process, request, Course, Logging, Begun, Ended, Answering, Holding, Entitled
    <2>3. PoolBounded' /\ Active' = Active
      BY <2>1 DEF IInv, PoolBounded, process, request, Active
    <2>4. phase' \in {"serving", "stopping", "disposed"} /\ (phase' = "disposed" => Active' = {})
      BY <1>4, <2>3 DEF IInv, TypeOK, Stop, dispose, vars
    <2>5. TypeOK'
      BY <2>1, <2>4 DEF IInv, TypeOK, process, request
    <2> QED
      BY <2>2, <2>3, <2>4, <2>5 DEF IInv
  <1> QED
    BY <1>1, <1>2, <1>3, <1>4 DEF Next, Advances

LEMMA Inductive == Spec => []IInv
  BY InitInv, StepInv, PTL DEF Spec

-------------------------------------------------------------------------------
THEOREM TypeCorrect == Spec => []TypeOK
  <1>1. IInv => TypeOK
    BY DEF IInv
  <1> QED
    BY <1>1, Inductive, PTL

\* dependencies.py:17-20, database.py:24-39: whatever a request meets on its
\* way, its session and its connection are back by the time it is over, and the
\* engine is disposed of with all of them in the pool.
THEOREM NothingLeaks == Spec => []ConnectionsReturned
  <1>1. IInv => ConnectionsReturned
    <2> SUFFICES ASSUME IInv PROVE ConnectionsReturned
      OBVIOUS
    <2>1. \A c \in Clients : Holding(c)
      BY DEF IInv, Course
    <2>2. connected \cup sessions \subseteq Active
      BY <2>1 DEF IInv, TypeOK, Active, Holding
    <2>3. \A c \in connected : pc[c] \notin {"received", "resolving", "waiting"}
      BY <2>1 DEF IInv, TypeOK, Holding
    <2> QED
      BY <2>2, <2>3 DEF IInv, PoolBounded, ConnectionsReturned
  <1> QED
    BY <1>1, Inductive, PTL

\* main.py:76-101: the two lines of a request, and the one of a request whose
\* handler raised.
THEOREM LogTellsAnswer == Spec => []LinesMatchAnswers
  <1>1. IInv => LinesMatchAnswers
    BY DEF IInv, Course, Logging, Ended, LinesMatchAnswers
  <1> QED
    BY <1>1, Inductive, PTL

\* dependencies.py:23-57: no handler of the API answers a request without a
\* user, who needs the bypass and a row in the table.
THEOREM NobodyElseServed == Spec => []OnlyUsersServed
  <1>1. IInv => OnlyUsersServed
    BY DEF IInv, Course, Entitled, OnlyUsersServed
  <1> QED
    BY <1>1, Inductive, PTL
===============================================================================
