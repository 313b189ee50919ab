-------------------------------- MODULE Workers --------------------------------
(***************************************************************************)
(* enqueue() of workers.py, called by several threads of one process: the  *)
(* Celery app is made when it is first asked for, without a lock, and a    *)
(* task is published to a broker that all apps share.  An app is a number  *)
(* (0 is None).  Celery and Redis are not part of the repository; with     *)
(* their defaults a task may be published more than once and delivered     *)
(* more than once.  The broker is a bag of tasks, which are told apart by  *)
(* the thread that called, as Celery tells them apart by what they ask.    *)
(***************************************************************************)
EXTENDS Integers

CONSTANTS Callers,
          MaxCopies \* bound on the tasks of a thread that the broker holds

VARIABLES celery_app, \* the module's global
          built,      \* number of apps made so far
          call,       \* thread -> where in enqueue() it is
          app,        \* thread -> the app it got
          queue       \* thread -> number of tasks with the broker, copies included
queueVars == <<celery_app, built, call, app, queue>>

Init == /\ celery_app = 0 /\ built = 0 /\ queue = [c \in Callers |-> 0]
        /\ call = [c \in Callers |-> "idle"] /\ app = [c \in Callers |-> 0]

At(c, from, to) == call[c] = from /\ call' = [call EXCEPT ![c] = to]

\* Mutation: an app per call.
get_celery_app_always(c) ==
    /\ At(c, "idle", "building")
    /\ UNCHANGED <<celery_app, built, app, queue>>

\* if celery_app is None
get_celery_app(c) ==
    /\ At(c, "idle", IF celery_app = 0 THEN "building" ELSE "returning")
    /\ UNCHANGED <<celery_app, built, app, queue>>

\* Mutation: a build that fails leaves None behind.
build_celery_app_resets(c) ==
    /\ \/ At(c, "building", "returning") /\ built' = built + 1 /\ celery_app' = built + 1
       \/ At(c, "building", "idle") /\ celery_app' = 0 /\ UNCHANGED built
    /\ UNCHANGED <<app, queue>>

\* celery_app = _build_celery_app(), which raises when Celery is not installed.
build_celery_app(c) ==
    /\ \/ At(c, "building", "returning") /\ built' = built + 1 /\ celery_app' = built + 1
       \/ At(c, "building", "idle") /\ UNCHANGED <<built, celery_app>>
    /\ UNCHANGED <<app, queue>>

\* return celery_app reads the global again.
return_celery_app(c) ==
    /\ At(c, "returning", "sending") /\ app' = [app EXCEPT ![c] = celery_app]
    /\ UNCHANGED <<celery_app, built, queue>>

\* app.send_task.  Each attempt of the retry policy may fail before or after the
\* task has reached the broker; whether the call returns or raises in the end does
\* not tell how many copies are there.
send_task(c) ==
    /\ At(c, "sending", "idle") /\ app' = [app EXCEPT ![c] = 0]
    /\ \E copies \in queue[c]..MaxCopies : queue' = [queue EXCEPT ![c] = copies]
    /\ UNCHANGED <<celery_app, built>>

enqueue(c) == get_celery_app(c) \/ build_celery_app(c) \/ return_celery_app(c) \/ send_task(c)

\* A worker takes a task and acknowledges it.
Deliver(c) ==
    /\ queue[c] > 0 /\ queue' = [queue EXCEPT ![c] = @ - 1]
    /\ UNCHANGED <<celery_app, built, call, app>>

\* A task that was fetched and is not acknowledged when the visibility timeout
\* has passed, or whose acknowledgement is lost, is in the queue once more, and
\* with the worker that fetched it.
Redeliver(c) ==
    /\ queue[c] \in 1..(MaxCopies - 1) /\ queue' = [queue EXCEPT ![c] = @ + 1]
    /\ UNCHANGED <<celery_app, built, call, app>>

Next == \E c \in Callers : enqueue(c) \/ Deliver(c) \/ Redeliver(c)
Spec == Init /\ [][Next]_queueVars

-------------------------------------------------------------------------------
TypeOK == /\ built \in Nat /\ celery_app \in 0..built
          /\ call \in [Callers -> {"idle", "building", "returning", "sending"}]
          /\ app \in [Callers -> 0..built] /\ queue \in [Callers -> 0..MaxCopies]

\* workers.py:33-38.  Threads that find no app at the same time make several, but
\* a caller never gets None, and once no thread is left that found none the
\* global stays what it is.
AppSettles ==
    [][/\ (celery_app # 0 /\ \A c \in Callers : call[c] # "building") => celery_app' = celery_app
       /\ \A c \in Callers : call'[c] = "sending" => app'[c] # 0]_queueVars
===============================================================================
