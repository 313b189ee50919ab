------------------------------- MODULE Dispatch -------------------------------
(***************************************************************************)
(* Review decisions as tasks: a reviewer hands his decision to enqueue(),  *)
(* a process of the worker pool takes the task, checks the permission of   *)
(* the reviewer (what identity.py is for: "outside of an HTTP request      *)
(* (e.g., from a Celery worker)") and carries the decision out in the unit *)
(* of work of module Review.  The task body is not part of the repository. *)
(* start_workers.sh starts several processes, which may be at work on      *)
(* tasks of one reviewer, or on copies of one task, at the same time.  The *)
(* grants may change after the check; a process may die at any point.      *)
(***************************************************************************)
EXTENDS Review, FiniteSets

CONSTANTS Roles, Permissions, PERM_REVIEW_SUGGESTION,
          MaxCopies, MaxChanges
ASSUME ReviewersAssumption == IsFiniteSet(Reviewers)
ASSUME ProcessesAssumption == IsFiniteSet(Processes)
ASSUME BoundsAssumption == MaxCopies \in Nat /\ MaxChanges \in Nat

VARIABLES celery_app, built, call, app, queue,
          user_roles, role_permissions, changes,
          actor, \* process -> the reviewer whose task it has checked and not finished
          ever,  \* history: the reviewers who once had the permission
          late   \* history: reviewer -> decisions committed since he lost it

Tasks == INSTANCE Workers WITH Callers <- Reviewers
Rights == INSTANCE Identity WITH Users <- Reviewers

reviewVars == vars
workersVars == <<celery_app, built, call, app, queue>>
rightsVars == <<user_roles, role_permissions, changes>>
dispatchVars == <<reviewVars, workersVars, rightsVars, actor, ever, late>>

May(r) == Rights!has_permission(Rights!Granted(r), PERM_REVIEW_SUGGESTION)

DispatchInit ==
    /\ Init /\ Tasks!Init
    /\ user_roles \in SUBSET (Reviewers \X Roles)
    /\ role_permissions \in SUBSET (Roles \X Permissions) /\ changes = 0
    /\ actor = [p \in Processes |-> NoOne]
    /\ ever = {r \in Reviewers : May(r)} /\ late = [r \in Reviewers |-> 0]

Enqueue(r) == /\ Tasks!enqueue(r)
              /\ UNCHANGED <<reviewVars, rightsVars, actor, ever, late>>
Redeliver(r) == /\ Tasks!Redeliver(r)
                /\ UNCHANGED <<reviewVars, rightsVars, actor, ever, late>>

\* Mutation: a reviewer who was once found to have the permission keeps it.
AcceptRemembered(p, r) ==
    /\ actor[p] = NoOne /\ Tasks!Deliver(r) /\ (May(r) \/ r \in ever)
    /\ actor' = [actor EXCEPT ![p] = r]
    /\ UNCHANGED <<reviewVars, rightsVars, ever, late>>

\* check_permission returns, or raises PermissionDeniedError; the process may
\* also die before.
Accept(p, r) == /\ actor[p] = NoOne /\ Tasks!Deliver(r) /\ May(r)
                /\ actor' = [actor EXCEPT ![p] = r]
                /\ UNCHANGED <<reviewVars, rightsVars, ever, late>>
Lose(p, r) == /\ actor[p] = NoOne /\ Tasks!Deliver(r)
              /\ UNCHANGED <<reviewVars, rightsVars, actor, ever, late>>

Work(p) == /\ actor[p] # NoOne
           /\ \/ \E s \in Suggestions : Load(p, s)
              \/ \E decision \in Decisions : Decide(p, decision, actor[p])
           /\ UNCHANGED <<workersVars, rightsVars, actor, ever, late>>

Finish(p) == actor' = [actor EXCEPT ![p] = NoOne] /\ UNCHANGED <<workersVars, rightsVars, ever>>
Complete(p) == /\ actor[p] # NoOne /\ CommitDecision(p) /\ Finish(p)
               /\ late' = IF May(actor[p]) THEN late ELSE [late EXCEPT ![actor[p]] = @ + 1]

Abandon(p) == /\ actor[p] # NoOne /\ Finish(p)
              /\ \/ GiveUp(p)
                 \/ pc[p] = "idle" /\ UNCHANGED reviewVars
              /\ UNCHANGED late

Suggest(s, confidence) == /\ Propose(s, confidence)
                          /\ UNCHANGED <<workersVars, rightsVars, actor, ever, late>>

Administer == /\ Rights!Administer
              /\ ever' = ever \cup {r \in Reviewers : May(r)'}
              /\ late' = [r \in Reviewers |-> IF May(r)' THEN 0 ELSE late[r]]
              /\ UNCHANGED <<reviewVars, workersVars, actor>>

DispatchNext ==
    \/ \E s \in Suggestions, confidence \in Confidences : Suggest(s, confidence)
    \/ \E r \in Reviewers : Enqueue(r) \/ Redeliver(r)
    \/ \E p \in Processes : \/ Work(p) \/ Complete(p) \/ Abandon(p)
                            \/ \E r \in Reviewers : Accept(p, r) \/ Lose(p, r)
    \/ Administer
DispatchSpec == DispatchInit /\ [][DispatchNext]_dispatchVars

-------------------------------------------------------------------------------
\* Among the types, that there are never more apps than threads.
DispatchTypeOK ==
    /\ TypeOK /\ Tasks!TypeOK /\ built <= Cardinality(Reviewers)
    /\ user_roles \subseteq Reviewers \X Roles /\ role_permissions \subseteq Roles \X Permissions
    /\ changes \in 0..MaxChanges
    /\ actor \in [Processes -> Reviewers \cup {NoOne}]
    /\ ever \subseteq Reviewers /\ late \in [Reviewers -> Nat]

\* identity.py:33-43, review.py:17, start_workers.sh:14-16.  A permission that is
\* taken away, by whatever change of the grants, is missed at most by the decisions
\* that the processes of the pool were carrying out, one each, and not by a task
\* that is delivered again later; who never had it decides nothing.
LateDecisionsBounded ==
    \A r \in Reviewers : late[r] <= IF r \in ever THEN Cardinality(Processes) ELSE 0
===============================================================================
