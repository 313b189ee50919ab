--------------------------- MODULE AuditedRegister ----------------------------
(***************************************************************************)
(* What the review queue and the audit log promise together when nobody    *)
(* locks what he decides on: a decision is one step that also appends one  *)
(* entry.  It starts from a state and a reviewer that the object may have  *)
(* had at any time before, and replaces each of the two that it makes      *)
(* different.                                                              *)
(***************************************************************************)
EXTENDS Sequences

CONSTANTS Objects, Absent, NoOne,
          States, Actors
VARIABLES value, log

Init == value = [o \in Objects |-> Absent] /\ log = << >>

Create(o) == /\ value[o] = Absent
             /\ \E v \in States :
                   value' = [value EXCEPT ![o] = [first |-> v, state |-> v, reviewer_id |-> NoOne]]
             /\ UNCHANGED log

About(o) == {i \in DOMAIN log : log[i].resource_id = o}
Had(o) == {value[o].first} \cup {log[i].after : i \in About(o)}
Named(o) == {NoOne} \cup {log[i].actor_id : i \in About(o)}

Decide(o, before, named, after, actor) ==
    /\ value[o] # Absent /\ before \in Had(o) /\ named \in Named(o)
    /\ log' = Append(log, [resource_id |-> o, actor_id |-> actor, before |-> before, after |-> after])
    /\ value' = [value EXCEPT ![o] =
                    [first |-> @.first,
                     state |-> IF after # before THEN after ELSE @.state,
                     reviewer_id |-> IF actor # named THEN actor ELSE @.reviewer_id]]

Next == \E o \in Objects :
            \/ Create(o)
            \/ \E before, after \in States, named \in Actors \cup {NoOne}, actor \in Actors :
                    Decide(o, before, named, after, actor)
Spec == Init /\ [][Next]_<<value, log>>
===============================================================================
