------------------------------- MODULE Templates -------------------------------
(***************************************************************************)
(* The functions of templates.py.  A version row has a number, a status    *)
(* and a payload; a payload says of each of its keys whether it is missing *)
(* ("none"), a list or something else, and how many rules there are.       *)
(***************************************************************************)
EXTENDS Integers, Sequences

Statuses == {"active", "draft", "archived"}
Kinds == {"none", "list", "other"}
Payloads(counts) == [inputs : Kinds, outputs : Kinds, rules : Kinds, count : counts]

\* Mutation: the list is filtered but not sorted.
latest_active_version_unsorted(template_id, all_versions) ==
    LET active == {i \in DOMAIN all_versions : all_versions[i].status = "active"}
    IN  {all_versions[i] : i \in {k \in active : \A j \in active : k <= j}}

\* None is the empty set, a row the set of it.  The list is filtered and sorted
\* by version, highest first; among equals the sort keeps the order of the list.
\* template_id is not read.
latest_active_version(template_id, all_versions) ==
    LET active == {i \in DOMAIN all_versions : all_versions[i].status = "active"}
        Before(i, j) == \/ all_versions[j].version < all_versions[i].version
                        \/ all_versions[j].version = all_versions[i].version /\ i <= j
    IN  {all_versions[i] : i \in {k \in active : \A j \in active : Before(k, j)}}

\* Mutation: any list of rules will do.
validate_template_payload_lists(payload) ==
    {k \in {"inputs", "outputs", "rules"} : payload[k] # "list"}

\* The set of the keys that are complained about.
validate_template_payload(payload) ==
    {k \in {"inputs", "outputs", "rules"} : payload[k] # "list"}
    \cup {k \in {"rules"} : payload.count = 0}
===============================================================================
