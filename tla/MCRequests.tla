------------------------------ MODULE MCRequests ------------------------------
(* Pools of one and two connections, and one that is never exhausted; a route *)
(* of each kind.                                                              *)
EXTENDS Requests
MCRoutes == {"unmatched", "health_check", "create_task", "get_task", "list_agents", "database_health"}
===============================================================================
