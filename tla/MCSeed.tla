-------------------------------- MODULE MCSeed --------------------------------
(* A cut of the SEED_ tables of scripts/seed_dev.py (two permissions, two     *)
(* roles) that is small enough for every database it can meet.                *)
EXTENDS Seed
CONSTANTS p1, p2

Permission(code) == <<"permissions", code>>
Role(name) == <<"roles", name>>
Grant(name, code) == <<"role_permissions", name, code>>
DevUser == <<"users", "dev@local">>

RowsOf(codes, names, grants) ==
    LET Block(name) == <<Role(name)>> \o [j \in DOMAIN grants[name] |-> Grant(name, grants[name][j])]
    IN  [i \in DOMAIN codes |-> Permission(codes[i])]
        \o FlattenSeq([i \in DOMAIN names |-> Block(names[i])]) \o <<DevUser>>

CutRows == RowsOf(<<"task:create", "audit:read">>, <<"operator", "viewer">>,
                  [operator |-> <<"task:create", "audit:read">>, viewer |-> <<"audit:read">>])

CutKeys == Range(CutRows)
CutFlushed == {row \in CutKeys : row[1] \in {"permissions", "roles"}}

\* Every set of rows whose foreign keys lead somewhere.
Partial == {rows \in SUBSET CutKeys :
               \A row \in rows : row[1] = "role_permissions" =>
                                   {Role(row[2]), Permission(row[3])} \subseteq rows}
===============================================================================
