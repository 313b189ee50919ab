------------------------------- MODULE Imports --------------------------------
(***************************************************************************)
(* How the interpreter loads the modules of the two planes: sys.modules,   *)
(* packages before their submodules, and what is left when an import       *)
(* raises.  The bodies of the modules are a parameter (module Planes):     *)
(* the "from ... import ..." statements between modules of the repository  *)
(* and the names a module defines, in the order of the file.  Python is    *)
(* not part of the repository; the semantics below is that of importlib    *)
(* for what the planes use of it.                                          *)
(***************************************************************************)
EXTENDS Integers, SequencesExt

CONSTANTS Body,    \* module -> the sequence of its statements
          Parent,  \* submodule -> its package, for packages whose body imports
          Classes, \* the names that are mapped classes
          Entries  \* what a process may ask for first, second, ...

\* A statement [from, names] takes names from a module; one with from = Nothing
\* defines them.
Nothing == ""
ASSUME ParentAssumption == \A m \in DOMAIN Parent : {m, Parent[m]} \subseteq DOMAIN Body
Names == UNION {UNION {Body[m][i].names : i \in DOMAIN Body[m]} : m \in DOMAIN Body}
ASSUME BodyAssumption ==
    \A m \in DOMAIN Body : Body[m] \in Seq([from : DOMAIN Body \cup {Nothing}, names : SUBSET Names])
ASSUME BaseAssumption ==   \* a class statement names the Base it derives from
    \A m \in DOMAIN Body : \A i \in DOMAIN Body[m] :
        (Body[m][i].from = Nothing /\ Body[m][i].names \cap Classes # {}) =>
            \E j \in DOMAIN Body[m] : "Base" \in Body[m][j].names /\ Body[m][j].from # Nothing
ASSUME EntriesAssumption == Entries \subseteq DOMAIN Body /\ Nothing \notin DOMAIN Body

VARIABLES request,    \* the entry being imported, or Nothing
          stack,      \* the modules being executed, innermost last
          at,         \* module -> next statement; 0 if it is not in sys.modules
          registered, \* module that defines a Base -> the classes in its metadata
          failed      \* the entries whose import raised
vars == <<request, stack, at, registered, failed>>

Loaded(m) == at[m] = Len(Body[m]) + 1 /\ m \notin Range(stack)
Bound(m) == UNION {Body[m][i].names : i \in 1..(at[m] - 1)}

Top == Last(stack)
Running == stack # << >> /\ at[Top] <= Len(Body[Top])
Current == Body[Top][at[Top]]

\* The module whose Base, and so whose metadata, m uses.
BaseOf(m) == CHOOSE b \in DOMAIN Body :
                \E i \in DOMAIN Body[m] : "Base" \in Body[m][i].names /\ Body[m][i].from = b

\* What the interpreter is to find: a package comes before its submodule.
Wanted == IF stack = << >> THEN request ELSE Current.from
Needed(m) == {m} \cup {Parent[x] : x \in {m} \cap DOMAIN Parent}
Missing == {m \in Needed(Wanted) : at[m] = 0}
NextMissing == IF Wanted \in DOMAIN Parent /\ Parent[Wanted] \in Missing THEN Parent[Wanted] ELSE Wanted
Importing == \/ stack = << >> /\ request # Nothing
             \/ Running /\ Current.from # Nothing

ImportsInit ==
    /\ request = Nothing /\ stack = << >>
    /\ at = [m \in DOMAIN Body |-> 0]
    /\ registered = [m \in DOMAIN Body |-> {}] /\ failed = {}

Ask(e) == /\ request = Nothing /\ at[e] = 0
          /\ request' = e
          /\ UNCHANGED <<stack, at, registered, failed>>

\* A module enters sys.modules before its body runs.
Enter == /\ Importing /\ Missing # {}
         /\ stack' = Append(stack, NextMissing)
         /\ at' = [at EXCEPT ![NextMissing] = 1]
         /\ UNCHANGED <<request, registered, failed>>

\* The names are there, although the module may still be executing.
Bind == /\ Running /\ Importing /\ Missing = {} /\ Current.names \subseteq Bound(Current.from)
        /\ at' = [at EXCEPT ![Top] = @ + 1]
        /\ UNCHANGED <<request, stack, registered, failed>>

\* A class statement over Base also enters its table in the metadata, which
\* would raise for a table that is there already (MappedOnce: it never is).
Mapping == IF Running /\ Current.from = Nothing THEN Current.names \cap Classes ELSE {}
Define == /\ Running /\ Current.from = Nothing
          /\ at' = [at EXCEPT ![Top] = @ + 1]
          /\ registered' = IF Mapping = {} THEN registered
                           ELSE [registered EXCEPT ![BaseOf(Top)] = @ \cup Mapping]
          /\ UNCHANGED <<request, stack, failed>>

Leave == /\ stack # << >> /\ ~Running
         /\ stack' = Front(stack)
         /\ UNCHANGED <<request, at, registered, failed>>

Finish == /\ request # Nothing /\ stack = << >> /\ Missing = {}
          /\ request' = Nothing
          /\ UNCHANGED <<stack, at, registered, failed>>

\* Mutation: modules whose body raised stay in sys.modules.
RaiseKeepsModules == /\ request' = Nothing /\ stack' = << >>
                     /\ failed' = failed \cup {request}
                     /\ UNCHANGED <<at, registered>>

\* An exception ends every module that is executing and takes it out of
\* sys.modules; what was loaded on the way stays.
Raise == /\ request' = Nothing /\ stack' = << >>
         /\ failed' = failed \cup {request}
         /\ at' = [m \in DOMAIN Body |-> IF m \in Range(stack) THEN 0 ELSE at[m]]
         /\ UNCHANGED registered

ImportError == /\ Running /\ Importing /\ Missing = {}
               /\ ~(Current.names \subseteq Bound(Current.from))
               /\ Raise

ImportsNext == \/ \E e \in Entries : Ask(e)
               \/ Enter \/ Bind \/ Define \/ Leave \/ Finish \/ ImportError
ImportsSpec == ImportsInit /\ [][ImportsNext]_vars

-------------------------------------------------------------------------------
ImportsTypeOK ==
    /\ request \in Entries \cup {Nothing}
    /\ stack \in Seq(DOMAIN Body) /\ IsInjective(stack)
    /\ DOMAIN at = DOMAIN Body
    /\ \A m \in DOMAIN Body : at[m] \in 0..(Len(Body[m]) + 1)
    /\ \A m \in DOMAIN Body : at[m] \in 1..Len(Body[m]) => m \in Range(stack)
    /\ registered \in [DOMAIN Body -> SUBSET Classes] /\ failed \subseteq Entries

\* src/models/base.py:18-24 with the app/models files.  Imports that fail are
\* repeated, and whatever they leave behind, no class is mapped a second time
\* on the metadata: that would raise for the life of the process.
MappedOnce == Mapping # {} => Mapping \cap registered[BaseOf(Top)] = {}

\* app/models/__init__.py:7-14.  The order in which the planes are entered no
\* longer matters once app.models is loaded: after that no import raises.
AppModelsSuffices == [][Loaded("app.models") => failed' = failed]_vars

\* seed_dev.py:16-19 with database.py:75-78.  When the script could be loaded,
\* and no import before it was lost, the metadata that init_db creates tables
\* from knows every model, though the script names only two of their files.
SeedFindsTables ==
    (Loaded("scripts.seed_dev") /\ failed = {}) => registered["src.models.base"] = Classes

\* app/models/base.py:5-7 says the planes "import independently without
\* circular dependencies": in a new process any of them can come first.
ImportsIndependently == failed = {}
===============================================================================
