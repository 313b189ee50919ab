-------------------------------- MODULE Planes --------------------------------
(***************************************************************************)
(* The modules of the app/ and src/ planes that import one another, as     *)
(* bodies for module Imports: for each file, in order, what it takes from  *)
(* other files and what it defines.  The packages app, src, scripts and    *)
(* app.api import nothing and are left out, like imports of libraries.     *)
(***************************************************************************)
EXTENDS TLC, SequencesExt
LOCAL INSTANCE Integers

From(m, names) == [from |-> m, names |-> names]
Defines(names) == [from |-> "", names |-> names]

\* Model file -> its names; UserRoleEnum is the one that is not a mapped class.
Models == [user |-> {"User", "UserRoleEnum"},
           role |-> {"Permission", "Role", "RolePermissions"},
           ingested_row |-> {"IngestedRow"}, template |-> {"Template", "TemplateVersion"},
           suggestion |-> {"Suggestion"}, audit_log |-> {"AuditLog"}, session |-> {"SSOSession"}]
MappedClasses == UNION {Models[x] : x \in DOMAIN Models} \ {"UserRoleEnum"}

\* app/models/user.py and the others: classes over the Base of the src plane.
AppModel(x) == <<From("src.models.base", {"Base"}), Defines(Models[x])>>

\* Mutation: the mirror declares the classes itself.
SrcMirrorDeclares(x) == <<From("src.models.base", {"Base"}), Defines(Models[x])>>

\* src/models/user.py and the others: re-exports.
SrcMirror(x) == <<From("app.models." \o x, Models[x])>>

\* Mutation: one of the models is forgotten.
AppModelsWithoutSession ==
    <<From("src.models.base", {"Base"})>> \o
    [i \in 1..6 |-> LET x == <<"user", "role", "ingested_row", "template", "suggestion",
                               "audit_log">>[i]
                    IN  From("src.models." \o x, Models[x] \ {"UserRoleEnum"})]

\* app/models/__init__.py.
AppModels ==
    <<From("src.models.base", {"Base"})>> \o
    [i \in 1..7 |-> LET x == <<"user", "role", "ingested_row", "template", "suggestion",
                               "audit_log", "session">>[i]
                    IN  From("src.models." \o x, Models[x] \ {"UserRoleEnum"})]

SrcPlane == ("src.config" :> <<Defines({"Settings", "get_settings"})>>) @@
            ("src.database" :> <<From("src.config", {"get_settings"}),
                                 Defines({"engine", "async_session_factory", "get_db", "init_db"})>>) @@
            ("src.models" :> <<From("src.models.base", {"Base", "TimestampMixin"})>>) @@
            ("src.models.base" :> <<Defines({"Base", "TimestampMixin"})>>) @@
            ("src.main" :> <<From("src.config", {"get_settings"}), From("src.database", {"engine"})>>)

\* Mutation: the wrong one of two similar names.
DependenciesGetDb == <<From("app.config", {"settings"}),
                       From("app.database", {"get_db_session"}),
                       From("app.models.user", {"User"}),
                       Defines({"get_db_session", "get_current_user"})>>

Dependencies == <<From("app.config", {"settings"}),
                  From("app.database", {"async_session_factory"}),
                  From("app.models.user", {"User"}),
                  Defines({"get_db_session", "get_current_user"})>>

\* app/api/tasks.py and the others.
Routers == {"tasks", "agents", "runs", "review"}
Router == <<From("app.dependencies", {"get_current_user", "get_db_session"}),
            From("src.models.user", {"User"}), Defines({"router"})>>

Main == <<From("app.config", {"settings"}), From("app.database", {"engine"})>> \o
        [i \in 1..4 |-> From("app.api." \o <<"tasks", "agents", "runs", "review">>[i], {"router"})]
        \o <<Defines({"app"})>>

AppPlane == ("app.config" :> <<From("src.config", {"Settings", "get_settings"}), Defines({"settings"})>>) @@
            ("app.database" :> <<From("src.database", {"async_session_factory", "engine", "get_db"})>>) @@
            ("app.models" :> AppModels) @@
            ("app.models.base" :> <<Defines({"Base"})>>) @@
            ("app.dependencies" :> Dependencies) @@
            ("app.main" :> Main)

SeedScript == <<From("src.config", {"get_settings"}),
                From("src.database", {"async_session_factory", "init_db"}),
                From("src.models.role", {"Permission", "Role", "RolePermissions"}),
                From("src.models.user", {"User", "UserRoleEnum"}), Defines({"seed"})>>

\* Run by the alembic command, not imported by name.
AlembicEnv == <<From("app.config", {"get_settings"}), From("app.models.base", {"Base"})>>

Files(package, body(_)) ==
    LET file(x) == package \o x
    IN  [m \in {file(x) : x \in DOMAIN Models} |-> body(CHOOSE x \in DOMAIN Models : file(x) = m)]

Bodies == SrcPlane @@ AppPlane @@ Files("src.models.", SrcMirror) @@ Files("app.models.", AppModel) @@
          [m \in {"app.api." \o r : r \in Routers} |-> Router] @@
          ("scripts.seed_dev" :> SeedScript) @@ ("alembic.env" :> AlembicEnv)

Packages == [m \in {"src.models." \o x : x \in DOMAIN Models \cup {"base"}} |-> "src.models"] @@
            [m \in {"app.models." \o x : x \in DOMAIN Models \cup {"base"}} |-> "app.models"]
===============================================================================
