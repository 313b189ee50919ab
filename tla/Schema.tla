-------------------------------- MODULE Schema --------------------------------
(***************************************************************************)
(* The three descriptions of the database that the repository holds: the   *)
(* SQL file, the Alembic revision, and the ORM models (what init_db        *)
(* creates).  A table is described by what its statements depend on: its   *)
(* foreign keys and their ON DELETE action, its NOT NULL columns and its   *)
(* unique keys among the columns that matter here, and whether a trigger   *)
(* rejects UPDATE and DELETE.  Plain data columns are left out.            *)
(***************************************************************************)
\* f, except where g says something else.
f ++ g == [x \in DOMAIN f \cup DOMAIN g |-> IF x \in DOMAIN g THEN g[x] ELSE f[x]]

References(to, onDelete) == [to |-> to, onDelete |-> onDelete]
NoKeys == [c \in {} |-> References("", "")]

\* fk: column -> what it refers to.
Table(fk, required, unique) ==
    [fk |-> fk, required |-> required, unique |-> unique, appendOnly |-> FALSE]

\* A table whose one natural key is the given column.
Named(column) == Table(NoKeys, {column}, {{column}})

RolePermissions ==
    Table([role_id |-> References("roles", "CASCADE"),
           permission_id |-> References("permissions", "CASCADE")],
          {"role_id", "permission_id"}, {{"role_id", "permission_id"}})
SsoSessions(unique) ==
    Table([user_id |-> References("users", "CASCADE")], {"user_id"} \cup UNION unique, unique)

\* db/migrations/001_initial.sql.
SqlIdentity ==
    [users |-> Named("email"), permissions |-> Named("code"), roles |-> Named("name"),
     role_permissions |-> RolePermissions,
     user_roles |-> Table([user_id |-> References("users", "CASCADE"),
                           role_id |-> References("roles", "CASCADE")],
                          {"user_id", "role_id"}, {{"user_id", "role_id"}}),
     sso_sessions |-> SsoSessions({{"session_token_hash"}})]

SqlPipelineWith(reviewerDeleted) ==
    [templates |-> Named("name"),
     template_versions |-> Table([template_id |-> References("templates", "CASCADE")],
                                 {"template_id", "version"}, {}),
     ingested_rows |-> Table([ingested_by_user_id |-> References("users", "SET_NULL")],
                             {"source_row_hash"}, {{"source_row_hash"}}),
     suggestions |-> Table([ingested_row_id |-> References("ingested_rows", "CASCADE"),
                            template_id |-> References("templates", "RESTRICT"),
                            reviewer_id |-> References("users", reviewerDeleted)],
                           {"ingested_row_id", "template_id"}, {})]

\* Mutation: a reviewer's suggestions are deleted with him.
SqlPipelineCascades == SqlPipelineWith("CASCADE")

SqlPipeline == SqlPipelineWith("SET_NULL")

\* Mutation: the triggers are forgotten.
SqlAuditUntriggered == [audit_logs |-> Table([actor_id |-> References("users", "SET_NULL")], {}, {})]

SqlAudit ==
    [audit_logs |-> [Table([actor_id |-> References("users", "SET_NULL")], {}, {})
                        EXCEPT !.appendOnly = TRUE]]

SqlSchema == SqlIdentity ++ SqlPipeline ++ SqlAudit

\* alembic/versions/001_initial.py.
AlembicIdentity ==
    [users |-> Named("email"), permissions |-> Named("code"), roles |-> Named("name"),
     role_permissions |-> RolePermissions]

AlembicTemplates ==
    [templates |-> Table([created_by |-> References("users", "SET_NULL")], {"key"}, {{"key"}}),
     template_versions |-> Table([template_id |-> References("templates", "CASCADE"),
                                  activated_by |-> References("users", "SET_NULL")],
                                 {"template_id", "version"}, {{"template_id", "version"}})]

AlembicPipeline ==
    [ingested_rows |-> Table([template_id |-> References("templates", "SET_NULL"),
                              template_version_id |-> References("template_versions", "SET_NULL")],
                             {"source_row_hash"}, {{"source_row_hash"}}),
     suggestions |-> Table([ingested_row_id |-> References("ingested_rows", "CASCADE"),
                            template_version_id |-> References("template_versions", "SET_NULL"),
                            reviewer_id |-> References("users", "SET_NULL")],
                           {"ingested_row_id"}, {})]

\* REVOKE UPDATE, DELETE ... FROM PUBLIC takes nothing from the owner, which is
\* the role that migrates and that the application connects as: no row is kept.
AlembicAudit == [audit_logs |-> Table([user_id |-> References("users", "SET_NULL")], {}, {})]

AlembicSessions == [sso_sessions |-> SsoSessions({})]

AlembicSchema ==
    AlembicIdentity ++ AlembicTemplates ++ AlembicPipeline ++ AlembicAudit ++ AlembicSessions

\* app/models/*.py, created by init_db.
OrmUser == [users |-> Named("email")]
OrmRole == [permissions |-> Named("code"), roles |-> Named("name"), role_permissions |-> RolePermissions]
OrmSession == [sso_sessions |-> SsoSessions({{"session_token_hash"}})]
OrmTemplate ==
    [templates |-> Named("name"),
     template_versions |-> Table([template_id |-> References("templates", "CASCADE")],
                                 {"template_id", "version"}, {})]
OrmIngestedRow ==
    [ingested_rows |-> Table([ingested_by_user_id |-> References("users", "SET_NULL")],
                             {"source_row_hash"}, {})]
OrmSuggestion ==
    [suggestions |-> Table([ingested_row_id |-> References("ingested_rows", "CASCADE"),
                            template_id |-> References("templates", "RESTRICT"),
                            reviewer_id |-> References("users", "SET_NULL")],
                           {"ingested_row_id", "template_id"}, {})]
OrmAuditLog == [audit_logs |-> Table([actor_id |-> References("users", "SET_NULL")], {}, {})]

OrmSchema == OrmUser ++ OrmRole ++ OrmSession ++ OrmTemplate ++ OrmIngestedRow
             ++ OrmSuggestion ++ OrmAuditLog
===============================================================================
