------------------------------ MODULE MCImports -------------------------------
(* The commands of README.md, and modules another program may ask for first.  *)
EXTENDS Imports, Planes

Commands == {"scripts.seed_dev", "app.main", "alembic.env"}
AnyOrder == Commands \cup {"app.models", "app.dependencies",
                           "src.models.role", "src.models.template",
                           "src.models.session"}
===============================================================================
