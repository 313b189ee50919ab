---------------------------- MODULE MCIngestStore -----------------------------
EXTENDS IngestStore, Schema, TLC
CONSTANTS w1, w2, w3, h1, h2, h3

\* Whether the tables keep (source_id, source_row_hash) unique; one source here.
HashIsKey(schema) == {"source_row_hash"} \in schema["ingested_rows"].unique
SqlUnique == HashIsKey(SqlSchema)

\* Two workers meet the same rows in opposite orders, one batch is delivered
\* twice, three batches can wait in a cycle.
Overlapping == (w1 :> << <<h1, h2>>, <<h3>> >>) @@ (w2 :> << <<h2, h3, h1>>, <<h2, h1>> >>)
               @@ (w3 :> << <<h3, h1>> >>)
===============================================================================
