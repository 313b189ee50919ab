------------------------------- MODULE MCIngest -------------------------------
(* Rows that differ in padding, letter case, literal form, type, key order and *)
(* in where a delimiter stands.                                                *)
EXTENDS Ingest

MCLower == ("A" :> "a") @@ ("TRUE" :> "true") @@ ("True" :> "true") @@ ("False" :> "false") @@
           [t \in {" ", "a", "b", "|", "=", "::", "true", "false", "1", "007", "7", "1.50", "1.5",
                   "2", "s", "None", "source_id", "source_row_hash"} |-> t]
MCInt == (<<"007">> :> <<"7">>) @@ (<<"7">> :> <<"7">>) @@ (<<"1">> :> <<"1">>) @@ (<<"2">> :> <<"2">>)
MCFloat == (<<"1.50">> :> <<"1.5">>)
MCSourceCol == <<"source_id">>
MCHashCol == <<"source_row_hash">>
MCNoneKey == <<"None">>
MCSortedKeys == << <<"a">>, <<"b">>, MCSourceCol, MCHashCol >>
MCSources == {<<"s">>}

Raw(k, v) == [key |-> k, value |-> Str(v)]
A == <<"a">>
B == <<"b">>
None == [type |-> "none", text |-> <<"None">>]

\* Dedup: the same content behind different decorations, a collision of two
\* keys, a caller-supplied hash column, a row with a None key.
DedupRows == { << Raw(<<" ", "A">>, <<"007", " ">>) >>,
               << Raw(A, <<"7">>) >>,
               << Raw(B, <<"2">>), Raw(<<"A">>, <<"1">>), Raw(A, <<"7">>) >>,
               << Raw(A, <<" ", "TRUE">>), Raw(MCHashCol, <<"2">>) >>,
               << Raw(MCNoneKey, <<"1">>) >> }
DedupBatches == SeqOf(DedupRows, 3)

\* Keys: every value in one of two columns, with and without delimiters, and
\* rows that differ from one of these in type or in where a column begins.
Values == << <<"7">>, <<"1.50">>, <<" ", " ", "b">>, <<" ", "true">>,
             <<"1", "|", "b", "=", "2">>, <<" ">>, <<"a", " ", "b">>, <<"None">> >>
KeySequence == [i \in DOMAIN Values |-> << Raw(A, Values[i]) >>] \o
               [i \in DOMAIN Values |-> << Raw(B, Values[i]) >>] \o
               << << Raw(A, <<"1">>), Raw(B, <<"2">>) >>, << Raw(A, <<"7">>), Raw(B, <<"2">>) >>,
                  << [key |-> A, value |-> None] >> >>

\* One long batch meets every pair of them.
AllBatches == DedupBatches \cup {KeySequence}
AllRawRows == DedupRows \cup Range(KeySequence)
===============================================================================
