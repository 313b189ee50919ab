-------------------------------- MODULE RowKey --------------------------------
(***************************************************************************)
(* The pure functions under src/app/orchestrator/ingest.py: how one raw    *)
(* row becomes a normalised row and how its idempotency key is built.      *)
(*                                                                         *)
(* A text is a sequence of tokens; a token is a run of characters that     *)
(* these functions never cut.  Blanks and the delimiters "|", "=" and      *)
(* "::" are tokens of their own.  A Python value is a record: its type and *)
(* the text that str() renders it as.  SHA-256 is taken to be injective,   *)
(* so a hash is the text that was hashed.                                  *)
(***************************************************************************)
EXTENDS Integers, FiniteSetsExt, SequencesExt

CONSTANTS Blank,        \* the whitespace token that str.strip removes
          Lower,        \* token -> its lower-case form
          IntLiteral,   \* text int() accepts  -> str of the result
          FloatLiteral, \* text float() accepts -> str of the result
          SortedKeys    \* every normalised key, in the order sorted() gives

Text == Seq(DOMAIN Lower)

\* Lower-casing twice is lower-casing once, and does not touch whitespace.
ASSUME LowerAssumption ==
    \A t \in DOMAIN Lower : /\ Lower[t] \in DOMAIN Lower /\ Lower[Lower[t]] = Lower[t]
                            /\ Lower[t] = Blank <=> t = Blank
ASSUME TokensAssumption == {"|", "=", "::", "True", "False"} \subseteq DOMAIN Lower
ASSUME LiteralAssumption ==
    \A literal \in {IntLiteral, FloatLiteral} : literal \in [DOMAIN literal -> Text]
ASSUME SortedKeysAssumption == SortedKeys \in Seq(Text) /\ IsInjective(SortedKeys)

Str(text) == [type |-> "str", text |-> text]

\* Mutation: one leading blank is removed, not all blanks at both ends.
StripPrefix(text) == IF text # << >> /\ Head(text) = Blank THEN Tail(text) ELSE text

\* str.strip(): the inner part between the outermost non-blank tokens.
Strip(text) ==
    LET ink == {i \in DOMAIN text : text[i] # Blank}
    IN  IF ink = {} THEN << >> ELSE SubSeq(text, Min(ink), Max(ink))

LowerCase(text) == [i \in DOMAIN text |-> Lower[text[i]]]

\* _coerce: only strings are looked at; bool first, then int, then float.
Coerce(value) ==
    LET stripped == Strip(value.text)
    IN  IF value.type # "str" THEN value
        ELSE IF LowerCase(stripped) = <<"true">> THEN [type |-> "bool", text |-> <<"True">>]
        ELSE IF LowerCase(stripped) = <<"false">> THEN [type |-> "bool", text |-> <<"False">>]
        ELSE IF stripped \in DOMAIN IntLiteral THEN [type |-> "int", text |-> IntLiteral[stripped]]
        ELSE IF stripped \in DOMAIN FloatLiteral THEN [type |-> "float", text |-> FloatLiteral[stripped]]
        ELSE Str(stripped)

\* A raw row is the sequence of a dict's items.  Keys that normalise to the
\* same name collide, and the later item of the comprehension wins.
normalise_row(raw) ==
    LET Key(i) == LowerCase(Strip(raw[i].key))
    IN  [k \in {Key(i) : i \in DOMAIN raw} |->
            Coerce(raw[Max({i \in DOMAIN raw : Key(i) = k})].value)]

\* "|".join(): what the first i parts join to, where an empty part is none.
Joined(parts) ==
    LET joined[i \in 0..Len(parts)] ==
            IF i = 0 THEN << >>
            ELSE IF parts[i] = << >> THEN joined[i - 1]
            ELSE (IF joined[i - 1] = << >> THEN << >> ELSE joined[i - 1] \o <<"|">>) \o parts[i]
    IN  joined

\* Mutation: the values are joined without the names of their columns.
PartsWithoutKeys(row) == [i \in DOMAIN SortedKeys |->
                             IF SortedKeys[i] \notin DOMAIN row THEN << >>
                             ELSE row[SortedKeys[i]].text]

\* One part for each key, in the order of sorted(row.keys()): f"{k}={row[k]}".
Parts(row) == [i \in DOMAIN SortedKeys |->
                  IF SortedKeys[i] \notin DOMAIN row THEN << >>
                  ELSE SortedKeys[i] \o <<"=">> \o row[SortedKeys[i]].text]

Canonical(row) == Joined(Parts(row))[Len(SortedKeys)]

compute_source_row_hash(source_id, row) == source_id \o <<"::">> \o Canonical(row)
===============================================================================
