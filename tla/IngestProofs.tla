----------------------------- MODULE IngestProofs -----------------------------
(***************************************************************************)
(* What ingest() guarantees about one call, for every set of rows and      *)
(* every number of calls.  First the loop, for which the hash and the      *)
(* normalisation stay opaque; then what these two compute.                 *)
(***************************************************************************)
EXTENDS Ingest, FiniteSetTheorems, TLAPS

\* OnePerHash and FirstOccurrences need to know that seen_hashes holds exactly
\* the hashes of what was kept.
SeenIsKept == seen_hashes = {HashOf(new_rows[a]) : a \in DOMAIN new_rows}
IInv == TypeOK /\ SeenIsKept /\ OnePerHash /\ FirstOccurrences

\* A row that ingest() builds carries the hash it was built with: the two
\* columns it adds win over columns of the source with the same names.
LEMMA OutputCarriesHash ==
    \A s, h, norm : HashOf(Output(s, h, norm)) = h
  BY DEF HashOf, Output, Str

LEMMA TypeInit == Init => TypeOK
  BY MaxCallsAssumption DEF Init, TypeOK

\* The row that KeepNew appends is one of those a call can return.
LEMMA KeptIsNewRow ==
    ASSUME TypeOK, pc = "reading", n < Len(rows)
    PROVE  /\ n + 1 \in 1..Len(rows)
           /\ Output(source_id, Hash(n + 1), normalise_row(rows[n + 1])) \in NewRow
           /\ Hash(n + 1) \in NewHash
  <1>1. n + 1 \in 1..Len(rows) /\ rows[n + 1] \in RawRows
    BY DEF TypeOK
  <1>2. Output(source_id, Hash(n + 1), normalise_row(rows[n + 1])) \in NewRow
    BY <1>1 DEF TypeOK, NewRow, Hash
  <1> QED
    BY <1>1, <1>2, OutputCarriesHash DEF NewHash

LEMMA TypeStep == ASSUME TypeOK, [Next]_vars PROVE TypeOK'
  <1>1. ASSUME NEW s \in Sources, NEW batch \in Batches, Call(s, batch) PROVE TypeOK'
    BY <1>1, BatchesAssumption, MaxCallsAssumption DEF TypeOK, Call
  <1>2. CASE SkipSeen
    BY <1>2 DEF TypeOK, SkipSeen, Turn
  <1>3. CASE KeepNew
    <2>1. seen_hashes' \subseteq NewHash /\ new_rows' \in Seq(NewRow)
      BY <1>3, KeptIsNewRow DEF TypeOK, KeepNew, Turn
    <2> QED
      BY <1>3, <2>1 DEF TypeOK, KeepNew, Turn
  <1>4. CASE Raise
    BY <1>4 DEF TypeOK, Raise
  <1>5. CASE Return
    <2>1. [source |-> source_id, rows |-> new_rows] \in Result
      BY DEF TypeOK, Result
    <2> QED
      BY <1>5, <2>1 DEF TypeOK, Return
  <1>6. CASE UNCHANGED vars
    BY <1>6 DEF TypeOK, vars
  <1> QED
    BY <1>1, <1>2, <1>3, <1>4, <1>5, <1>6 DEF Next

\* The first call, and any call that has read nothing, trivially satisfies the rest.
LEMMA NothingRead ==
    ASSUME n = 0, new_rows = << >>, seen_hashes = {}
    PROVE  SeenIsKept /\ OnePerHash /\ FirstOccurrences
  BY DEF SeenIsKept, OnePerHash, FirstOccurrences

LEMMA KeepNewStep ==
    ASSUME IInv, KeepNew
    PROVE  (SeenIsKept /\ OnePerHash /\ FirstOccurrences)'
  <1> DEFINE m == Len(new_rows)
             row == Output(source_id, Hash(n + 1), normalise_row(rows[n + 1]))
  <1> USE DEF IInv, KeepNew, Turn
  <1>1. /\ m \in Nat /\ DOMAIN new_rows = 1..m /\ n \in Nat
        /\ new_rows' = Append(new_rows, row) /\ n' = n + 1
        /\ source_id' = source_id /\ rows' = rows
    BY DEF TypeOK
  <1>2. /\ DOMAIN new_rows' = 1..(m + 1) /\ Len(new_rows') = m + 1
        /\ new_rows'[m + 1] = row
        /\ \A a \in 1..m : new_rows'[a] = new_rows[a]
    BY <1>1 DEF TypeOK
  <1>3. \A i : Hash(i)' = Hash(i)
    BY <1>1 DEF Hash
  <1>4. HashOf(row) = Hash(n + 1)
    BY OutputCarriesHash
  <1>5. \A a \in 1..m : HashOf(new_rows[a]) # Hash(n + 1)
    BY <1>1 DEF SeenIsKept
  <1>6. SeenIsKept'
    BY <1>1, <1>2, <1>4 DEF SeenIsKept
  <1>7. OnePerHash'
    <2>1. \A a, b \in 1..(m + 1) : HashOf(new_rows'[a]) = HashOf(new_rows'[b]) => a = b
      BY <1>1, <1>2, <1>4, <1>5 DEF OnePerHash
    <2>2. {HashOf(new_rows'[a]) : a \in 1..(m + 1)} = {Hash(i) : i \in 1..(n + 1)}
      <3>1. {HashOf(new_rows'[a]) : a \in 1..(m + 1)}
                = {HashOf(new_rows[a]) : a \in 1..m} \cup {Hash(n + 1)}
        BY <1>1, <1>2, <1>4
      <3>2. {Hash(i) : i \in 1..(n + 1)} = {Hash(i) : i \in 1..n} \cup {Hash(n + 1)}
        BY <1>1
      <3> QED
        BY <1>1, <3>1, <3>2 DEF OnePerHash
    <2>3. /\ \A a, b \in DOMAIN new_rows' : HashOf(new_rows'[a]) = HashOf(new_rows'[b]) => a = b
          /\ {HashOf(new_rows'[a]) : a \in DOMAIN new_rows'} = {Hash(i)' : i \in 1..n'}
      <3>1. {Hash(i)' : i \in 1..n'} = {Hash(i) : i \in 1..(n + 1)}
        BY ONLY <1>1, <1>3
      <3> QED
        BY ONLY <1>2, <2>1, <2>2, <3>1
    <2> QED
      BY ONLY <2>3 DEF OnePerHash, HashOf
  <1>8. FirstOccurrences'
    <2>1. ASSUME NEW a \in 1..m
          PROVE  \E i \in 1..(n + 1) :
                    /\ new_rows'[a] = Output(source_id, Hash(i), normalise_row(rows[i]))
                    /\ \A j \in 1..(i - 1), b \in a..(m + 1) : Hash(j) # HashOf(new_rows'[b])
      <3>1. PICK i \in 1..n :
                    /\ new_rows[a] = Output(source_id, Hash(i), normalise_row(rows[i]))
                    /\ \A j \in 1..(i - 1), b \in a..m : Hash(j) # HashOf(new_rows[b])
        BY <1>1 DEF FirstOccurrences
      <3>2. \A j \in 1..n : Hash(j) # Hash(n + 1)
        BY <1>1, <1>5 DEF OnePerHash
      <3> QED
        BY <1>1, <1>2, <1>4, <3>1, <3>2
    <2>2. \A j \in 1..n : Hash(j) # HashOf(row)
      BY <1>1, <1>4, <1>5 DEF OnePerHash
    <2>3. ASSUME NEW a \in 1..(m + 1)
          PROVE  \E i \in 1..(n + 1) :
                    /\ new_rows'[a] = Output(source_id, Hash(i), normalise_row(rows[i]))
                    /\ \A j \in 1..(i - 1), b \in a..(m + 1) : Hash(j) # HashOf(new_rows'[b])
      <3>1. CASE a = m + 1
        <4>1. /\ n + 1 \in 1..(n + 1)
              /\ \A j \in 1..((n + 1) - 1), b \in a..(m + 1) : Hash(j) # HashOf(new_rows'[b])
          BY <1>1, <1>2, <2>2, <3>1
        <4> QED
          BY <1>2, <3>1, <4>1
      <3> QED
        BY <1>1, <2>1, <3>1
    <2>4. ASSUME NEW a \in DOMAIN new_rows'
          PROVE  \E i \in 1..n' :
                    /\ new_rows'[a] = Output(source_id', Hash(i)', normalise_row(rows'[i]))
                    /\ \A j \in 1..(i - 1), b \in a..Len(new_rows') :
                          Hash(j)' # HashOf(new_rows'[b])
      <3>1. PICK i \in 1..(n + 1) :
                    /\ new_rows'[a] = Output(source_id, Hash(i), normalise_row(rows[i]))
                    /\ \A j \in 1..(i - 1), b \in a..(m + 1) : Hash(j) # HashOf(new_rows'[b])
        BY <1>2, <2>3, <2>4
      <3>2. /\ i \in 1..n'
            /\ new_rows'[a] = Output(source_id', Hash(i)', normalise_row(rows'[i]))
        BY ONLY <1>1, <1>3, <3>1
      <3>3. \A j \in 1..(i - 1), b \in a..Len(new_rows') : Hash(j)' # HashOf(new_rows'[b])
        BY ONLY <1>2, <1>3, <3>1
      <3> QED
        BY ONLY <3>2, <3>3
    <2> QED
      BY ONLY <2>4 DEF FirstOccurrences, Output, HashOf
  <1> QED
    BY <1>6, <1>7, <1>8

LEMMA SkipSeenStep ==
    ASSUME IInv, SkipSeen
    PROVE  (SeenIsKept /\ OnePerHash /\ FirstOccurrences)'
  <1> USE DEF IInv, SkipSeen, Turn
  <1>1. n \in Nat /\ n' = n + 1 /\ UNCHANGED <<source_id, rows, seen_hashes, new_rows>>
    BY DEF TypeOK
  <1>2. \A i : Hash(i)' = Hash(i)
    BY <1>1 DEF Hash
  <1>3. SeenIsKept'
    BY <1>1 DEF SeenIsKept
  <1>4. OnePerHash'
    <2>1. {Hash(i) : i \in 1..(n + 1)} = {Hash(i) : i \in 1..n} \cup {Hash(n + 1)}
      BY <1>1
    <2>2. {Hash(i) : i \in 1..(n + 1)} = {Hash(i) : i \in 1..n}
      BY <2>1 DEF SeenIsKept, OnePerHash
    <2> QED
      BY <1>1, <1>2, <2>2 DEF OnePerHash
  <1>5. FirstOccurrences'
    BY <1>1, <1>2 DEF FirstOccurrences
  <1> QED
    BY <1>3, <1>4, <1>5

LEMMA InvariantStep == ASSUME IInv, [Next]_vars PROVE IInv'
  <1>1. TypeOK'
    BY TypeStep DEF IInv
  <1>2. ASSUME NEW s \in Sources, NEW batch \in Batches, Call(s, batch)
        PROVE  (SeenIsKept /\ OnePerHash /\ FirstOccurrences)'
    BY <1>2 DEF Call, SeenIsKept, OnePerHash, FirstOccurrences
  <1>3. ASSUME Raise PROVE (SeenIsKept /\ OnePerHash /\ FirstOccurrences)'
    BY <1>3 DEF Raise, SeenIsKept, OnePerHash, FirstOccurrences
  <1>4. ASSUME UNCHANGED <<source_id, rows, n, seen_hashes, new_rows>>
        PROVE  (SeenIsKept /\ OnePerHash /\ FirstOccurrences)'
    <2>1. \A i : Hash(i)' = Hash(i)
      BY <1>4 DEF Hash
    <2>2. /\ source_id' = source_id /\ rows' = rows /\ n' = n
          /\ seen_hashes' = seen_hashes /\ new_rows' = new_rows
      BY <1>4
    <2>3. SeenIsKept /\ OnePerHash /\ FirstOccurrences
      BY DEF IInv
    <2>4. SeenIsKept'
      BY <2>2, <2>3 DEF SeenIsKept
    <2>5. OnePerHash'
      <3>1. {Hash(i)' : i \in 1..n'} = {Hash(i) : i \in 1..n}
        BY <2>1, <2>2
      <3> QED
        BY <2>2, <2>3, <3>1 DEF OnePerHash
    <2>6. FirstOccurrences'
      BY <2>1, <2>2, <2>3 DEF FirstOccurrences
    <2> QED
      BY <2>4, <2>5, <2>6
  <1>5. ASSUME Return \/ UNCHANGED vars
        PROVE  (SeenIsKept /\ OnePerHash /\ FirstOccurrences)'
    BY <1>4, <1>5 DEF Return, vars
  <1>6. (SeenIsKept /\ OnePerHash /\ FirstOccurrences)'
    BY <1>2, <1>3, <1>5, SkipSeenStep, KeepNewStep DEF Next
  <1> QED
    BY <1>1, <1>6 DEF IInv

LEMMA Invariance == Spec => []IInv
  <1>1. Init => IInv
    BY TypeInit, NothingRead DEF Init, IInv
  <1> QED
    BY <1>1, InvariantStep, PTL DEF Spec

\* The hashes of a result, in the order of its rows.
Hashes(result) == [a \in DOMAIN result.rows |-> HashOf(result.rows[a])]

\* ingest.py:57-68.  What a call returned is a batch of distinct hashes.
ResultsAreBatches == \A c \in DOMAIN returned : IsInjective(Hashes(returned[c]))

LEMMA ResultsInit == Init => ResultsAreBatches
  BY DEF Init, ResultsAreBatches

LEMMA ResultsStep == ASSUME IInv, ResultsAreBatches, [Next]_vars PROVE ResultsAreBatches'
  <1>1. CASE Return
    <2> DEFINE result == [source |-> source_id, rows |-> new_rows]
    <2>1. IsInjective(Hashes(result))
      BY DEF IInv, OnePerHash, Hashes, IsInjective
    <2>2. \A c \in DOMAIN returned' : returned'[c] = result \/ (c \in DOMAIN returned /\ returned'[c] = returned[c])
      BY <1>1 DEF Return, IInv, TypeOK
    <2> HIDE DEF result
    <2>3. ASSUME NEW c \in DOMAIN returned' PROVE IsInjective(Hashes(returned'[c]))
      BY <2>1, <2>2 DEF ResultsAreBatches
    <2> QED
      BY ONLY <2>3 DEF ResultsAreBatches, Hashes, HashOf, IsInjective
  <1>2. ASSUME returned' = returned PROVE ResultsAreBatches'
    <2>1. ASSUME NEW c \in DOMAIN returned' PROVE IsInjective(Hashes(returned'[c]))
      BY <1>2 DEF ResultsAreBatches
    <2> QED
      BY ONLY <2>1 DEF ResultsAreBatches, Hashes, HashOf, IsInjective
  <1> QED
    BY <1>1, <1>2 DEF Next, vars, Call, SkipSeen, KeepNew, Turn, Raise

\* Every result of ingest() is what the store assumes of a delivery: a sequence
\* of hashes without repetition (DeliveriesAssumption of IngestStore).
THEOREM ReturnsBatches == Spec => []ResultsAreBatches
  BY Invariance, ResultsInit, ResultsStep, PTL DEF Spec

\* Type correctness of the loop, for every set of sources, rows and batches.
THEOREM TypeCorrect == Spec => []TypeOK
  BY Invariance, PTL DEF IInv

\* Deduplication within a call: what is kept is one row per distinct hash read.
THEOREM KeepsOnePerHash == Spec => []OnePerHash
  BY Invariance, PTL DEF IInv

\* The kept row is the first with its hash, and the order of input is kept.
THEOREM KeepsFirstOccurrences == Spec => []FirstOccurrences
  BY Invariance, PTL DEF IInv

-------------------------------------------------------------------------------
(* Normalising is idempotent.  First what Min and Max return, then strip,   *)
(* lower-casing and coercion one after the other.                           *)

LessThan == {ss \in Nat \X Nat : ss[1] < ss[2]}

\* A nonempty set of natural numbers has a least one.
LEMMA Least ==
    ASSUME NEW T \in SUBSET Nat, T # {}
    PROVE  \E x \in T : \A y \in T : x =< y
  <1>1. IsWellFoundedOn(LessThan, Nat)
    BY NatLessThanWellFounded DEF OpToRel, LessThan
  <1>2. PICK x \in T : \A y \in T : ~(<<y, x>> \in LessThan)
    BY <1>1, WFMin
  <1>3. ASSUME NEW y \in T PROVE x =< y
    <2>1. y < x => <<y, x>> \in LessThan
      BY DEF LessThan
    <2> QED
      BY <1>2, <2>1
  <1> QED
    BY <1>3

\* A nonempty set of positions has a first and a last member.
LEMMA Extremes ==
    ASSUME NEW m \in Nat, NEW S \in SUBSET (1..m), S # {}
    PROVE  /\ Min(S) \in S /\ \A y \in S : Min(S) =< y
           /\ Max(S) \in S /\ \A y \in S : Max(S) >= y
  <1>1. \E x \in S : \A y \in S : x =< y
    BY Least
  <1>2. \E x \in S : \A y \in S : x >= y
    <2> DEFINE T == {t \in Nat : \E y \in S : t = m - y}
    <2>1. T \in SUBSET Nat /\ T # {}
      <3>1. PICK y \in S : TRUE
        OBVIOUS
      <3>2. m - y \in T
        BY <3>1
      <3> QED
        BY <3>2
    <2>2. PICK t \in T : \A u \in T : t =< u
      BY <2>1, Least
    <2>3. PICK x \in S : t = m - x
      OBVIOUS
    <2>4. ASSUME NEW y \in S PROVE x >= y
      <3>1. m - y \in T /\ x \in 1..m /\ y \in 1..m
        OBVIOUS
      <3>2. m - x =< m - y
        BY <2>2, <2>3, <3>1
      <3> QED
        BY <3>1, <3>2
    <2> QED
      BY <2>4
  <1>3. Min(S) \in S /\ \A y \in S : Min(S) =< y
    BY <1>1 DEF Min
  <1>4. Max(S) \in S /\ \A y \in S : Max(S) >= y
    BY <1>2 DEF Max
  <1> QED
    BY <1>3, <1>4

\* A text that strip() leaves as it is.
Trimmed(text) == text # << >> => text[1] # Blank /\ text[Len(text)] # Blank

LEMMA StripTrims ==
    ASSUME NEW text \in Text
    PROVE  Strip(text) \in Text /\ Trimmed(Strip(text))
  <1> DEFINE ink == {i \in DOMAIN text : text[i] # Blank}
             first == Min(ink)
             last == Max(ink)
  <1>1. CASE ink = {}
    BY <1>1 DEF Strip, Trimmed, Text
  <1>2. CASE ink # {}
    <2>1. Len(text) \in Nat /\ ink \in SUBSET (1..Len(text))
      BY DEF Text
    <2>2. first \in ink /\ last \in ink /\ first =< last
      BY <1>2, <2>1, Extremes
    <2> HIDE DEF first, last
    <2>3. /\ first \in 1..Len(text) /\ last \in 1..Len(text)
          /\ text[first] # Blank /\ text[last] # Blank
      BY <2>1, <2>2
    <2>4. /\ SubSeq(text, first, last) \in Text
          /\ Len(SubSeq(text, first, last)) = last - first + 1
          /\ \A i \in 1..(last - first + 1) : SubSeq(text, first, last)[i] = text[first + i - 1]
      BY <2>1, <2>2, <2>3 DEF Text
    <2>5. Trimmed(SubSeq(text, first, last))
      BY <2>2, <2>3, <2>4 DEF Trimmed
    <2> QED
      BY <1>2, <2>4, <2>5 DEF Strip, first, last
  <1> QED
    BY <1>1, <1>2

LEMMA StripKeepsTrimmed ==
    ASSUME NEW text \in Text, Trimmed(text)
    PROVE  Strip(text) = text
  <1> DEFINE ink == {i \in DOMAIN text : text[i] # Blank}
  <1>1. CASE text = << >>
    BY <1>1 DEF Strip
  <1>2. CASE text # << >>
    <2>1. /\ Len(text) \in Nat /\ Len(text) >= 1 /\ ink \in SUBSET (1..Len(text))
          /\ 1 \in ink /\ Len(text) \in ink
      BY <1>2 DEF Text, Trimmed
    <2>2. /\ Min(ink) \in 1..Len(text) /\ Min(ink) =< 1
          /\ Max(ink) \in 1..Len(text) /\ Max(ink) >= Len(text)
      <3>1. ink # {}
        BY <2>1
      <3> HIDE DEF ink
      <3> QED
        BY <2>1, <3>1, Extremes
    <2>3. Min(ink) = 1 /\ Max(ink) = Len(text)
      BY <2>1, <2>2
    <2>4. SubSeq(text, 1, Len(text)) = text
      BY DEF Text
    <2> QED
      BY <2>1, <2>3, <2>4 DEF Strip
  <1> QED
    BY <1>1, <1>2

\* A key that has been stripped and lower-cased is left alone from then on.
LEMMA KeyFixed ==
    ASSUME NEW text \in Text
    PROVE  LowerCase(Strip(LowerCase(Strip(text)))) = LowerCase(Strip(text))
  <1> DEFINE inner == Strip(text)
             key == LowerCase(inner)
  <1>1. inner \in Text /\ Trimmed(inner)
    BY StripTrims
  <1> HIDE DEF inner
  <1>2. \A i \in DOMAIN inner : inner[i] \in DOMAIN Lower
    BY <1>1 DEF Text
  <1>3. /\ key \in Text /\ Len(key) = Len(inner)
        /\ DOMAIN key = DOMAIN inner /\ \A i \in DOMAIN inner : key[i] = Lower[inner[i]]
    BY <1>1, <1>2, LowerAssumption DEF LowerCase, Text
  <1>4. Trimmed(key)
    BY <1>1, <1>2, <1>3, LowerAssumption DEF Trimmed, Text
  <1>5. LowerCase(key) = key
    <2>1. \A i \in DOMAIN key : Lower[key[i]] = key[i]
      BY <1>2, <1>3, LowerAssumption
    <2> QED
      BY <1>3, <2>1 DEF LowerCase
  <1>6. LowerCase(Strip(key)) = key
    BY <1>3, <1>4, <1>5, StripKeepsTrimmed
  <1> QED
    BY <1>6 DEF inner

\* A coerced value is left alone too: it is no string, or a string that is
\* trimmed and is none of the literals.
LEMMA CoercedFixed ==
    ASSUME NEW value, value.text \in Text
    PROVE  Coerce(Coerce(value)) = Coerce(value)
  <1> DEFINE inner == Strip(value.text)
  <1>2. CASE Coerce(value).type # "str"
    <2>1. ASSUME NEW v, v.type # "str" PROVE Coerce(v) = v
      BY <2>1 DEF Coerce
    <2> QED
      BY <1>2, <2>1
  <1>3. CASE Coerce(value).type = "str"
    <2>1. /\ value.type = "str"
          /\ LowerCase(inner) # <<"true">> /\ LowerCase(inner) # <<"false">>
          /\ inner \notin DOMAIN IntLiteral /\ inner \notin DOMAIN FloatLiteral
          /\ Coerce(value) = Str(inner)
      BY <1>3 DEF Coerce
    <2>2. Strip(inner) = inner
      BY StripTrims, StripKeepsTrimmed
    <2>3. Str(inner).text = inner /\ Str(inner).type = "str"
      BY DEF Str
    <2> QED
      BY <2>1, <2>2, <2>3 DEF Coerce
  <1> QED
    BY <1>2, <1>3

\* An order of a finite set of columns misses none of them.
LEMMA OrderIsComplete ==
    ASSUME NEW S, IsFiniteSet(S), NEW ks \in SetToSeqs(S)
    PROVE  /\ Cardinality(S) \in Nat /\ DOMAIN ks = 1..Cardinality(S)
           /\ {ks[i] : i \in DOMAIN ks} = S
  <1>1. Cardinality(S) \in Nat
    BY FS_CardinalityType
  <1>2. /\ ks \in Injection(1..Cardinality(S), S)
        /\ Cardinality(1..Cardinality(S)) = Cardinality(S)
    <2>1. Cardinality(1..Cardinality(S)) = Cardinality(S)
      BY <1>1, FS_Interval
    <2>2. /\ ks \in [1..Cardinality(S) -> S]
          /\ \A i, j \in 1..Cardinality(S) : ks[i] = ks[j] => i = j
      BY DEF SetToSeqs
    <2> QED
      BY <2>1, <2>2 DEF Injection, IsInjective
  <1>3. ks \in Surjection(1..Cardinality(S), S)
    BY <1>2, FS_Injection
  <1> QED
    BY <1>1, <1>3 DEF Surjection

LEMMA CellsAreText ==
    ASSUME NEW raw \in RawRows
    PROVE  /\ Len(raw) \in Nat /\ DOMAIN raw = 1..Len(raw)
           /\ \A i \in DOMAIN raw : raw[i].key \in Text /\ raw[i].value.text \in Text
  <1> DEFINE Cell == [key : Text, value : [type : STRING, text : Text]]
  <1>1. raw \in Seq(Cell)
    BY RawRowsAssumption
  <1>2. \A c \in Cell : c.key \in Text /\ c.value.text \in Text
    OBVIOUS
  <1> HIDE DEF Cell
  <1>3. Len(raw) \in Nat /\ DOMAIN raw = 1..Len(raw) /\ \A i \in DOMAIN raw : raw[i] \in Cell
    BY <1>1
  <1> QED
    BY <1>2, <1>3

LEMMA RowFixed ==
    ASSUME NEW raw \in RawRows, NEW ks \in SetToSeqs(DOMAIN normalise_row(raw))
    PROVE  normalise_row(Items(normalise_row(raw), ks)) = normalise_row(raw)
  <1> DEFINE Key(i) == LowerCase(Strip(raw[i].key))
             norm == normalise_row(raw)
             items == Items(norm, ks)
  <1>1. /\ Len(raw) \in Nat /\ DOMAIN raw = 1..Len(raw)
        /\ \A i \in DOMAIN raw : raw[i].key \in Text /\ raw[i].value.text \in Text
    BY CellsAreText
  <1>2. /\ DOMAIN norm = {Key(i) : i \in DOMAIN raw}
        /\ \A k \in DOMAIN norm :
              norm[k] = Coerce(raw[Max({i \in DOMAIN raw : Key(i) = k})].value)
    BY DEF normalise_row
  <1>3. \A k \in DOMAIN norm : LowerCase(Strip(k)) = k
    BY <1>1, <1>2, KeyFixed
  <1>4. ASSUME NEW k \in DOMAIN norm PROVE Coerce(norm[k]) = norm[k]
    <2> DEFINE same == {i \in DOMAIN raw : Key(i) = k}
    <2>1. same # {} /\ same \in SUBSET (1..Len(raw))
      BY <1>1, <1>2
    <2>2. Max(same) \in same
      BY <1>1, <2>1, Extremes
    <2> QED
      BY <1>1, <1>2, <2>2, CoercedFixed
  <1>5. IsFiniteSet(DOMAIN norm)
    <2> DEFINE f == [i \in 1..Len(raw) |-> Key(i)]
    <2>1. f \in Surjection(1..Len(raw), DOMAIN norm)
      BY <1>1, <1>2 DEF Surjection
    <2> QED
      BY <1>1, <2>1, FS_Interval, FS_Surjection
  <1>6. /\ Cardinality(DOMAIN norm) \in Nat /\ DOMAIN ks = 1..Cardinality(DOMAIN norm)
        /\ {ks[i] : i \in DOMAIN ks} = DOMAIN norm
    BY <1>5, OrderIsComplete
  <1> HIDE DEF norm
  <1>7. /\ DOMAIN items = DOMAIN ks
        /\ \A i \in DOMAIN ks : items[i].key = ks[i] /\ items[i].value = norm[ks[i]]
    BY DEF Items
  <1> HIDE DEF items
  <1>8. \A i \in DOMAIN items : LowerCase(Strip(items[i].key)) = ks[i]
    BY <1>3, <1>6, <1>7
  <1>9. {LowerCase(Strip(items[i].key)) : i \in DOMAIN items} = DOMAIN norm
    <2>1. {LowerCase(Strip(items[i].key)) : i \in DOMAIN items} = {ks[i] : i \in DOMAIN items}
      BY <1>8
    <2> QED
      BY <1>6, <1>7, <2>1
  <1>10. ASSUME NEW k \in DOMAIN norm
         PROVE  Coerce(items[Max({i \in DOMAIN items : LowerCase(Strip(items[i].key)) = k})].value)
                    = norm[k]
    <2> DEFINE same == {i \in DOMAIN items : LowerCase(Strip(items[i].key)) = k}
    <2>1. same # {} /\ same \in SUBSET (1..Cardinality(DOMAIN norm))
      BY <1>6, <1>7, <1>9
    <2>2. Max(same) \in same
      BY <1>6, <2>1, Extremes
    <2> QED
      BY <1>4, <1>7, <1>8, <2>2
  <1>11. normalise_row(items) = [k \in DOMAIN norm |-> norm[k]]
    BY <1>9, <1>10 DEF normalise_row
  <1>12. norm = [k \in DOMAIN norm |-> norm[k]]
    BY DEF norm, normalise_row
  <1> QED
    BY <1>11, <1>12 DEF items, norm

\* A normalised row that is ingested again, its columns in any order,
\* normalises to itself.
THEOREM NormalisesOnce == Spec => []NormalisedOnce
  <1>1. TypeOK => NormalisedOnce
    <2> SUFFICES ASSUME TypeOK, NEW i \in 1..n,
                        NEW ks \in SetToSeqs(DOMAIN normalise_row(rows[i]))
                 PROVE  normalise_row(Items(normalise_row(rows[i]), ks)) = normalise_row(rows[i])
      BY DEF NormalisedOnce
    <2>1. rows[i] \in RawRows
      BY DEF TypeOK
    <2> QED
      BY <2>1, RowFixed
  <1> QED
    BY <1>1, TypeCorrect, PTL

-------------------------------------------------------------------------------
(* The key separates rows without delimiters.  First the join, a recursion  *)
(* over the parts; what it computes is shown by taking the least number of   *)
(* parts for which the claim fails.                                          *)

Prefix(before) == IF before = << >> THEN << >> ELSE before \o <<"|">>
JoinsTo(parts, f, m) ==
    f = [i \in 0..m |-> IF i = 0 THEN << >>
                        ELSE IF parts[i] = << >> THEN f[i - 1]
                        ELSE Prefix(f[i - 1]) \o parts[i]]

LEMMA Concatenation ==
    ASSUME NEW s \in Text, NEW t \in Text
    PROVE  /\ s \o t \in Text /\ Len(s \o t) = Len(s) + Len(t) /\ Len(s) \in Nat /\ Len(t) \in Nat
           /\ \A i \in 1..Len(s) : (s \o t)[i] = s[i]
           /\ \A i \in 1..Len(t) : (s \o t)[Len(s) + i] = t[i]
  BY DEF Text

LEMMA SameText ==
    ASSUME NEW s \in Text, NEW t \in Text, Len(s) = Len(t), \A i \in 1..Len(s) : s[i] = t[i]
    PROVE  s = t
  <1>1. s = [i \in 1..Len(s) |-> s[i]] /\ t = [i \in 1..Len(t) |-> t[i]]
    BY DEF Text
  <1> QED
    BY <1>1

\* What separates the parts, and what separates a key from its value.
LEMMA Delimiters ==
    /\ <<"|">> \in Text /\ Len(<<"|">>) = 1 /\ <<"|">>[1] = "|"
    /\ <<"=">> \in Text /\ Len(<<"=">>) = 1 /\ <<"=">>[1] = "="
    /\ << >> \in Text
  BY TokensAssumption DEF Text

LEMMA PrefixType ==
    ASSUME NEW s \in Text
    PROVE  /\ Prefix(s) \in Text
           /\ Len(Prefix(s)) # 0 => Prefix(s)[Len(Prefix(s))] = "|"
  <1>1. CASE s = << >>
    BY <1>1, Delimiters DEF Prefix
  <1>2. CASE s # << >>
    <2>1. /\ s \o <<"|">> \in Text /\ Len(s \o <<"|">>) = Len(s) + 1
          /\ (s \o <<"|">>)[Len(s) + 1] = "|"
      BY Concatenation, Delimiters
    <2> QED
      BY <1>2, <2>1 DEF Prefix
  <1> QED
    BY <1>1, <1>2

LEMMA PrefixInjective ==
    ASSUME NEW s \in Text, NEW t \in Text, Prefix(s) = Prefix(t)
    PROVE  s = t
  <1>1. \A u \in Text : /\ Len(u \o <<"|">>) = Len(u) + 1 /\ Len(u) \in Nat
                         /\ \A i \in 1..Len(u) : (u \o <<"|">>)[i] = u[i]
    BY Concatenation, Delimiters
  <1>2. Len(<< >>) = 0
    OBVIOUS
  <1>3. CASE s = << >> \/ t = << >>
    <2>1. \A u \in Text : u \o <<"|">> # << >>
      BY <1>1, <1>2
    <2> QED
      BY <1>3, <2>1 DEF Prefix
  <1>4. CASE s # << >> /\ t # << >>
    <2>1. s \o <<"|">> = t \o <<"|">>
      BY <1>4 DEF Prefix
    <2>2. Len(s) = Len(t)
      BY <1>1, <2>1
    <2>3. \A i \in 1..Len(s) : s[i] = t[i]
      BY <1>1, <2>1, <2>2
    <2> QED
      BY <2>2, <2>3, SameText
  <1> QED
    BY <1>3, <1>4

LEMMA JoinExists ==
    ASSUME NEW parts, NEW len \in Nat
    PROVE  \E f : JoinsTo(parts, f, len)
  <1> DEFINE Bad == {m \in Nat : ~\E f : JoinsTo(parts, f, m)}
  <1>1. SUFFICES ASSUME Bad # {} PROVE FALSE
    OBVIOUS
  <1>2. PICK m \in Bad : \A y \in Bad : m =< y
    BY <1>1, Least
  <1>3. m # 0
    <2> DEFINE f == [i \in 0..0 |-> << >>]
    <2>1. JoinsTo(parts, f, 0)
      BY DEF JoinsTo
    <2> QED
      BY <2>1
  <1>4. PICK h : JoinsTo(parts, h, m - 1)
    BY <1>2, <1>3
  <1> DEFINE last == IF parts[m] = << >> THEN h[m - 1] ELSE Prefix(h[m - 1]) \o parts[m]
             f == [i \in 0..m |-> IF i = m THEN last ELSE h[i]]
  <1>5. ASSUME NEW i \in 0..m
        PROVE  f[i] = IF i = 0 THEN << >>
                      ELSE IF parts[i] = << >> THEN f[i - 1] ELSE Prefix(f[i - 1]) \o parts[i]
    <2>1. CASE i = m
      <3>1. m - 1 \in 0..m /\ m - 1 # m /\ f[m - 1] = h[m - 1]
        BY <1>2, <1>3
      <3> QED
        BY <1>2, <1>3, <2>1, <3>1
    <2>2. CASE i # m
      <3>1. /\ i \in 0..(m - 1) /\ f[i] = h[i]
            /\ i # 0 => (i - 1 \in 0..m /\ i - 1 # m)
        BY <2>2
      <3>2. h[i] = IF i = 0 THEN << >>
                   ELSE IF parts[i] = << >> THEN h[i - 1] ELSE Prefix(h[i - 1]) \o parts[i]
        <4>1. \A j \in 0..(m - 1) :
                 h[j] = IF j = 0 THEN << >>
                        ELSE IF parts[j] = << >> THEN h[j - 1] ELSE Prefix(h[j - 1]) \o parts[j]
          BY <1>4 DEF JoinsTo
        <4> QED
          BY <3>1, <4>1
      <3>3. i # 0 => f[i - 1] = h[i - 1]
        BY <3>1
      <3> QED
        BY <3>1, <3>2, <3>3
    <2> QED
      BY <2>1, <2>2
  <1>6. JoinsTo(parts, f, m)
    <2>1. f = [i \in 0..m |-> f[i]]
      OBVIOUS
    <2> HIDE DEF f
    <2> QED
      BY <1>5, <2>1 DEF JoinsTo
  <1> QED
    BY <1>2, <1>6

LEMMA JoinedEquation ==
    ASSUME NEW parts, Len(parts) \in Nat
    PROVE  /\ Joined(parts)[0] = << >>
           /\ \A i \in 1..Len(parts) :
                 Joined(parts)[i] = IF parts[i] = << >> THEN Joined(parts)[i - 1]
                                    ELSE Prefix(Joined(parts)[i - 1]) \o parts[i]
  <1>1. JoinsTo(parts, Joined(parts), Len(parts))
    BY JoinExists DEF Joined, JoinsTo, Prefix
  <1> DEFINE f == Joined(parts)
  <1> HIDE DEF f
  <1>2. \A i \in 0..Len(parts) :
           f[i] = IF i = 0 THEN << >>
                  ELSE IF parts[i] = << >> THEN f[i - 1] ELSE Prefix(f[i - 1]) \o parts[i]
    BY <1>1 DEF JoinsTo, f
  <1>3. f[0] = << >> /\ \A i \in 1..Len(parts) :
           f[i] = IF parts[i] = << >> THEN f[i - 1] ELSE Prefix(f[i - 1]) \o parts[i]
    BY <1>2
  <1> QED
    BY <1>3 DEF f

\* A join is a sequence; unless it is empty it ends in one of the parts, which
\* stands at its beginning or behind a "|".
LEMMA JoinEnds ==
    ASSUME NEW parts \in Seq(Text), NEW len \in 0..Len(parts)
    PROVE  LET f == Joined(parts) IN
           /\ f[len] \in Text
           /\ f[len] # << >> =>
                 \E m \in 1..len, before \in Text :
                    parts[m] # << >> /\ f[len] = Prefix(before) \o parts[m]
  <1> DEFINE f == Joined(parts)
             Claim(k) == /\ f[k] \in Text
                         /\ f[k] # << >> =>
                               \E m \in 1..k, before \in Text :
                                  parts[m] # << >> /\ f[k] = Prefix(before) \o parts[m]
             Bad == {k \in 0..Len(parts) : ~Claim(k)}
  <1>1. Len(parts) \in Nat /\ \A i \in 1..Len(parts) : parts[i] \in Text
    OBVIOUS
  <1>2. /\ f[0] = << >>
        /\ \A i \in 1..Len(parts) :
              f[i] = IF parts[i] = << >> THEN f[i - 1] ELSE Prefix(f[i - 1]) \o parts[i]
    BY <1>1, JoinedEquation
  <1> HIDE DEF f
  <1>3. << >> \in Text /\ \A s, t \in Text : Prefix(s) \in Text /\ s \o t \in Text
    BY PrefixType, Concatenation, Delimiters
  <1>4. SUFFICES ASSUME Bad # {} PROVE FALSE
    BY DEF f
  <1>5. PICK k \in Bad : \A y \in Bad : k =< y
    <2>1. Bad \in SUBSET Nat
      BY <1>1
    <2> QED
      BY <1>4, <2>1, Least
  <1>6. k # 0
    BY <1>2, <1>3
  <1> HIDE DEF Claim
  <1>7. k \in 1..Len(parts) /\ k - 1 \in 0..Len(parts) /\ ~(k =< k - 1)
    BY <1>1, <1>5, <1>6
  <1>8. Claim(k - 1)
    BY <1>5, <1>7
  <1> USE DEF Claim
  <1>9. CASE parts[k] = << >>
    <2>1. f[k] = f[k - 1]
      BY <1>2, <1>7, <1>9
    <2>2. 1..(k - 1) \subseteq 1..k
      BY <1>7
    <2>3. Claim(k)
      BY <1>8, <2>1, <2>2
    <2> QED
      BY <2>3
  <1>10. CASE parts[k] # << >>
    <2>1. f[k] = Prefix(f[k - 1]) \o parts[k]
      BY <1>2, <1>7, <1>10
    <2>2. f[k - 1] \in Text /\ f[k] \in Text
      <3>1. f[k - 1] \in Text
        BY <1>8
      <3> QED
        BY <1>1, <1>3, <1>7, <2>1, <3>1
    <2>3. k \in 1..k
      BY <1>7
    <2>4. \E m \in 1..k, before \in Text :
             parts[m] # << >> /\ f[k] = Prefix(before) \o parts[m]
      BY <1>10, <2>1, <2>2, <2>3
    <2>5. Claim(k)
      BY <2>2, <2>4
    <2> QED
      BY <1>5, <2>5
  <1> QED
    BY <1>9, <1>10

\* One part of a canonical form: a key, "=" and a value, behind what comes before.
Piece(before, key, text) == Prefix(before) \o (key \o <<"=">> \o text)
Plain(text) == \A i \in DOMAIN text : text[i] \notin {"|", "="}

\* Where the tokens of such a piece stand.
Layout(s, before, key, text) ==
    LET len == Len(Prefix(before)) IN
    /\ len \in Nat /\ s \in Text
    /\ Len(s) = len + Len(key) + 1 + Len(text)
    /\ \A i \in 1..len : s[i] = Prefix(before)[i]
    /\ \A i \in 1..Len(key) : s[len + i] = key[i]
    /\ s[len + Len(key) + 1] = "="
    /\ \A i \in 1..Len(text) : s[len + Len(key) + 1 + i] = text[i]
    /\ len # 0 => s[len] = "|"

LEMMA PieceLayout ==
    ASSUME NEW before \in Text, NEW key \in Text, NEW text \in Text
    PROVE  Layout(Piece(before, key, text), before, key, text)
  <1> DEFINE p == Prefix(before)
             len == Len(p)
             head == key \o <<"=">>
             part == head \o text
             s == p \o part
  <1>1. p \in Text /\ len \in Nat
    BY PrefixType, Concatenation
  <1>2. len # 0 => p[len] = "|"
    BY PrefixType
  <1> HIDE DEF p
  <1>3. /\ head \in Text /\ Len(head) = Len(key) + 1 /\ Len(key) \in Nat
        /\ \A i \in 1..Len(key) : head[i] = key[i]
        /\ head[Len(key) + 1] = "="
    BY Concatenation, Delimiters
  <1> HIDE DEF head
  <1>4. /\ part \in Text /\ Len(part) = Len(key) + 1 + Len(text) /\ Len(text) \in Nat
        /\ \A i \in 1..(Len(key) + 1) : part[i] = head[i]
        /\ \A i \in 1..Len(text) : part[Len(key) + 1 + i] = text[i]
    <2>1. /\ part \in Text /\ Len(part) = Len(head) + Len(text) /\ Len(text) \in Nat
          /\ \A i \in 1..Len(head) : part[i] = head[i]
          /\ \A i \in 1..Len(text) : part[Len(head) + i] = text[i]
      BY <1>3, Concatenation
    <2> HIDE DEF part
    <2> QED
      BY <1>3, <2>1
  <1> HIDE DEF part
  <1>5. /\ s \in Text /\ Len(s) = len + Len(part)
        /\ \A i \in 1..len : s[i] = p[i]
        /\ \A i \in 1..Len(part) : s[len + i] = part[i]
    <2>2. /\ s \in Text /\ Len(s) = Len(p) + Len(part)
          /\ \A i \in 1..Len(p) : s[i] = p[i]
          /\ \A i \in 1..Len(part) : s[Len(p) + i] = part[i]
      BY <1>1, <1>4, Concatenation
    <2> QED
      BY <2>2
  <1> HIDE DEF s
  <1>6. \A i \in 1..Len(key) : i \in 1..(Len(key) + 1) /\ i \in 1..Len(part)
    BY <1>3, <1>4
  <1>7. Len(key) + 1 \in 1..Len(part) /\ Len(key) + 1 \in 1..(Len(key) + 1)
    BY <1>3, <1>4
  <1>8. \A i \in 1..Len(text) : /\ Len(key) + 1 + i \in 1..Len(part)
                                /\ len + (Len(key) + 1 + i) = len + Len(key) + 1 + i
    BY <1>1, <1>3, <1>4
  <1>9. /\ s \in Text
        /\ Len(s) = len + Len(key) + 1 + Len(text)
        /\ \A i \in 1..len : s[i] = p[i]
        /\ \A i \in 1..Len(key) : s[len + i] = key[i]
        /\ len # 0 => s[len] = "|"
    BY <1>1, <1>2, <1>3, <1>4, <1>5, <1>6
  <1>10. s[len + Len(key) + 1] = "="
    <2>1. s[len + (Len(key) + 1)] = part[Len(key) + 1]
      BY <1>5, <1>7
    <2>2. len + (Len(key) + 1) = len + Len(key) + 1
      BY <1>1, <1>3
    <2> QED
      BY <1>3, <1>4, <1>7, <2>1, <2>2
  <1>11. \A i \in 1..Len(text) : s[len + Len(key) + 1 + i] = text[i]
    BY <1>4, <1>5, <1>8
  <1> QED
    BY <1>1, <1>9, <1>10, <1>11 DEF Layout, Piece, s, part, head, p

\* A piece can be read in one way only, when its key and its value are plain.
LEMMA PieceUnique ==
    ASSUME NEW b1 \in Text, NEW k1 \in Text, NEW t1 \in Text, Plain(k1), Plain(t1),
           NEW b2 \in Text, NEW k2 \in Text, NEW t2 \in Text, Plain(k2), Plain(t2),
           Piece(b1, k1, t1) = Piece(b2, k2, t2)
    PROVE  Prefix(b1) = Prefix(b2) /\ k1 = k2 /\ t1 = t2
  <1> DEFINE s == Piece(b1, k1, t1)
             n1 == Len(Prefix(b1))
             n2 == Len(Prefix(b2))
             e1 == n1 + Len(k1) + 1
             e2 == n2 + Len(k2) + 1
  <1>1. /\ n1 \in Nat /\ Len(s) = n1 + Len(k1) + 1 + Len(t1)
        /\ \A i \in 1..n1 : s[i] = Prefix(b1)[i]
        /\ \A i \in 1..Len(k1) : s[n1 + i] = k1[i]
        /\ s[e1] = "="
        /\ \A i \in 1..Len(t1) : s[e1 + i] = t1[i]
        /\ n1 # 0 => s[n1] = "|"
    <2>1. Layout(s, b1, k1, t1)
      BY PieceLayout
    <2> HIDE DEF s
    <2> QED
      BY <2>1 DEF Layout
  <1>2. /\ n2 \in Nat /\ Len(s) = n2 + Len(k2) + 1 + Len(t2)
        /\ \A i \in 1..n2 : s[i] = Prefix(b2)[i]
        /\ \A i \in 1..Len(k2) : s[n2 + i] = k2[i]
        /\ s[e2] = "="
        /\ \A i \in 1..Len(t2) : s[e2 + i] = t2[i]
        /\ n2 # 0 => s[n2] = "|"
    <2>1. Layout(s, b2, k2, t2)
      BY PieceLayout
    <2> HIDE DEF s
    <2> QED
      BY <2>1 DEF Layout
  <1> HIDE DEF s
  <1>3. \A text \in {k1, t1, k2, t2} :
           /\ Len(text) \in Nat
           /\ \A i \in 1..Len(text) : text[i] # "|" /\ text[i] # "="
    BY DEF Plain, Text
  <1>4. Len(k1) \in Nat /\ Len(t1) \in Nat /\ Len(k2) \in Nat /\ Len(t2) \in Nat
    BY <1>3
  <1> HIDE DEF n1, n2
  \* The last "=" is in one place.
  <1>5. e1 = e2
    <2>1. ~(e1 < e2)
      <3>1. e1 < e2 => e2 - e1 \in 1..Len(t1) /\ e1 + (e2 - e1) = e2
        BY <1>1, <1>2, <1>4
      <3> QED
        BY <1>1, <1>2, <1>3, <3>1
    <2>2. ~(e2 < e1)
      <3>1. e2 < e1 => e1 - e2 \in 1..Len(t2) /\ e2 + (e1 - e2) = e1
        BY <1>1, <1>2, <1>4
      <3> QED
        BY <1>1, <1>2, <1>3, <3>1
    <2>3. e1 \in Nat /\ e2 \in Nat
      BY <1>1, <1>2, <1>4
    <2> QED
      BY <2>1, <2>2, <2>3
  \* And so is the "|" before the key.
  <1>6. n1 = n2
    <2>1. ~(n1 < n2)
      <3>1. n1 < n2 => n2 - n1 \in 1..Len(k1) /\ n1 + (n2 - n1) = n2 /\ n2 # 0
        BY <1>1, <1>2, <1>4, <1>5
      <3> QED
        BY <1>1, <1>2, <1>3, <3>1
    <2>2. ~(n2 < n1)
      <3>1. n2 < n1 => n1 - n2 \in 1..Len(k2) /\ n2 + (n1 - n2) = n1 /\ n1 # 0
        BY <1>1, <1>2, <1>4, <1>5
      <3> QED
        BY <1>1, <1>2, <1>3, <3>1
    <2> QED
      BY <1>1, <1>2, <2>1, <2>2
  <1>7. Len(k1) = Len(k2) /\ Len(t1) = Len(t2)
    BY <1>1, <1>2, <1>4, <1>5, <1>6
  <1>9. k1 = k2
    BY <1>1, <1>2, <1>6, <1>7, SameText
  <1>10. t1 = t2
    <2>1. \A i \in 1..Len(t1) : t1[i] = s[e1 + i] /\ t2[i] = s[e1 + i]
      BY <1>1, <1>2, <1>5, <1>7
    <2> QED
      BY <1>7, <2>1, SameText
  <1>11. Prefix(b1) = Prefix(b2)
    <2>1. Prefix(b1) \in Text /\ Prefix(b2) \in Text /\ Len(Prefix(b1)) = n1 /\ Len(Prefix(b2)) = n2
      BY PrefixType DEF n1, n2
    <2>2. \A i \in 1..n1 : Prefix(b1)[i] = Prefix(b2)[i]
      BY <1>1, <1>2, <1>6
    <2> DEFINE x == Prefix(b1)
               y == Prefix(b2)
    <2> HIDE DEF x, y
    <2>3. x \in Text /\ y \in Text /\ Len(x) = Len(y) /\ \A i \in 1..Len(x) : x[i] = y[i]
      BY <1>6, <2>1, <2>2 DEF x, y
    <2>4. x = y
      BY <2>3, SameText
    <2> QED
      BY <2>4 DEF x, y
  <1> QED
    BY <1>9, <1>10, <1>11

\* A row whose keys are among the sorted ones, all its texts plain.
PlainRow(row) ==
    /\ DOMAIN row \subseteq Range(SortedKeys)
    /\ \A k \in DOMAIN row : row[k].text \in Text /\ Plain(k) /\ Plain(row[k].text)

LEMMA PartsOfRow ==
    ASSUME NEW row, PlainRow(row)
    PROVE  /\ Parts(row) \in Seq(Text) /\ Len(Parts(row)) = Len(SortedKeys) /\ Len(SortedKeys) \in Nat
           /\ \A i \in 1..Len(SortedKeys) :
                 LET k == SortedKeys[i] IN
                 /\ k \in Text
                 /\ k \notin DOMAIN row => Parts(row)[i] = << >>
                 /\ k \in DOMAIN row => /\ row[k].text \in Text /\ Plain(k) /\ Plain(row[k].text)
                                        /\ Parts(row)[i] = k \o <<"=">> \o row[k].text
                                        /\ Parts(row)[i] # << >>
  <1>1. Len(SortedKeys) \in Nat /\ DOMAIN SortedKeys = 1..Len(SortedKeys)
    BY SortedKeysAssumption
  <1>2. ASSUME NEW i \in 1..Len(SortedKeys)
        PROVE  LET k == SortedKeys[i] IN
               /\ k \in Text /\ Parts(row)[i] \in Text
               /\ k \notin DOMAIN row => Parts(row)[i] = << >>
               /\ k \in DOMAIN row => /\ row[k].text \in Text /\ Plain(k) /\ Plain(row[k].text)
                                      /\ Parts(row)[i] = k \o <<"=">> \o row[k].text
                                      /\ Parts(row)[i] # << >>
    <2> DEFINE k == SortedKeys[i]
    <2>1. k \in Text
      BY <1>1, SortedKeysAssumption
    <2>2. Parts(row)[i] = IF k \notin DOMAIN row THEN << >> ELSE k \o <<"=">> \o row[k].text
      BY <1>1 DEF Parts
    <2> HIDE DEF k
    <2>3. CASE k \in DOMAIN row
      <3>1. row[k].text \in Text /\ Plain(k) /\ Plain(row[k].text)
        BY <2>3 DEF PlainRow
      <3>2. k \o <<"=">> \in Text /\ Len(k \o <<"=">>) = Len(k) + 1
        BY <2>1, Concatenation, Delimiters
      <3> DEFINE head == k \o <<"=">>
                 text == row[k].text
      <3> HIDE DEF head, text
      <3>3. head \o text \in Text /\ Len(head \o text) = Len(k) + 1 + Len(text) /\ Len(k) \in Nat /\ Len(text) \in Nat
        BY <2>1, <3>1, <3>2, Concatenation DEF head, text
      <3>4. head \o text # << >>
        BY <3>3
      <3> QED
        BY <2>1, <2>2, <2>3, <3>1, <3>3, <3>4 DEF k, head, text
    <2>4. CASE k \notin DOMAIN row
      BY <2>1, <2>2, <2>4, Delimiters DEF k
    <2> QED
      BY <2>3, <2>4
  <1>3. Parts(row) \in [1..Len(SortedKeys) -> Text]
    BY <1>1, <1>2 DEF Parts
  <1>4. Parts(row) \in Seq(Text) /\ Len(Parts(row)) = Len(SortedKeys)
    BY <1>1, <1>3
  <1> QED
    BY <1>1, <1>2, <1>4

\* What a part of a row adds to the join of the parts before it.
LEMMA JoinOfRow ==
    ASSUME NEW row, PlainRow(row), NEW i \in 1..Len(SortedKeys)
    PROVE  LET f == Joined(Parts(row))
               k == SortedKeys[i]
           IN  /\ f[i - 1] \in Text
               /\ k \notin DOMAIN row => f[i] = f[i - 1]
               /\ k \in DOMAIN row => f[i] = Piece(f[i - 1], k, row[k].text) /\ f[i] # << >>
  <1> DEFINE f == Joined(Parts(row))
             k == SortedKeys[i]
  <1>1. Parts(row) \in Seq(Text) /\ Len(Parts(row)) = Len(SortedKeys) /\ Len(SortedKeys) \in Nat
    BY PartsOfRow
  <1>2. f[i] = IF Parts(row)[i] = << >> THEN f[i - 1] ELSE Prefix(f[i - 1]) \o Parts(row)[i]
    BY <1>1, JoinedEquation
  <1>3. f[i - 1] \in Text
    <2>1. i - 1 \in 0..Len(Parts(row))
      BY <1>1
    <2> QED
      BY <1>1, <2>1, JoinEnds
  <1> HIDE DEF f
  <1>4. CASE k \notin DOMAIN row
    BY <1>2, <1>3, <1>4, PartsOfRow DEF f
  <1>5. CASE k \in DOMAIN row
    <2>1. /\ Parts(row)[i] = k \o <<"=">> \o row[k].text /\ Parts(row)[i] # << >>
          /\ row[k].text \in Text /\ k \in Text
      BY <1>5, PartsOfRow
    <2>2. f[i] = Piece(f[i - 1], k, row[k].text)
      BY <1>2, <2>1 DEF Piece
    <2>3. Layout(f[i], f[i - 1], k, row[k].text)
      BY <1>3, <2>1, <2>2, PieceLayout
    <2>4. f[i] # << >>
      <3>1. Len(k) \in Nat /\ Len(row[k].text) \in Nat
        BY <2>1 DEF Text
      <3> HIDE DEF k
      <3> DEFINE t == row[k].text
      <3>2. Layout(f[i], f[i - 1], k, t) /\ Len(t) \in Nat
        BY <2>3, <3>1
      <3> HIDE DEF t
      <3>3. Len(f[i]) # 0
        BY <3>1, <3>2 DEF Layout
      <3>4. f[i] # << >>
        BY <3>3
      <3> QED
        BY <3>4
    <2> QED
      BY <1>3, <1>5, <2>2, <2>4 DEF f
  <1> QED
    BY <1>4, <1>5

\* A key that only one of two rows has shows in the join up to that key: the
\* other one ends with an earlier key, or is empty.
LEMMA KeyShows ==
    ASSUME NEW p, PlainRow(p), NEW q, PlainRow(q), NEW i \in 1..Len(SortedKeys),
           SortedKeys[i] \in DOMAIN p, SortedKeys[i] \notin DOMAIN q
    PROVE  Joined(Parts(p))[i] # Joined(Parts(q))[i]
  <1> DEFINE k == SortedKeys[i]
             before == Joined(Parts(p))[i - 1]
             g == Joined(Parts(q))
  <1>1. SUFFICES ASSUME Joined(Parts(p))[i] = g[i] PROVE FALSE
    OBVIOUS
  <1>2. Joined(Parts(p))[i] = Piece(before, k, p[k].text) /\ before \in Text /\ g[i] # << >>
    BY <1>1, JoinOfRow
  <1>3. k \in Text /\ p[k].text \in Text /\ Plain(k) /\ Plain(p[k].text)
    BY PartsOfRow
  <1>4. g[i] = g[i - 1]
    BY JoinOfRow
  <1>5. /\ Parts(q) \in Seq(Text) /\ Len(Parts(q)) = Len(SortedKeys)
        /\ Len(SortedKeys) \in Nat /\ i - 1 \in 0..Len(Parts(q))
    <2>1. Parts(q) \in Seq(Text) /\ Len(Parts(q)) = Len(SortedKeys) /\ Len(SortedKeys) \in Nat
      BY PartsOfRow
    <2> QED
      BY <2>1
  <1>6. PICK m \in 1..(i - 1), other \in Text :
           Parts(q)[m] # << >> /\ g[i - 1] = Prefix(other) \o Parts(q)[m]
    BY <1>2, <1>4, <1>5, JoinEnds
  <1> DEFINE l == SortedKeys[m]
  <1>7. m \in 1..Len(SortedKeys)
    BY <1>5
  <1>8. /\ l \in Text /\ q[l].text \in Text /\ Plain(l) /\ Plain(q[l].text)
        /\ Parts(q)[m] = l \o <<"=">> \o q[l].text
    BY <1>6, <1>7, PartsOfRow
  <1>9. g[i - 1] = Piece(other, l, q[l].text)
    BY <1>6, <1>8 DEF Piece
  <1>10. Piece(before, k, p[k].text) = Piece(other, l, q[l].text)
    BY <1>1, <1>2, <1>4, <1>9
  <1> HIDE DEF k, l, before, g
  <1>11. k = l
    BY <1>2, <1>3, <1>6, <1>8, <1>10, PieceUnique
  <1>12. i = m
    BY <1>5, <1>7, <1>11, SortedKeysAssumption DEF IsInjective, k, l
  <1> QED
    BY <1>5, <1>6, <1>12

\* Two rows agree on a key.
Agree(p, q, k) == /\ k \in DOMAIN p <=> k \in DOMAIN q
                  /\ k \in DOMAIN p => p[k].text = q[k].text

LEMMA JoinsSeparate ==
    ASSUME NEW p, PlainRow(p), NEW q, PlainRow(q), NEW len \in 0..Len(SortedKeys),
           Joined(Parts(p))[len] = Joined(Parts(q))[len]
    PROVE  \A m \in 1..len : Agree(p, q, SortedKeys[m])
  <1> DEFINE f == Joined(Parts(p))
             g == Joined(Parts(q))
             Claim(i) == f[i] = g[i] => \A m \in 1..i : Agree(p, q, SortedKeys[m])
             Bad == {i \in 0..Len(SortedKeys) : ~Claim(i)}
  <1>1. SUFFICES ASSUME Bad # {} PROVE FALSE
    OBVIOUS
  <1>2. Len(SortedKeys) \in Nat
    BY SortedKeysAssumption
  <1>3. PICK i \in Bad : \A y \in Bad : i =< y
    <2>1. Bad \in SUBSET Nat
      BY <1>2
    <2> QED
      BY <1>1, <2>1, Least
  <1>4. f[i] = g[i] /\ i # 0
    BY <1>3
  <1>5. i \in 1..Len(SortedKeys) /\ i - 1 \in 0..Len(SortedKeys) /\ ~(i =< i - 1)
    BY <1>2, <1>4
  <1>6. Claim(i - 1)
    BY <1>3, <1>5
  <1> DEFINE k == SortedKeys[i]
  <1>7. k \in DOMAIN p <=> k \in DOMAIN q
    BY <1>4, <1>5, KeyShows
  <1>8. f[i - 1] = g[i - 1] /\ Agree(p, q, k)
    <2>1. CASE k \notin DOMAIN p
      BY <1>4, <1>5, <1>7, <2>1, JoinOfRow DEF Agree
    <2>2. CASE k \in DOMAIN p
      <3>1. /\ f[i] = Piece(f[i - 1], k, p[k].text) /\ f[i - 1] \in Text
            /\ g[i] = Piece(g[i - 1], k, q[k].text) /\ g[i - 1] \in Text
        BY <1>5, <1>7, <2>2, JoinOfRow
      <3>2. /\ k \in Text /\ Plain(k) /\ p[k].text \in Text /\ Plain(p[k].text)
            /\ q[k].text \in Text /\ Plain(q[k].text)
        BY <1>5, <1>7, <2>2, PartsOfRow
      <3> HIDE DEF f, g, k
      <3>3. Prefix(f[i - 1]) = Prefix(g[i - 1]) /\ p[k].text = q[k].text
        BY <1>4, <3>1, <3>2, PieceUnique
      <3>4. f[i - 1] = g[i - 1]
        BY <3>1, <3>3, PrefixInjective
      <3> QED
        BY <1>7, <3>3, <3>4 DEF Agree
    <2> QED
      BY <2>1, <2>2
  <1>9. \A m \in 1..i : m = i \/ m \in 1..(i - 1)
    BY <1>5
  <1>10. Claim(i)
    BY <1>6, <1>8, <1>9
  <1> QED
    BY <1>3, <1>10

LEMMA CanonicalSeparates ==
    ASSUME NEW p, PlainRow(p), NEW q, PlainRow(q), Canonical(p) = Canonical(q)
    PROVE  DOMAIN p = DOMAIN q /\ \A k \in DOMAIN p : p[k].text = q[k].text
  <1>1. Len(SortedKeys) \in 0..Len(SortedKeys) /\ DOMAIN SortedKeys = 1..Len(SortedKeys)
    BY SortedKeysAssumption
  <1>2. \A m \in 1..Len(SortedKeys) : Agree(p, q, SortedKeys[m])
    BY <1>1, JoinsSeparate DEF Canonical
  <1>3. \A k \in Range(SortedKeys) : Agree(p, q, k)
    BY <1>1, <1>2 DEF Range
  <1>4. DOMAIN p \subseteq Range(SortedKeys) /\ DOMAIN q \subseteq Range(SortedKeys)
    BY DEF PlainRow
  <1> QED
    BY <1>3, <1>4 DEF Agree

\* The source in front of a canonical form takes nothing away.
LEMMA SourceSeparates ==
    ASSUME NEW s \in Text, NEW x \in Text, NEW y \in Text, s \o <<"::">> \o x = s \o <<"::">> \o y
    PROVE  x = y
  <1> DEFINE head == s \o <<"::">>
  <1>1. head \in Text
    <2>1. <<"::">> \in Text
      BY TokensAssumption DEF Text
    <2> QED
      BY <2>1, Concatenation
  <1> HIDE DEF head
  <1>2. head \o x = head \o y
    BY DEF head
  <1>3. Len(x) = Len(y)
    BY <1>1, <1>2, Concatenation
  <1>4. \A i \in 1..Len(x) : (head \o x)[Len(head) + i] = x[i]
    BY <1>1, Concatenation
  <1>5. \A i \in 1..Len(y) : (head \o y)[Len(head) + i] = y[i]
    BY <1>1, Concatenation
  <1> QED
    BY <1>2, <1>3, <1>4, <1>5, SameText

LEMMA CoercedIsText ==
    ASSUME NEW value, value.text \in Text
    PROVE  Coerce(value).text \in Text
  <1>1. <<"True">> \in Text /\ <<"False">> \in Text
    BY TokensAssumption DEF Text
  <1>2. Strip(value.text) \in Text
    BY StripTrims
  <1>3. \A x \in DOMAIN IntLiteral : IntLiteral[x] \in Text
    BY LiteralAssumption
  <1>4. \A x \in DOMAIN FloatLiteral : FloatLiteral[x] \in Text
    BY LiteralAssumption
  <1> QED
    BY <1>1, <1>2, <1>3, <1>4 DEF Coerce, Str

LEMMA NormalisedIsText ==
    ASSUME NEW raw \in RawRows, NEW k \in DOMAIN normalise_row(raw)
    PROVE  normalise_row(raw)[k].text \in Text
  <1> DEFINE Key(i) == LowerCase(Strip(raw[i].key))
             same == {i \in DOMAIN raw : Key(i) = k}
  <1>1. /\ Len(raw) \in Nat /\ DOMAIN raw = 1..Len(raw)
        /\ \A i \in DOMAIN raw : raw[i].key \in Text /\ raw[i].value.text \in Text
    BY CellsAreText
  <1>2. normalise_row(raw)[k] = Coerce(raw[Max(same)].value) /\ same # {}
    BY DEF normalise_row
  <1>3. Max(same) \in DOMAIN raw
    BY <1>1, <1>2, Extremes
  <1> QED
    BY <1>1, <1>2, <1>3, CoercedIsText

\* What the loop has read, it could read.
AllRead == \A i \in 1..n : Readable(rows[i])

LEMMA ReadStep == ASSUME TypeOK, AllRead, [Next]_vars PROVE AllRead'
  <1>1. ASSUME Turn PROVE AllRead'
    BY <1>1 DEF Turn, TypeOK, AllRead, Readable
  <1>2. ASSUME n' = 0 PROVE AllRead'
    BY <1>2 DEF AllRead
  <1>3. ASSUME UNCHANGED <<rows, n>> PROVE AllRead'
    BY <1>3 DEF AllRead, Readable
  <1> QED
    BY <1>1, <1>2, <1>3 DEF Next, vars, Call, SkipSeen, KeepNew, Raise, Return

\* Two rows of a call whose keys and values hold no delimiter share the
\* idempotency key only when they have the same columns, rendered the same.
THEOREM KeySeparatesRows == Spec => []HashSeparates
  <1>1. TypeOK /\ AllRead => HashSeparates
    <2> SUFFICES ASSUME TypeOK, AllRead, NEW i \in 1..n, NEW j \in 1..n,
                        DelimiterFree(normalise_row(rows[i])), DelimiterFree(normalise_row(rows[j])),
                        Hash(i) = Hash(j)
                 PROVE  /\ DOMAIN normalise_row(rows[i]) = DOMAIN normalise_row(rows[j])
                        /\ \A k \in DOMAIN normalise_row(rows[i]) :
                              normalise_row(rows[i])[k].text = normalise_row(rows[j])[k].text
      BY DEF HashSeparates
    <2>1. \A m \in {i, j} : rows[m] \in RawRows /\ Readable(rows[m])
      BY DEF TypeOK, AllRead
    <2>2. ASSUME NEW m \in {i, j} PROVE PlainRow(normalise_row(rows[m]))
      <3> DEFINE row == normalise_row(rows[m])
      <3>1. DOMAIN row \subseteq Range(SortedKeys) /\ \A k \in DOMAIN row : row[k].text \in Text
        BY <2>1, KeysAssumption, NormalisedIsText
      <3>2. DelimiterFree(row)
        OBVIOUS
      <3> HIDE DEF row
      <3>3. \A k \in DOMAIN row : Plain(k) /\ Plain(row[k].text)
        BY <3>2 DEF DelimiterFree, Plain, Range
      <3>4. PlainRow(row)
        BY <3>1, <3>3 DEF PlainRow
      <3> QED
        BY <3>4 DEF row
    <2> DEFINE p == normalise_row(rows[i])
               q == normalise_row(rows[j])
    <2>3. PlainRow(p) /\ PlainRow(q)
      BY <2>2
    <2>4. source_id \o <<"::">> \o Canonical(p) = source_id \o <<"::">> \o Canonical(q)
      BY DEF Hash, compute_source_row_hash
    <2>5. source_id \in Text
      BY SourcesAssumption DEF TypeOK
    <2> HIDE DEF p, q
    <2>6. ASSUME NEW row, PlainRow(row) PROVE Canonical(row) \in Text
      <3>1. Parts(row) \in Seq(Text) /\ Len(Parts(row)) = Len(SortedKeys) /\ Len(SortedKeys) \in Nat
        BY <2>6, PartsOfRow
      <3>2. Joined(Parts(row))[Len(SortedKeys)] \in Text
        <4>1. Len(SortedKeys) \in 0..Len(Parts(row))
          BY <3>1
        <4> QED
          BY <3>1, <4>1, JoinEnds
      <3> QED
        BY <3>2 DEF Canonical
    <2>7. Canonical(p) = Canonical(q)
      BY <2>3, <2>4, <2>5, <2>6, SourceSeparates
    <2> QED
      BY <2>3, <2>7, CanonicalSeparates DEF p, q
  <1>2. Init => AllRead
    BY DEF Init, AllRead
  <1>3. Spec => []AllRead
    BY <1>2, ReadStep, TypeCorrect, PTL DEF Spec
  <1> QED
    BY <1>1, <1>3, TypeCorrect, PTL
===============================================================================
