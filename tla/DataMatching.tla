----------------------------- MODULE DataMatching -----------------------------
(***************************************************************************)
(* The recognition of registered data: records of a table by several cells *)
(* of one row, and documents by the shingles that winnowing keeps.  Only    *)
(* digests are kept, so equality of digests is equality of what they are    *)
(* made of.  A token is a sequence of parts and what joins them; a number   *)
(* has parts of three digits.                                               *)
(***************************************************************************)
EXTENDS Integers, Sequences, FiniteSets, SequencesExt, FiniteSetsExt

CONSTANTS Groups,    \* parts that are digits
          MaxGram,   \* tokens of the longest candidate (4 in the code)
          K, W       \* words of a shingle, shingles of a window (5 and 4 in the code)

\* A token: its parts and what joins them, with a field separator within or not.
Token(parts, by) == [parts |-> parts, by |-> by, split |-> FALSE]

PartsOf(gram) == FlattenSeq([i \in DOMAIN gram |-> gram[i].parts])
IsNumber(gram) == \A i \in DOMAIN PartsOf(gram) : PartsOf(gram)[i] \in Groups

\* The forms of a value that are digested: as it is, and its bare digits if there
\* are 6 to 19 of them.
Variants(gram) ==
  {gram} \cup (IF IsNumber(gram) /\ Len(PartsOf(gram)) \in 2 .. 6
               THEN {<<Token(PartsOf(gram), "")>>} ELSE {})

\* The index of a table: the digests of the cells of the columns that the table
\* has, or of all of them if none are asked for; empty cells have none.
Columns(asked, header) == IF asked = {} THEN header ELSE asked \cap header
Index(rows, asked) ==
  UNION {{[digest |-> v, row |-> r, column |-> c] : v \in Variants(rows[r][c])} :
         <<r, c>> \in {p \in (DOMAIN rows) \X Columns(asked, UNION {DOMAIN rows[r] : r \in DOMAIN rows}) :
                       p[2] \in DOMAIN rows[p[1]] /\ rows[p[1]][p[2]] # <<>>}}

\* What may be a value of a text: up to four tokens in a row.
Ngrams(text) ==
  {SubSeq(text, i, j) : <<i, j>> \in {p \in (DOMAIN text) \X (DOMAIN text) :
                                      p[1] <= p[2] /\ p[2] < p[1] + MaxGram}}

Seen(text, index) == {x \in index : \E gram \in Ngrams(text) : x.digest \in Variants(gram)}

\* Mutant: the cells may be of different rows.
RowsFoundAnywhere(text, index, min) ==
  IF Cardinality({x.column : x \in Seen(text, index)}) >= min THEN {x.row : x \in index} ELSE {}

\* The rows of which the text holds enough cells.
RowsFound(text, index, min) ==
  {r \in {x.row : x \in index} :
     Cardinality({x.column : x \in {y \in Seen(text, index) : y.row = r}}) >= min}

-----------------------------------------------------------------------------
\* The shingles of a text, or all of it when it is short, as numbers by a digest.
Shingles(words, digest) ==
  CASE words = <<>> -> <<>>
    [] words # <<>> /\ Len(words) < K -> <<digest[words]>>
    [] OTHER -> [i \in 1 .. Len(words) - K + 1 |-> digest[SubSeq(words, i, i + K - 1)]]

\* Mutant: the first of every window is kept.
WinnowFirst(hashes) ==
  IF Len(hashes) <= W THEN ToSet(hashes)
  ELSE {hashes[W * i + 1] : i \in 0 .. (Len(hashes) - W) \div W}

\* The least of every window is kept, and all there is when it fits in one.
Winnow(hashes) ==
  IF Len(hashes) <= W THEN ToSet(hashes)
  ELSE {Min({hashes[j] : j \in i .. i + W - 1}) : i \in 1 .. Len(hashes) - W + 1}

Prints(words, digest) == Winnow(Shingles(words, digest))

\* A document is found by as many common shingles as a window holds, or by the
\* share of the smaller set that one of a window is.
FoundIn(text, document, digest) ==
  LET known  == Prints(document, digest)
      here   == Prints(text, digest)
      common == Cardinality(known \cap here)
  IN  known # {} /\ here # {}
      /\ (common >= W \/ common * W >= Min({Cardinality(known), Cardinality(here)}))

\* What is known of a text: the levels of the enabled sources found in it; a source
\* that cannot be read is passed over.
KnownOf(sources, text) ==
  {s.classification : s \in {x \in sources : x.enabled /\ x.readable
     /\ RowsFound(text, Index(x.rows, x.columns), x.min) # {}}}

-----------------------------------------------------------------------------
\* A value as it may be written: joined by something else, or in several tokens.
Writings(cell) ==
  {cell} \cup (IF IsNumber(cell) /\ Len(PartsOf(cell)) \in 2 .. 6
               THEN {<<Token(PartsOf(cell), "")>>, <<Token(PartsOf(cell), "-")>>}
                    \cup (IF Len(PartsOf(cell)) <= MaxGram
                          THEN {[i \in DOMAIN PartsOf(cell) |-> Token(<<PartsOf(cell)[i]>>, "")]} ELSE {})
               ELSE {})

\* A row of which a text holds enough cells is found, however their numbers are
\* written ("so the same datum is recognised regardless of separators/case",
\* data_matching_service.py:88), unless a cell is longer than four words or has
\* a field separator within.
RecordIsFound(rows, r, min, before, between, after) ==
  \A columns \in SUBSET DOMAIN rows[r] :
    (Cardinality(columns) >= min /\ \A c \in columns :
        Len(rows[r][c]) \in 1 .. MaxGram /\ \A i \in DOMAIN rows[r][c] : ~rows[r][c][i].split) =>
      \A writing \in [columns -> UNION {Writings(rows[r][c]) : c \in columns}] :
        (\A c \in columns : writing[c] \in Writings(rows[r][c])) =>
          LET cells == SetToSeq(columns)
              text  == before \o FlattenSeq([i \in DOMAIN cells |-> writing[cells[i]] \o between]) \o after
          IN  r \in RowsFound(text, Index(rows, {}), min)

\* A text is not taken for a row of which it holds too few cells, whatever it
\* holds of the other rows ("DISTINCT columns of the SAME indexed row",
\* data_matching_service.py:178).
RowsAreNotMixed(rows, text, min) ==
  \A r \in RowsFound(text, Index(rows, {}), min) :
    Cardinality({c \in DOMAIN rows[r] : \E gram \in Ngrams(text) : \E v \in Variants(gram) :
                   v \in Variants(rows[r][c])}) >= min

\* A passage that holds a whole window of shingles leaves a common fingerprint
\* ("shared passage of >= (w + k - 1) words", data_matching_service.py:228),
\* and by itself it is enough.
PassageIsFound(document, from, to, before, after, digest) ==
  (to - from + 1 >= W + K - 1) =>
    LET passage == SubSeq(document, from, to)
    IN  /\ Prints(document, digest) \cap Prints(before \o passage \o after, digest) # {}
        /\ FoundIn(passage, document, digest)
=============================================================================
