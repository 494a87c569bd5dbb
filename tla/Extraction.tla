------------------------------ MODULE Extraction ------------------------------
(***************************************************************************)
(* What text the server gets out of a file before it is classified         *)
(* (services/document_extract.py; the mail relay ships the same code).     *)
(*                                                                         *)
(* A document is a record                                                   *)
(*   format   pdf, office, image, text, legacy or unknown                   *)
(*   body     what the format's reader finds: "some" text, more than the    *)
(*            scan budget ("long"), "none", or it is "broken"               *)
(*   textual  its bytes decode to printable text                            *)
(*   pages    how many of its pages show text to a reader of pictures       *)
(*   size     in bytes                                                      *)
(* or a member of a zip whose content is "locked" or damaged, or an archive *)
(* with the sequence of its members.  The result says whether text was      *)
(* found (in units of one document's), whether it is marked as partial, and *)
(* how many documents were read to the end.                                 *)
(***************************************************************************)
EXTENDS Integers, Sequences, SequencesExt

CONSTANTS MaxBytes,       \* MAX_EXTRACT_BYTES
          MaxDepth,       \* MAX_ARCHIVE_DEPTH
          MaxEntries,     \* MAX_ARCHIVE_ENTRIES
          MaxTotal,       \* MAX_ARCHIVE_TOTAL_BYTES
          MaxText,        \* MAX_TEXT_CHARS, in units of a document's text
          MaxPages,       \* OCR_MAX_PAGES
          Ocr             \* pictures can be read

Archives == {"zip", "tar", "gz", "7z"}
IsArchive(file) == file.format \in Archives

NewBudget == [bytes |-> MaxTotal, entries |-> MaxEntries, truncated |-> FALSE]

\* Room for one more member of n bytes.
Room(budget, n) == budget.entries > 0 /\ n <= budget.bytes
\* Mutants: a member costs its bytes only; a refusal leaves no trace.
TakeBytes(budget, n) == [budget EXCEPT !.bytes = @ - n]
RefuseQuietly(budget) == budget

Take(budget, n) == [budget EXCEPT !.bytes = @ - n, !.entries = @ - 1]
Refuse(budget) == [budget EXCEPT !.truncated = TRUE]

Unreadable(kind) == [ok |-> FALSE, truncated |-> FALSE, kind |-> kind, text |-> 0, read |-> 0]

\* Text that is clipped to the scan budget is marked.
Read(kind, clipped) ==
  [ok |-> TRUE, truncated |-> clipped, kind |-> kind,
   text |-> IF clipped THEN MaxText ELSE 1, read |-> IF clipped THEN 0 ELSE 1]

\* Text found in pictures of the first pages, which needs a reader of them; that
\* there are more is not marked.
FromPictures(file, kind) ==
  IF ~Ocr \/ file.pages = 0 THEN Unreadable(kind)
  ELSE [Read("ocr", FALSE) EXCEPT !.read = IF file.pages > MaxPages THEN 0 ELSE 1]

\* The bytes taken for text, whatever the extension says.
FromBytes(file, kind) ==
  IF file.textual THEN Read("text", file.body = "long") ELSE Unreadable(kind)

Parsed(file) ==
  CASE file.body = "broken" -> FromBytes(file, "error")
    [] file.body = "none"   -> IF file.format = "pdf" THEN FromPictures(file, "pdf")
                               ELSE Unreadable(file.format)
    [] OTHER                -> Read(file.format, file.body = "long")

Document(file) ==
  IF file.size = 0 THEN [Read("empty", FALSE) EXCEPT !.text = 0, !.read = 0]
  ELSE IF file.size > MaxBytes THEN Unreadable("too_large")
  ELSE CASE file.format \in {"pdf", "office"} -> Parsed(file)
         [] file.format = "image"             -> FromPictures(file, "image")
         [] file.format = "text"              -> Read("text", file.body = "long")
         [] file.format = "legacy"            -> Unreadable("unsupported")
         [] OTHER                             -> FromBytes(file, "unsupported")

RECURSIVE Extract(_, _, _), Members(_, _, _, _)

\* The members from the first on: the text and the documents read in them, and
\* the budget that is left.  A locked member costs its size and is passed over, as
\* is one that no text comes out of; when the budget refuses a member, the rest is
\* not looked at.
Members(members, depth, budget, found) ==
  IF members = <<>> THEN [found |-> found, budget |-> budget]
  ELSE LET member == Head(members) IN
       IF ~Room(budget, member.size) THEN [found |-> found, budget |-> Refuse(budget)]
       ELSE IF member.format = "locked"
            THEN Members(Tail(members), depth, Take(budget, member.size), found)
            ELSE LET sub == Extract(member, depth + 1, Take(budget, member.size))
                     left == IF sub.result.truncated THEN Refuse(sub.budget) ELSE sub.budget
                 IN Members(Tail(members), depth, left,
                            [text |-> found.text + sub.result.text, read |-> found.read + sub.result.read])

\* The text of an archive is clipped as one.
Together(found, truncated) ==
  IF found.text = 0 THEN Unreadable("archive")
  ELSE LET clipped == found.text > MaxText IN
       [ok |-> TRUE, truncated |-> clipped \/ truncated, kind |-> "archive",
        text |-> IF clipped THEN MaxText ELSE found.text, read |-> found.read]

\* extract_text: the result and the budget of the archive tree it is part of.  An
\* archive too deep, or too large, leaves no mark on the budget.
Extract(file, depth, budget) ==
  IF ~IsArchive(file) THEN [result |-> Document(file), budget |-> budget]
  ELSE IF file.size > MaxBytes THEN [result |-> Unreadable("too_large"), budget |-> budget]
  ELSE IF depth >= MaxDepth THEN [result |-> Unreadable("archive"), budget |-> budget]
  ELSE LET inside == Members(file.members, depth, budget, [text |-> 0, read |-> 0]) IN
       [result |-> Together(inside.found, inside.budget.truncated), budget |-> inside.budget]

ExtractText(file) == Extract(file, 0, NewBudget)

\* How the evaluate endpoint reports it.
Status(result) ==
  CASE ~result.ok                     -> IF result.kind = "too_large" THEN "too_large" ELSE "unreadable"
    [] result.ok /\ result.truncated  -> "too_large"
    [] result.ok /\ ~result.truncated -> "readable"

-----------------------------------------------------------------------------
\* The documents of a file, however deep, and those that are left out without a
\* mark: locked or damaged members, documents that nothing can be read of by
\* themselves (also for their size), archives too large or below the depth limit
\* with all that is in them, and documents with more pages than are read.
RECURSIVE Leaves(_), LeftOut(_, _)
Leaves(file) ==
  IF IsArchive(file) THEN FoldLeft(LAMBDA n, member : n + Leaves(member), 0, file.members)
  ELSE IF file.size = 0 THEN 0 ELSE 1
LeftOut(file, depth) ==
  IF IsArchive(file)
  THEN IF depth = 0 \/ file.size > MaxBytes THEN Leaves(file)
       ELSE FoldLeft(LAMBDA n, member : n + LeftOut(member, depth - 1), 0, file.members)
  ELSE IF \/ file.format = "locked" \/ ~Document(file).ok
          \/ Document(file).kind = "ocr" /\ file.pages > MaxPages
       THEN 1 ELSE 0

\* Of a result that is not marked as partial every document was read to the end,
\* however the archives are nested, but for those left out without a mark, which
\* are more than "entry/byte/depth limit or a partly-read member"
\* (document_extract.py:432) lets one think.
UnmarkedIsAccounted(file) ==
  LET result == ExtractText(file).result IN
  (result.ok /\ ~result.truncated) => result.read + LeftOut(file, MaxDepth) = Leaves(file)

\* "Shared across one archive tree so nested members can't each spend the cap":
\* however a file is nested, no more documents are read than one archive may have.
OneBudgetForAll(file) ==
  LET end == ExtractText(file) IN
  IsArchive(file) => end.result.read <= MaxEntries /\ end.result.text <= MaxText /\ end.budget.bytes >= 0
=============================================================================
