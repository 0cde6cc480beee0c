--------------------------- MODULE SemanticChunks ---------------------------
(***************************************************************************)
(* semantic_chunks of core/memory/chunking.py: the loop that cuts a        *)
(* Markdown source into chunks, one block of at most max_words words after *)
(* the other.  A language model names the second topic of a block, which   *)
(* is rolled over into the next one; it may answer anything, or fail.      *)
(*                                                                         *)
(* The source is a sequence of pieces without white space; what precedes a *)
(* piece is "none" (it continues the word before it), "space" or "line".   *)
(* A piece is plain text or a marker that means something at the start of  *)
(* a line: heading, fence or table row.  Blank lines are left out.         *)
(* Positions are places of pieces, and the end of a span is the place      *)
(* after it.                                                               *)
(***************************************************************************)
EXTENDS Integers, Sequences, FiniteSets, SequencesExt

CONSTANTS
  Sources,  \* the sources to cut
  MaxWords, \* max_words
  Floor     \* min_words: a shorter block is not sent to the model

ASSUME ChunkAssumption == MaxWords \in Nat \ {0} /\ Floor \in Nat

VARIABLES
  source,        \* the Markdown
  pending,       \* pending_start
  raw            \* the chunks so far: span and outcome

chunkVars == <<source, pending, raw>>

Marks == {"text", "heading", "fence", "row"}
Pieces == [gap : {"none", "space", "line"}, mark : Marks]

ASSUME SourcesAssumption == Sources \subseteq Seq(Pieces)

Largest(S, default) == IF S = {} THEN default ELSE CHOOSE x \in S : \A y \in S : y <= x

End == Len(source) + 1

(* Places of a slice that \S+ and ^ match at: the slice starts a word and  *)
(* a line.                                                                 *)
WordStarts(from, to) == {i \in from..(to - 1) : i = from \/ source[i].gap # "none"}
LineStarts(from, to) == {i \in from..(to - 1) : i = from \/ source[i].gap = "line"}
Words(from, to) == Cardinality(WordStarts(from, to))

(* The budget: the end of the max_words-th word. *)
NominalEnd(from) ==
  IF Words(from, End) <= MaxWords THEN End
  ELSE CHOOSE e \in WordStarts(from, End) : Words(from, e) = MaxWords

(* ^#{1,6}\s+.+$ wants some text after the marker. *)
Headings(from, to) ==
  {i \in LineStarts(from, to) : source[i].mark = "heading" /\ i + 1 \in WordStarts(from, to)}
Fences(from, to) == {i \in LineStarts(from, to) : source[i].mark = "fence"}

(* rfind of a newline after from and before to, plus one: the whole        *)
(* source's start when there is none.                                      *)
LineBefore(from, to) == Largest({i \in (from + 1)..(to - 1) : source[i].gap = "line"}, 1)

(* The while loop: up from row t as long as the line before is a row. *)
TableStart(from, to) ==
  LET start[t \in 1..End] ==
        IF t <= from \/ source[LineBefore(from, t)].mark # "row" THEN t
        ELSE start[LineBefore(from, t)]
  IN  start[LineBefore(from, to)]

\* Mutant of StructuralEnd: tables are not looked at.
EndWithoutTables(from, to) ==
  LET heading == Largest(Headings(from, to), 0)
      fence   == Largest(Fences(from, to), 0)
  IN  CASE heading > from -> heading
        [] heading <= from /\ Cardinality(Fences(from, to)) % 2 = 1 /\ fence > from -> fence
        [] OTHER -> to

(* _structural_end *)
StructuralEnd(from, to) ==
  LET heading == Largest(Headings(from, to), 0)
      fence   == Largest(Fences(from, to), 0)
      inRow   == source[LineBefore(from, to)].mark = "row"
  IN  CASE heading > from -> heading
        [] heading <= from /\ Cardinality(Fences(from, to)) % 2 = 1 /\ fence > from -> fence
        [] OTHER -> IF inRow /\ TableStart(from, to) > from THEN TableStart(from, to) ELSE to

BlockEnd == StructuralEnd(pending, NominalEnd(pending))

Asked == Words(pending, BlockEnd) >= Floor

Text(from, to) == [i \in 1..(to - from) |->
  IF i = 1 THEN [source[from] EXCEPT !.gap = "line"] ELSE source[from + i - 1]]

\* Mutant of SplitAt: find instead of rfind.
SplitAtFirst(second) ==
  CHOOSE k \in pending..(BlockEnd - 1) :
    LET here(j) == j + Len(second) <= BlockEnd /\ Text(j, j + Len(second)) = second
    IN  here(k) /\ \A j \in pending..(k - 1) : ~here(j)

(* rfind: the last place of the block the answer occurs at. *)
SplitAt(second) ==
  CHOOSE k \in pending..(BlockEnd - 1) :
    LET here(j) == j + Len(second) <= BlockEnd /\ Text(j, j + Len(second)) = second
    IN  here(k) /\ \A j \in (k + 1)..(BlockEnd - 1) : ~here(j)

(* A chunk with its decision: the outcome, block_words and suffix_words. *)
Chunk(to, outcome, suffix) ==
  [from |-> pending, to |-> to, outcome |-> outcome,
   block |-> Words(pending, BlockEnd), suffix |-> suffix]

Emit(to, outcome, suffix) == raw' = Append(raw, Chunk(to, outcome, suffix))

\* Mutant of More: the last piece is forgotten.
MoreThanOne == pending < End - 1

More == pending < End

(* The model answered with a suffix of the block, or with all of it. *)
Rollover(k) ==
  /\ More /\ Asked
  /\ LET at == SplitAt(Text(k, BlockEnd))
     IN     IF at > pending
            THEN Emit(at, "suffix_rollover", Words(k, BlockEnd)) /\ pending' = at
            ELSE Emit(BlockEnd, "suffix_at_block_start_kept_as_block", 0) /\ pending' = BlockEnd
  /\ UNCHANGED source

Kept == BlockEnd

(* The block is kept: it was too short to ask about, the model saw one     *)
(* topic, it failed, or it answered something that is no suffix.           *)
KeepBlock(outcome) ==
  /\ More
  /\ Asked <=> outcome # "below_semantic_floor"
  /\ Emit(BlockEnd, outcome, 0)
  /\ pending' = Kept
  /\ UNCHANGED source

Outcomes == {"below_semantic_floor", "one_topic", "segmenter_failed_fallback_to_block",
             "non_suffix_rejected_kept_as_block"}

ChunkInit == source \in Sources /\ pending = 1 /\ raw = <<>>

ChunkNext ==
  \/ More /\ \E k \in pending..(BlockEnd - 1) : Rollover(k)
  \/ \E o \in Outcomes : KeepBlock(o)

Cutting == WF_chunkVars(ChunkNext)
=============================================================================
