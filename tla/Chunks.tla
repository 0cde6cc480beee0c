------------------------------- MODULE Chunks -------------------------------
(* What semantic chunking promises about the spans it cuts. *)
EXTENDS SemanticChunks

CONSTANT SourceLength \* bound: pieces of a source

(* Markers are kept at line starts, where they mean something. *)
MCPieces == {p \in Pieces : p.mark # "text" => p.gap = "line"}
MCSources == {s \in [1..SourceLength -> MCPieces] : s[1].gap = "line"}

ChunkSpec == ChunkInit /\ [][ChunkNext]_chunkVars /\ Cutting

(* "Rolls the exact suffix into the next block", "without overlap or loss" *)
(* (semantic_chunks and its test), and "the boundary is evidence"          *)
(* (DocumentChunk): whatever the model answered, the chunks so far follow  *)
(* each other without a gap and end where the loop is, none is longer than *)
(* the budget, and the words a rollover says it saw and gave up are those  *)
(* of the spans, phrases repeated in a block and words cut in two included.*)
SpansTileTheSource ==
  /\ pending = IF raw = <<>> THEN 1 ELSE raw[Len(raw)].to
  /\ \A i \in DOMAIN raw :
       LET from == raw[i].from
           to   == raw[i].to
           cut  == IF to < End /\ source[to].gap = "none" THEN 1 ELSE 0
       IN  /\ from = IF i = 1 THEN 1 ELSE raw[i - 1].to
           /\ from < to /\ to <= End
           /\ Words(from, to) <= MaxWords
           /\ raw[i].block = Words(from, to) + raw[i].suffix
                             - (IF raw[i].suffix > 0 THEN cut ELSE 0)

(* The budget does not open a table or a fence that starts inside a block: *)
(* where a kept block ends, no table begun after its start goes on, and    *)
(* its fences are balanced unless a heading inside the fence ended it      *)
(* (_structural_end).  A source that starts with a table is left out: the  *)
(* search for the line before a row falls back on its first line.          *)
BudgetOpensNoStructure ==
  \A i \in DOMAIN raw :
    LET from == raw[i].from
        to   == raw[i].to
        rows == {t \in LineStarts(from, to) : source[t].mark = "row"}
        goesOn(t) == \A l \in LineStarts(t, to + 1) : source[l].mark = "row"
        begun == {t \in rows : t > from /\ goesOn(t)
                                /\ source[Largest(LineStarts(from, t), t)].mark # "row"}
        fences == Fences(from, to) \ {from}
    IN  (raw[i].outcome # "suffix_rollover" /\ to < End) =>
          /\ begun = {} \/ source[1].mark = "row"
          /\ Cardinality(Fences(from, to)) % 2 = 0 \/ fences = {}
               \/ source[to].mark = "heading"

(* "A structural boundary immediately at the start must not stall the      *)
(* loop": the source is always cut to its end.                             *)
CutToTheEnd == <>(pending = End)

=============================================================================
