--------------------------- MODULE BackupPipeline ----------------------------
(***************************************************************************)
(* What the phases of a backup job keep together: the order of the chunks  *)
(* and the correspondence between the chunks on their way from the dedup   *)
(* to the filter phase and the elements of the index buffer.               *)
(***************************************************************************)
EXTENDS Backup, SequencesExt

Fps(s) == [i \in DOMAIN s |-> s[i].fp]

Travelling == FlattenSeq(rewriteQ) \o FlattenSeq(dedupQ)

InFilter ==
  CASE filter.at \in {"chunk", "store"} -> filter.seg
    [] filter.at = "update" -> SubSeq(filter.seg, filter.pos, Len(filter.seg))
    [] OTHER -> << >>

\* Chunks that were looked up and have not left the index buffer, oldest first.
InFlight == InFilter \o Travelling \o SubSeq(dedup.seg, 1, dedup.pos - 1)

\* The index buffer holds one element per copy of a fingerprint in flight, and
\* the oldest element is without a container exactly when the oldest copy in
\* flight is the unique one.  index_check_buffer and index_update_buffer rely
\* on this although they never compare an element with the chunk they are for.
IndexBufferInStep ==
  /\ chunkNum = Len(InFlight)
  /\ \A f \in Fingerprint :
       LET mine == SelectSeq(InFlight, LAMBDA c : c.fp = f) IN
       /\ Len(buffered[f]) = Len(mine)
       /\ mine # << >> =>
            (Head(buffered[f]) = TEMPORARY_ID <=> ~mine[1].dup)

\* The recipe lists the chunks of the stream in their order and without a gap:
\* what the phases hold is exactly the part of the stream that the recipe does
\* not have yet.
RecipeFollowsStream ==
  Fps(recipe) \o Fps(filter.seg) \o Fps(Travelling) \o Fps(dedup.seg) = stream
=============================================================================
