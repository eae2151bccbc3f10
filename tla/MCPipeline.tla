----------------------------- MODULE MCPipeline -----------------------------
(* Pipeline, and the Chunker that its CHUNK stage calls.  A behaviour is a   *)
(* run of the pipeline, or one call of the chunker with any text of a        *)
(* bounded length; the other stays where it begins.                          *)
EXTENDS Pipeline, Chunker, TLC

VARIABLE part

allVars == <<part, vars, chunkVars>>

TextsUpTo(runes, kinds) == UNION {[1 .. n -> kinds] : n \in 0 .. runes}

\* Words of up to 12 runes are one token: what a word is does not matter.  With
\* a token for every rune words can be longer than a chunk.
MCCounters == {1, 12}
MCTexts == [n \in MCCounters |->
  IF n = 1 THEN TextsUpTo(6, {"letter", "space", "stop", "line"})
           ELSE TextsUpTo(11, {"letter", "space"})]

MCInit ==
  \/ part = "pipeline" /\ Init /\ ChunkInit /\ text = <<>> /\ tokenRunes = 1
  \/ part = "chunker" /\ ChunkInit /\ Init

MCNext ==
  /\ \/ part = "pipeline" /\ Next /\ UNCHANGED chunkVars
     \/ part = "chunker" /\ ChunkNext /\ UNCHANGED vars
  /\ UNCHANGED part

MCSpec == MCInit /\ [][MCNext]_allVars

\* Workers and usable variants are interchangeable identities.
Symmetry == Permutations(Workers) \cup Permutations(Variants \ Unusable)
=============================================================================
