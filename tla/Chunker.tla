------------------------------- MODULE Chunker -------------------------------
(***************************************************************************)
(* How the pages of a PDF become chunks: chunkPages of                     *)
(* internal/modules/processing/chunker.go with what it calls.  A step is   *)
(* one turn of one of its loops: a sentence, a window of a sentence that   *)
(* is too long, the end of a page.                                         *)
(*                                                                         *)
(* A text is a sequence of kinds of runes.  Pieces of it are sequences of  *)
(* positions, so that it can be seen what a chunk was made of; position 0  *)
(* is the space that joins two pieces.  The token counter gives a word one *)
(* token per tokenRunes runes, from where the piece begins: with as many   *)
(* runes as any word has it counts words, with 1 it counts runes.  Either  *)
(* never counts less when a piece grows, which the binary searches of the  *)
(* code rely on; here they are the extremum they look for.                 *)
(***************************************************************************)
EXTENDS Integers, Sequences, FiniteSets, FiniteSetsExt

CONSTANTS
  Target, Most, Least, Overlap, \* chunkConfig: target, max, min, overlap
  Counters,                     \* token counters, each by its runes per token
  Texts                         \* the texts, of two pages, for each of them

ASSUME ConfigAssumption ==
  /\ {Target, Most, Least} \subseteq Nat \ {0} /\ Most >= Target /\ Least <= Target
  /\ Overlap \in 0 .. Target - 1
  /\ Counters \subseteq Nat \ {0}
  /\ \A n \in Counters : Texts[n] \subseteq Seq({"letter", "space", "stop", "line"})

VARIABLES
  text,       \* the runes of the two pages, one after the other
  cut,        \* how many are the first page's
  tokenRunes, \* the counter
  page,       \* the page under way
  rest,       \* what is left of it
  forced,     \* what is left of a sentence over the maximum
  current,    \* the sentences collected
  chunks,     \* page and positions of each chunk
  pageStart   \* how many of them are of the pages before

given == <<text, cut, tokenRunes>>
chunkVars == <<given, page, rest, forced, current, chunks, pageStart>>

IsSpace(p) == p = 0 \/ text[p] \in {"space", "line"}
EndsSentence(p) == text[p] \in {"stop", "line"}

Trim(s) ==
  LET ink == {i \in DOMAIN s : ~IsSpace(s[i])}
  IN IF ink = {} THEN <<>> ELSE SubSeq(s, Min(ink), Max(ink))

WordStart(s, i) ==
  Max({j \in 1 .. i : /\ \A k \in j .. i : ~IsSpace(s[k])
                      /\ j = 1 \/ IsSpace(s[j - 1])})

BeginsToken(s, i) == ~IsSpace(s[i]) /\ (i - WordStart(s, i)) % tokenRunes = 0

Tokens(s) == Cardinality({i \in DOMAIN s : BeginsToken(s, i)})

First(s, last) == Trim(SubSeq(s, 1, last))
After(s, last) == SubSeq(s, last + 1, Len(s))

Join(a, b) == a \o <<0>> \o b

-----------------------------------------------------------------------------
(* A sentence over the maximum is cut into windows.                        *)

\* tokenBoundedEnd.
BoundedEnd(s) == Max({0} \cup {e \in DOMAIN s : Tokens(First(s, e)) <= Most})

\* A window that does not reach the end ends before its last space, if it has
\* one.
WindowEnd(s) ==
  LET end == BoundedEnd(s)
      spaces == {b \in 1 .. end : IsSpace(s[b])}
  IN IF end < Len(s) /\ spaces # {} THEN Max(spaces) - 1 ELSE end

\* Mutant: the profile's overlap is not taken into account.
OverlapStartFull(s, end) == 2

\* tokenOverlapStart: the longest end of the window within the overlap, less
\* its first spaces, and back to the start of its first word.
OverlapStart(s, end) ==
  LET shortest == Min({end + 1} \cup {m \in 2 .. end : Tokens(Trim(SubSeq(s, m, end))) <= Overlap})
      word == Min({end + 1} \cup {m \in shortest .. end : ~IsSpace(s[m])})
  IN IF word <= 2 THEN word ELSE Max({2} \cup {m \in 3 .. word : IsSpace(s[m - 1])})

\* One rune on at least, and not at a space.
NextStart(s, end) ==
  LET next == Max({OverlapStart(s, end), 2})
  IN Min({Len(s) + 1} \cup {m \in next .. Len(s) : ~IsSpace(s[m])})

\* One window of forcedTokenSplit, which fails if not even a rune fits.
Window ==
  LET end == WindowEnd(forced) IN
  /\ forced # <<>>
  /\ BoundedEnd(forced) # 0
  /\ chunks' = IF First(forced, end) = <<>> THEN chunks
               ELSE Append(chunks, [page |-> page, at |-> First(forced, end)])
  /\ forced' = IF end >= Len(forced) THEN <<>> ELSE After(forced, NextStart(forced, end) - 1)
  /\ UNCHANGED <<given, page, rest, current, pageStart>>

-----------------------------------------------------------------------------
(* A page: sentences are collected up to the target.                       *)

Flushed == IF current = <<>> THEN chunks ELSE Append(chunks, [page |-> page, at |-> current])

\* A sentence ends with a stop or a line, or with the page.
SentenceEnd == Min({Len(rest)} \cup {i \in DOMAIN rest : EndsSentence(rest[i])})

TakeSentence ==
  /\ rest # <<>> /\ forced = <<>>
  /\ rest' = After(rest, SentenceEnd)
  /\ UNCHANGED <<given, page, pageStart>>

BlankSentence ==
  /\ TakeSentence
  /\ First(rest, SentenceEnd) = <<>>
  /\ UNCHANGED <<forced, current, chunks>>

LongSentence ==
  LET sentence == First(rest, SentenceEnd) IN
  /\ TakeSentence
  /\ Tokens(sentence) > Most
  /\ forced' = sentence
  /\ chunks' = Flushed
  /\ current' = <<>>

Collect ==
  LET sentence == First(rest, SentenceEnd)
      candidate == IF current = <<>> THEN sentence ELSE Join(current, sentence)
  IN
  /\ TakeSentence
  /\ sentence # <<>> /\ Tokens(sentence) <= Most
  /\ IF current # <<>> /\ Tokens(candidate) > Target
     THEN chunks' = Flushed /\ current' = sentence
     ELSE chunks' = chunks /\ current' = candidate
  /\ UNCHANGED forced

\* Mutant: the length of the merged chunk is not looked at.
MergedTailAlways(all) ==
  LET n == Len(all)
  IN IF n >= pageStart + 2 /\ Tokens(all[n].at) < Least
     THEN Append(SubSeq(all, 1, n - 2), [page |-> page, at |-> Join(all[n - 1].at, all[n].at)])
     ELSE all

\* mergeTokenTail: a short last chunk goes to the one before it.
MergedTail(all) ==
  LET n == Len(all)
      joined == Join(all[n - 1].at, all[n].at)
  IN IF /\ n >= pageStart + 2
        /\ Tokens(all[n].at) < Least
        /\ Tokens(joined) <= Most
     THEN Append(SubSeq(all, 1, n - 2), [page |-> page, at |-> joined])
     ELSE all

PageRunes(n) == [i \in 1 .. IF n = 1 THEN cut ELSE Len(text) - cut |-> IF n = 1 THEN i ELSE cut + i]

PageEnds ==
  /\ page <= 2 /\ rest = <<>> /\ forced = <<>>
  /\ chunks' = MergedTail(Flushed)
  /\ current' = <<>>
  /\ pageStart' = Len(chunks')
  /\ page' = page + 1
  /\ rest' = IF page = 1 THEN Trim(PageRunes(2)) ELSE <<>>
  /\ UNCHANGED <<given, forced>>

ChunkInit ==
  /\ tokenRunes \in Counters
  /\ text \in Texts[tokenRunes]
  /\ cut \in 0 .. Len(text)
  /\ page = 1
  /\ rest = Trim(PageRunes(1))
  /\ forced = <<>> /\ current = <<>> /\ chunks = <<>> /\ pageStart = 0

ChunkNext == Window \/ BlankSentence \/ LongSentence \/ Collect \/ PageEnds

ChunkSpec == ChunkInit /\ [][ChunkNext]_chunkVars

-----------------------------------------------------------------------------
(* Properties.                                                             *)

Ink(s) == {p \in Range(s) : ~IsSpace(p)}

InkOf(k) == Ink(chunks[k].at)

\* No rune is lost, and none changes its page: the chunks of a page that is
\* done hold every rune of it that is not a space, and nothing of the other.
NothingIsLost ==
  \A n \in 1 .. page - 1 :
    UNION {InkOf(k) : k \in {j \in DOMAIN chunks : chunks[j].page = n}} = Ink(PageRunes(n))

\* No chunk has more tokens than the embedding model takes.
ChunksFit == \A k \in DOMAIN chunks : Tokens(chunks[k].at) <= Most

\* The chunks of a page hold its text, nothing of the other page, and never
\* more tokens than the embedding model takes, also when a word is longer than
\* a chunk (chunkPages, forcedTokenSplit, mergeTokenTail).
TextIsKept == NothingIsLost /\ ChunksFit

\* The chunks follow the text: their first runes go forward, and only
\* neighbours share text, unless the overlap is more than half a chunk.
ChunksInOrder ==
  \A j, k \in DOMAIN chunks : j < k =>
    /\ Min(InkOf(j)) < Min(InkOf(k))
    /\ k > j + 1 /\ 2 * Overlap <= Most => InkOf(j) \cap InkOf(k) = {}

\* Every chunk has text that the chunk before it does not have.
EveryChunkAddsText == \A k \in 2 .. Len(chunks) : ~(InkOf(k) \subseteq InkOf(k - 1))

\* The tokens of a chunk that begin in text of the chunk before it.
Repeated(k) ==
  {i \in DOMAIN chunks[k].at : BeginsToken(chunks[k].at, i) /\ chunks[k].at[i] \in InkOf(k - 1)}

\* "Forced splits retain exactly the profile's configured overlap" (comment on
\* ChunkPagesWithProfile): two chunks that share text share this many tokens.
OverlapIsConfigured == \A k \in 2 .. Len(chunks) : Cardinality(Repeated(k)) \in {0, Overlap}

\* Where every word is one token and there is an overlap, chunks follow the
\* text, each adds some, and neighbours share none or just the overlap
\* (tokenOverlapStart).
WindowsGoForward ==
  tokenRunes > Len(text) /\ Overlap > 0 => ChunksInOrder /\ EveryChunkAddsText /\ OverlapIsConfigured
=============================================================================
