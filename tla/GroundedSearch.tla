---------------------------- MODULE GroundedSearch ----------------------------
(***************************************************************************)
(* One grounded search, from the web server's request to the MCP server,   *)
(* through the search service and the store, to the answer the web server  *)
(* gives (internal/modules/search/service.go, Search and HasInactiveMatch  *)
(* of internal/adapters/postgres/store.go, Verify of the object store,     *)
(* internal/transport/webapp/mcp_client.go), while versions are processed  *)
(* and published and originals come and go.                                *)
(*                                                                         *)
(* The store's versions are those of VersionPublication, which the run     *)
(* queue implements, from where on publications may overlap: they come in  *)
(* any order.  This module adds the chunks staged for them.  A query       *)
(* matches by content: the pipeline is deterministic, so that versions of  *)
(* the same content have the same chunks and the same original.  Which of  *)
(* the matching chunks are the best, and which of those hold the exact     *)
(* token (refineHits), is left open.                                       *)
(***************************************************************************)
EXTENDS Integers, FiniteSets

CONSTANTS
  Docs,       \* documents
  MaxVersion, \* versions of a document
  Contents,   \* PDF contents, by SHA-256
  Limit,      \* hits asked for (1 to 20)
  MaxDamage   \* bound: originals lost, altered or put back

ASSUME SearchAssumption ==
  /\ MaxVersion \in Nat
  /\ Limit \in 1 .. 20
  /\ MaxDamage \in Nat

VARIABLES
  state, shown, \* the versions, as in VersionPublication
  staged,       \* versions that have rows in search_chunk
  content,      \* document_version.content_sha256
  relevant,     \* contents with a chunk at or above the minimum score
  intact,       \* contents whose original is on disk and has its digest
  search,       \* the search as the MCP server runs it
  answer,       \* what the web server answers
  damage,       \* damage so far
  moments,      \* history: what matched, at each moment since the request
  sound         \* history: the originals intact at some moment since the hits

store == <<state, shown, staged>>
vars == <<store, content, relevant, intact, search, answer, damage, moments, sound>>

Publication == INSTANCE VersionPublication WITH overlapped <- TRUE
Versions == Publication!Versions

Matching == {v \in staged : content[v] \in relevant}

\* The join of chunks, versions and documents in Search, and the complement
\* in HasInactiveMatch, which also counts what is pending or failed.
ActiveMatches   == {v \in Matching : state[v] = "visible" /\ shown[v[1]] = v[2]}
InactiveMatches == {v \in Matching : state[v] # "visible" \/ shown[v[1]] # v[2]}

Moment == [active |-> {v \in Matching : state[v] = "visible"},
           inactive |-> \E v \in Matching : state[v] # "visible"]

Idle == [at |-> "idle", release |-> "grounded", hits |-> {}, checked |-> {},
         status |-> "", reason |-> ""]

NoAnswer == [status |-> "", reason |-> "", hits |-> {}]

Init ==
  /\ state = [v \in Versions |-> "absent"]
  /\ shown = [d \in Docs |-> 0]
  /\ staged = {}
  /\ content \in [Versions -> Contents]
  /\ relevant \in SUBSET Contents
  /\ intact = Contents
  /\ search = Idle
  /\ answer = NoAnswer
  /\ damage = 0
  /\ moments = {}
  /\ sound = {}

Cited == {content[v] : v \in search.hits}

Open == answer = NoAnswer /\ search.at # "idle"

\* The histories follow every step until the request is answered.
Remember ==
  /\ moments' = IF Open THEN moments \cup {Moment'} ELSE moments
  /\ sound' = IF search.at = "verify" THEN sound \cup (intact' \cap Cited) ELSE sound

-----------------------------------------------------------------------------
(* The rest of the system.                                                 *)

\* StoreChunks commits the chunks of a version that is processed.
Stage(v) ==
  /\ state[v] = "pending"
  /\ staged' = staged \cup {v}
  /\ UNCHANGED <<state, shown>>

\* Versions are registered, finalized, fail and are retried.  Only what has
\* its chunks is finalized; the chunks of other versions stay.
VersionsMove ==
  \E v \in Versions :
    /\ \/ Publication!Accept(v) \/ Publication!Abandon(v) \/ Publication!Reopen(v)
       \/ v \in staged /\ (Publication!Publish(v) \/ Publication!Skip(v))
    /\ UNCHANGED staged

\* Bound: the model ends with the answer.
StoreMoves ==
  /\ answer = NoAnswer
  /\ (\E v \in Versions : Stage(v)) \/ VersionsMove
  /\ UNCHANGED <<content, relevant, intact, search, answer, damage>>
  /\ Remember

\* An original disappears or is altered on disk, or an upload puts it back.
OriginalsChange ==
  /\ answer = NoAnswer
  /\ damage < MaxDamage
  /\ \E c \in Contents : intact' = IF c \in intact THEN intact \ {c} ELSE intact \cup {c}
  /\ damage' = damage + 1
  /\ UNCHANGED <<store, content, relevant, search, answer>>
  /\ Remember

-----------------------------------------------------------------------------
(* The search service.                                                     *)

Serves(row) ==
  /\ search' = row
  /\ UNCHANGED <<store, content, relevant, intact, answer, damage>>

Supported == [search EXCEPT !.at = "reply", !.status = "SUPPORTED"]

\* Mutant: the hits are kept beside the reason.
InsufficientKeepingHits(reason) ==
  [search EXCEPT !.at = "reply", !.status = "INSUFFICIENT_EVIDENCE", !.reason = reason]

Insufficient(reason) ==
  [search EXCEPT !.at = "reply", !.status = "INSUFFICIENT_EVIDENCE", !.reason = reason, !.hits = {}]

\* A tool error of the MCP server, with the code the client knows or not.
ToolError(code) == [search EXCEPT !.at = "reply", !.status = "ERROR", !.reason = code, !.hits = {}]

\* apiSearchDocuments, and the call of the MCP tool.  An MCP server of an
\* earlier release calls Documents and reports no decision.
Ask ==
  /\ search.at = "idle"
  /\ \E release \in {"grounded", "legacy"} : Serves([Idle EXCEPT !.at = "hits", !.release = release])
  /\ moments' = {Moment}
  /\ UNCHANGED sound

\* Embedding, the profile or a query fails: an outage, or an error to report.
Fails ==
  /\ search.at \in {"hits", "probe"}
  /\ \/ Serves(IF search.release = "grounded" THEN Insufficient("SOURCE_UNAVAILABLE")
               ELSE ToolError("TEMPORARILY_UNAVAILABLE"))
     \/ \E code \in {"PROFILE_MISMATCH", "INTERNAL"} : Serves(ToolError(code))
  /\ Remember

\* searchActive: the best matches, of those the ones with the exact token if
\* there are any.  Documents returns them as they are.
SearchActive ==
  /\ search.at = "hits"
  /\ \E hits \in SUBSET ActiveMatches :
       /\ Cardinality(hits) <= Limit
       /\ hits = {} => ActiveMatches = {}
       /\ Serves([search EXCEPT !.hits = hits,
                                !.at = IF search.release = "legacy" THEN "reply"
                                       ELSE IF hits = {} THEN "probe" ELSE "verify"])
       /\ sound' = intact \cap {content[v] : v \in hits}
  /\ moments' = moments \cup {Moment}

\* Mutant: one original stands for all.
UnverifiedFirstOnly == IF search.checked = {} THEN Cited ELSE {}

\* Each cited original is verified once.
Unverified == Cited \ search.checked

Verify ==
  /\ search.at = "verify"
  /\ \E c \in Unverified :
       Serves(IF c \in intact THEN [search EXCEPT !.checked = @ \cup {c}]
              ELSE Insufficient("SOURCE_UNAVAILABLE"))
  /\ Remember

Verified ==
  /\ search.at = "verify"
  /\ Unverified = {}
  /\ Serves(Supported)
  /\ Remember

\* Mutant: the probe's answers are the wrong way round.
ProbeReasonSwapped ==
  IF InactiveMatches = {} THEN "ONLY_INACTIVE_VERSION_MATCHED" ELSE "NO_HITS_ABOVE_POLICY"

ProbeReason ==
  IF InactiveMatches = {} THEN "NO_HITS_ABOVE_POLICY" ELSE "ONLY_INACTIVE_VERSION_MATCHED"

Probe ==
  /\ search.at = "probe"
  /\ Serves(Insufficient(ProbeReason))
  /\ Remember

-----------------------------------------------------------------------------
(* The web server's client.                                                *)

Told(status, reason, hits) == [status |-> status, reason |-> reason, hits |-> hits]
SourceUnavailable == Told("INSUFFICIENT_EVIDENCE", "SOURCE_UNAVAILABLE", {})

\* Mutant: hits without a decision are taken for supported ones.
WithoutDecisionTrusting(hits) ==
  IF hits = {} THEN Told("INSUFFICIENT_EVIDENCE", "NO_HITS_ABOVE_POLICY", {})
  ELSE Told("SUPPORTED", "", hits)

\* validateMCPGrounding, of an answer without a decision.
WithoutDecision(hits) ==
  IF hits = {} THEN Told("INSUFFICIENT_EVIDENCE", "NO_HITS_ABOVE_POLICY", {})
  ELSE SourceUnavailable

\* mcpSearchError and apiErrorFor.
WithError(code) ==
  IF code = "TEMPORARILY_UNAVAILABLE" THEN SourceUnavailable ELSE Told("ERROR", code, {})

Answers(told) ==
  /\ answer' = told
  /\ search' = [search EXCEPT !.at = "done"]
  /\ UNCHANGED <<store, content, relevant, intact, damage, moments, sound>>

Receive ==
  /\ search.at = "reply"
  /\ Answers(CASE search.status = ""      -> WithoutDecision(search.hits)
               [] search.status = "ERROR" -> WithError(search.reason)
               [] OTHER                   -> Told(search.status, search.reason, search.hits))

\* The call fails, times out, or its answer cannot be used; or the MCP server
\* refuses the token.
ReceiveNothing ==
  /\ Open
  /\ Answers(SourceUnavailable) \/ Answers(Told("ERROR", "MCP_UNAUTHENTICATED", {}))

Next == \/ StoreMoves \/ OriginalsChange
        \/ Ask \/ Fails \/ SearchActive \/ Verify \/ Verified \/ Probe
        \/ Receive \/ ReceiveNothing

Spec == Init /\ [][Next]_vars

-----------------------------------------------------------------------------
(* Properties.                                                             *)

Reasons == {"", "NO_HITS_ABOVE_POLICY", "ONLY_INACTIVE_VERSION_MATCHED", "SOURCE_UNAVAILABLE"}

\* Answers are of the published vocabulary: hits exactly with SUPPORTED, a
\* reason exactly without evidence.
TypeOK ==
  /\ staged \subseteq Versions
  /\ intact \subseteq Contents
  /\ search.hits \subseteq Versions
  /\ \/ answer = NoAnswer
     \/ answer.status = "SUPPORTED" /\ answer.reason = "" /\ answer.hits # {}
     \/ answer.status = "INSUFFICIENT_EVIDENCE" /\ answer.reason \in Reasons \ {""} /\ answer.hits = {}
     \/ answer.status = "ERROR" /\ answer.hits = {}
          /\ answer.reason \in {"PROFILE_MISMATCH", "INTERNAL", "MCP_UNAUTHENTICATED"}

Answered(status, reason) == answer.status = status /\ answer.reason = reason

\* Supported hits all matched at one moment of the request, each as the active
\* version of its document, however versions are published meanwhile.
SupportedWasActive ==
  answer.status = "SUPPORTED" => \E m \in moments : answer.hits \subseteq m.active

\* The original of every supported hit had its digest at some moment after
\* the hit was found.
SupportedIsVerified ==
  answer.status = "SUPPORTED" => {content[v] : v \in answer.hits} \subseteq sound

\* What is shown as supported was the active text, from a sound original.
SupportedIsTrue == SupportedWasActive /\ SupportedIsVerified

\* ONLY_INACTIVE_VERSION_MATCHED was the truth at some moment of the request,
\* although the hits and the probe are two queries without a common snapshot:
\* what matches at the probe matched, inactive, before anything active did.
OnlyInactiveWasTrue ==
  Answered("INSUFFICIENT_EVIDENCE", "ONLY_INACTIVE_VERSION_MATCHED") =>
    \E m \in moments : m.active = {} /\ m.inactive

\* NO_HITS_ABOVE_POLICY of the search service means that at some moment of the
\* request nothing matched, neither an active nor an inactive version:
\* "classifies every safe empty result" (comment on GroundedDocuments).
NoHitsWasTrue ==
  search.release = "grounded" /\ Answered("INSUFFICIENT_EVIDENCE", "NO_HITS_ABOVE_POLICY") =>
    \E m \in moments : m.active = {} /\ ~m.inactive

\* What is shown as supported is what the search service called so: a client
\* of an MCP server that makes no decision shows no hits.
ClientFailsClosed ==
  answer.status = "SUPPORTED" => search.status = "SUPPORTED" /\ answer.hits = search.hits
=============================================================================
