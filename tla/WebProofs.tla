----------------------------- MODULE WebProofs -----------------------------
(***************************************************************************)
(* What the web server keeps, for any number of addresses, of logins, of   *)
(* sessions and of requests at a time, and what a search promises, for any *)
(* documents, versions and contents, any limit and any damage.             *)
(*                                                                         *)
(* GroundedSearch: each property of an answer follows the search that led  *)
(* to it.  A set of hits was taken from one query (WasActive); an          *)
(* original, once checked, was sound (WasSound); and at the probe either   *)
(* nothing matches at all, or what matches did so, inactive, at an earlier *)
(* moment (WasInactive): chunks are only staged for a pending version, so  *)
(* that the first match after an empty query is an inactive one.           *)
(*                                                                         *)
(* LoginGuard: a login is refused only for wrong passwords recorded within *)
(* the window, an address that is blocked stays so, the table is bounded,  *)
(* and so are the wrong passwords in any span shorter than the window.     *)
(* The argument follows one address.  What its entry counts are the latest *)
(* wrong passwords of its history, all recorded after the window began; an *)
(* entry counts the limit at most, and one more for each login that is     *)
(* past the guard; the entry before it has ended, so that what is older    *)
(* than two full entries was recorded a window before.                     *)
(*                                                                         *)
(* Sessions: a session is honoured for its time and no longer, give or     *)
(* take what the clocks differ by, and a logout is final.  The argument    *)
(* follows a session's row.  Its end is the issuing process's clock plus   *)
(* TTL; a request holds the clock of the moment its statement was begun; a *)
(* row is gone only when the database's clock was past its end or the      *)
(* session was logged out; and a token that was logged out is not being    *)
(* logged in.                                                              *)
(***************************************************************************)
EXTENDS GroundedSearch, LoginGuard, Sessions, FiniteSetTheorems, TLAPS

-----------------------------------------------------------------------------
(* GroundedSearch.                                                         *)

Phases   == {"idle", "hits", "probe", "verify", "reply", "done"}
Releases == {"grounded", "legacy"}
Statuses == {"", "SUPPORTED", "INSUFFICIENT_EVIDENCE", "ERROR"}
Codes    == {"TEMPORARILY_UNAVAILABLE", "PROFILE_MISMATCH", "INTERNAL"}

SearchRows == [at : Phases, release : Releases, hits : SUBSET Versions,
               checked : SUBSET Contents, status : Statuses, reason : Reasons \cup Codes]

Typed ==
  /\ state \in [Versions -> Publication!States]
  /\ shown \in [Docs -> 0 .. MaxVersion]
  /\ content \in [Versions -> Contents]
  /\ search \in SearchRows

\* A document shows its visible version: the pointer and the status agree.
Shown == \A v \in Versions : state[v] = "visible" => shown[v[1]] = v[2]

\* What a search has decided, by how far it is.
Decided ==
  /\ search.at \in {"idle", "hits", "probe", "verify"} => search.status = ""
  /\ search.status = "" => search.reason = ""
  /\ search.at = "hits" => search.checked = {}
  /\ search.at = "verify" => search.hits # {}
  /\ search.status = "SUPPORTED" => search.reason = "" /\ search.hits # {}
  /\ search.status = "INSUFFICIENT_EVIDENCE" => search.reason \in Reasons \ {""} /\ search.hits = {}
  /\ search.status = "ERROR" => search.reason \in Codes /\ search.hits = {}
  /\ answer = NoAnswer <=> search.at # "done"

MatchedAtOnce == \E m \in moments : search.hits \subseteq m.active
MatchedInactive == \E m \in moments : m.active = {} /\ m.inactive

WasActive == search.at = "verify" \/ search.status = "SUPPORTED" => MatchedAtOnce

WasSound ==
  /\ search.at = "verify" => search.checked \subseteq sound
  /\ search.status = "SUPPORTED" => Cited \subseteq sound

WasInactive ==
  /\ search.at = "probe" => Matching = {} \/ MatchedInactive
  /\ search.reason = "ONLY_INACTIVE_VERSION_MATCHED" => MatchedInactive

\* An answer says what the search decided, or that nothing was heard of it.
Relayed ==
  /\ ClientFailsClosed
  /\ answer.reason = "ONLY_INACTIVE_VERSION_MATCHED" => search.reason = answer.reason

SearchInv == TypeOK /\ Typed /\ Shown /\ Decided /\ WasActive /\ WasSound /\ WasInactive /\ Relayed

-----------------------------------------------------------------------------
(* The store and the originals move under the search.                      *)

LEMMA VersionsTyped ==
  ASSUME Typed, Shown, StoreMoves
  PROVE  /\ state' \in [Versions -> Publication!States]
         /\ shown' \in [Docs -> 0 .. MaxVersion]
         /\ Shown'
<1> USE SearchAssumption DEF Typed, Versions, Publication!Versions, Publication!States
<1>1. ASSUME NEW v \in Versions, Stage(v)
      PROVE  UNCHANGED <<state, shown>>
  BY <1>1 DEF Stage
<1>2. ASSUME NEW v \in Versions,
             \/ Publication!Accept(v) \/ Publication!Skip(v)
             \/ Publication!Abandon(v) \/ Publication!Reopen(v)
      PROVE  /\ shown' = shown
             /\ \E s \in Publication!States \ {"visible"} : state' = [state EXCEPT ![v] = s]
  BY <1>2 DEF Publication!Accept, Publication!Skip, Publication!Abandon, Publication!Reopen
<1>3. ASSUME NEW v \in Versions, Publication!Publish(v)
      PROVE  /\ state' \in [Versions -> Publication!States]
             /\ shown' \in [Docs -> 0 .. MaxVersion]
             /\ Shown'
  <2>1. /\ shown' = [shown EXCEPT ![v[1]] = v[2]]
        /\ state' = [x \in Versions |-> IF x = v THEN "visible"
                                        ELSE IF x = <<v[1], shown[v[1]]>> THEN "hidden"
                                        ELSE state[x]]
    BY <1>3 DEF Publication!Publish
  <2>2. v[1] \in Docs /\ v[2] \in 0 .. MaxVersion
    OBVIOUS
  <2>3. state' \in [Versions -> Publication!States] /\ shown' \in [Docs -> 0 .. MaxVersion]
    BY <2>1, <2>2
  <2>4. ASSUME NEW u \in Versions, state'[u] = "visible"
        PROVE  shown'[u[1]] = u[2]
    <3>1. CASE u = v
      BY <3>1, <2>1, <2>2
    <3>2. CASE u # v /\ u[1] = v[1]
      <4>1. u # <<v[1], shown[v[1]]>> /\ state[u] = "visible"
        BY <3>2, <2>1, <2>4
      <4>2. shown[u[1]] = u[2]
        BY <4>1 DEF Shown
      <4>3. u = <<u[1], u[2]>>
        OBVIOUS
      <4> QED BY <3>2, <4>1, <4>2, <4>3
    <3>3. CASE u[1] # v[1]
      <4>1. state[u] = "visible" /\ u[1] \in Docs
        BY <3>3, <2>1, <2>4
      <4> QED BY <3>3, <4>1, <2>1 DEF Shown
    <3> QED BY <3>1, <3>2, <3>3
  <2> QED BY <2>3, <2>4 DEF Shown
<1>4. CASE VersionsMove
  BY <1>4, <1>2, <1>3 DEF VersionsMove, Shown
<1>5. CASE \E v \in Versions : Stage(v)
  BY <1>5, <1>1 DEF Shown
<1> QED BY <1>4, <1>5 DEF StoreMoves

\* Nothing becomes a match but as a pending version: if nothing matched before
\* a step of the store, what matches after it is inactive.
LEMMA FirstMatchIsInactive ==
  ASSUME Typed, StoreMoves, Matching = {}
  PROVE  Matching' = {} \/ (Moment.active = {} /\ Moment.inactive)'
<1>1. content' = content /\ relevant' = relevant
  BY DEF StoreMoves
<1>2. CASE VersionsMove
  BY <1>1, <1>2 DEF VersionsMove, Matching
<1>3. ASSUME NEW v \in Versions, Stage(v)
      PROVE  Matching' = {} \/ (Moment.active = {} /\ Moment.inactive)'
  <2>1. staged' = staged \cup {v} /\ state' = state /\ state[v] = "pending"
    BY <1>3 DEF Stage
  <2>2. \A u \in Matching' : u = v
    BY <1>1, <2>1 DEF Matching
  <2>3. CASE Matching' # {}
    BY <2>1, <2>2, <2>3 DEF Moment
  <2> QED BY <2>3
<1> QED BY <1>2, <1>3 DEF StoreMoves

\* What the rest of the system does leaves the search and its answer alone,
\* and the histories only grow.
LEMMA RestKeeps ==
  ASSUME SearchInv, StoreMoves \/ OriginalsChange
  PROVE  SearchInv'
<1> USE DEF SearchInv
<1>1. /\ UNCHANGED <<content, relevant, search, answer>>
      /\ answer = NoAnswer
      /\ moments' = IF Open THEN moments \cup {Moment'} ELSE moments
      /\ sound \subseteq sound'
  BY DEF StoreMoves, OriginalsChange, Remember
<1>2. moments \subseteq moments' /\ (search.at # "idle" => Moment' \in moments')
  BY <1>1 DEF Open
<1>3. TypeOK'
  <2>1. staged' \subseteq Versions
    <3>1. CASE OriginalsChange
      BY <3>1 DEF OriginalsChange, store, TypeOK
    <3>2. CASE StoreMoves
      BY <3>2 DEF StoreMoves, VersionsMove, Stage, TypeOK
    <3> QED BY <3>1, <3>2
  <2>2. intact' \subseteq Contents
    BY DEF StoreMoves, OriginalsChange, TypeOK
  <2> QED BY <1>1, <2>1, <2>2 DEF TypeOK
<1>4. Typed' /\ Shown'
  <2>1. CASE StoreMoves
    BY <1>1, <2>1, VersionsTyped DEF Typed
  <2>2. CASE OriginalsChange
    BY <1>1, <2>2 DEF OriginalsChange, store, Typed, Shown
  <2> QED BY <2>1, <2>2
<1>5. Decided'
  BY <1>1 DEF Decided
<1>6. (MatchedAtOnce => MatchedAtOnce') /\ (MatchedInactive => MatchedInactive')
  BY <1>1, <1>2 DEF MatchedAtOnce, MatchedInactive
<1>7. WasActive' /\ WasSound'
  BY <1>1, <1>6 DEF WasActive, WasSound, Cited
<1>8. WasInactive'
  <2>1. ASSUME search.at = "probe", Matching = {}
        PROVE  Matching' = {} \/ MatchedInactive'
    <3>1. CASE StoreMoves
      BY <1>2, <2>1, <3>1, FirstMatchIsInactive DEF MatchedInactive
    <3>2. CASE OriginalsChange
      BY <2>1, <3>2 DEF OriginalsChange, store, Matching
    <3> QED BY <3>1, <3>2
  <2> QED BY <1>1, <1>6, <2>1 DEF WasInactive
<1>9. Relayed'
  BY <1>1 DEF Relayed, ClientFailsClosed
<1> QED BY <1>3, <1>4, <1>5, <1>7, <1>8, <1>9

-----------------------------------------------------------------------------
(* The search service.                                                     *)

LEMMA Served ==
  ASSUME SearchInv, NEW row \in SearchRows, Serves(row)
  PROVE  /\ TypeOK' /\ Typed' /\ Shown'
         /\ UNCHANGED <<answer, content, intact>> /\ Matching' = Matching
  BY DEF SearchInv, TypeOK, Typed, Shown, Serves, store, Matching, SearchRows

LEMMA NothingTold ==
  ASSUME answer' = answer, answer = NoAnswer
  PROVE  Relayed'
<1>1. answer'.status = "" /\ answer'.reason = ""
  BY DEF NoAnswer
<1> QED BY <1>1 DEF Relayed, ClientFailsClosed

\* A search that ends without evidence, or with an error, claims nothing but
\* what its reason says.
LEMMA NoEvidence ==
  ASSUME SearchInv, search.at \in {"hits", "probe", "verify"}, moments \subseteq moments',
         NEW reason,
         \/ Serves(Insufficient(reason)) /\ reason \in Reasons \ {""}
         \/ Serves(ToolError(reason)) /\ reason \in Codes,
         reason = "ONLY_INACTIVE_VERSION_MATCHED" => MatchedInactive
  PROVE  SearchInv'
<1> USE DEF SearchInv
<1>1. PICK row \in {Insufficient(reason), ToolError(reason)} :
        /\ Serves(row)
        /\ row.status = "INSUFFICIENT_EVIDENCE" => reason \in Reasons \ {""}
        /\ row.status = "ERROR" => reason \in Codes
  BY DEF Insufficient, ToolError, Typed, SearchRows
<1>2. /\ row.at = "reply" /\ row.hits = {} /\ row.reason = reason
      /\ row.status \in {"INSUFFICIENT_EVIDENCE", "ERROR"}
      /\ row \in SearchRows
  BY <1>1 DEF Insufficient, ToolError, Typed, SearchRows, Phases, Statuses
<1>3. search' = row /\ answer' = answer
  BY <1>1 DEF Serves
<1>4. TypeOK' /\ Typed' /\ Shown'
  BY <1>1, <1>2, Served
<1>5. Decided'
  BY <1>1, <1>2, <1>3 DEF Decided
<1>6. WasActive' /\ WasSound'
  BY <1>2, <1>3 DEF WasActive, WasSound
<1>7. WasInactive'
  BY <1>2, <1>3 DEF WasInactive, MatchedInactive
<1>8. Relayed'
  BY <1>3, NothingTold DEF Decided
<1> QED BY <1>4, <1>5, <1>6, <1>7, <1>8

LEMMA AskKeeps ==
  ASSUME SearchInv, Ask
  PROVE  SearchInv'
<1> USE DEF SearchInv
<1>1. PICK release \in Releases : Serves([Idle EXCEPT !.at = "hits", !.release = release])
  BY DEF Ask, Releases
<1> DEFINE row == [Idle EXCEPT !.at = "hits", !.release = release]
<1>2. /\ row \in SearchRows
      /\ row.at = "hits" /\ row.status = "" /\ row.reason = "" /\ row.checked = {}
  BY DEF Idle, SearchRows, Phases, Statuses, Reasons
<1>3. search' = row /\ answer' = answer
  BY <1>1 DEF Serves
<1>4. TypeOK' /\ Typed' /\ Shown'
  BY <1>1, <1>2, Served
<1> HIDE DEF row
<1>5. Decided'
  BY <1>2, <1>3 DEF Decided, Ask
<1>6. WasActive' /\ WasSound' /\ WasInactive'
  BY <1>2, <1>3 DEF WasActive, WasSound, WasInactive
<1>7. Relayed'
  BY <1>3, NothingTold DEF Decided, Ask
<1> QED BY <1>4, <1>5, <1>6, <1>7

LEMMA FailsKeeps ==
  ASSUME SearchInv, Fails
  PROVE  SearchInv'
<1>1. search.at \in {"hits", "probe"} /\ moments \subseteq moments'
  BY DEF Fails, Remember
<1>2. PICK reason \in {"SOURCE_UNAVAILABLE", "TEMPORARILY_UNAVAILABLE", "PROFILE_MISMATCH", "INTERNAL"} :
        \/ Serves(Insufficient(reason)) /\ reason = "SOURCE_UNAVAILABLE"
        \/ Serves(ToolError(reason)) /\ reason \in Codes
  BY DEF Fails, Codes
<1> QED BY <1>1, <1>2, NoEvidence DEF Reasons

\* The hits are one query's: at that moment all of them were active matches,
\* and without hits whatever matched was inactive.
LEMMA SearchActiveKeeps ==
  ASSUME SearchInv, SearchActive
  PROVE  SearchInv'
<1> USE DEF SearchInv
<1>1. PICK hits \in SUBSET ActiveMatches :
        /\ hits = {} => ActiveMatches = {}
        /\ Serves([search EXCEPT !.hits = hits,
                                 !.at = IF search.release = "legacy" THEN "reply"
                                        ELSE IF hits = {} THEN "probe" ELSE "verify"])
  BY DEF SearchActive
<1> DEFINE row == [search EXCEPT !.hits = hits,
                                 !.at = IF search.release = "legacy" THEN "reply"
                                        ELSE IF hits = {} THEN "probe" ELSE "verify"]
<1>2. /\ search.at = "hits" /\ search.status = "" /\ search.checked = {}
      /\ Moment \in moments' /\ moments \subseteq moments'
  BY DEF SearchActive, Decided
<1>3. hits \subseteq Versions
  BY <1>1 DEF ActiveMatches, Matching, TypeOK
<1>4. /\ row \in SearchRows
      /\ row.at \in {"reply", "probe", "verify"} /\ row.hits = hits
      /\ row.status = "" /\ row.checked = {} /\ row.reason = search.reason
      /\ row.at = "probe" => hits = {}
      /\ row.at = "verify" => hits # {}
  BY <1>2, <1>3 DEF Typed, SearchRows, Phases
<1>5. search' = row /\ answer' = answer /\ Matching' = Matching
  BY <1>1 DEF Serves, store, Matching
<1>6. TypeOK' /\ Typed' /\ Shown'
  BY <1>1, <1>4, Served
<1> HIDE DEF row
<1>7. Decided'
  BY <1>2, <1>4, <1>5 DEF Decided
<1>8. WasActive'
  <2>1. hits \subseteq Moment.active
    BY <1>1 DEF ActiveMatches, Moment
  <2> QED BY <1>2, <1>4, <1>5, <2>1 DEF WasActive, MatchedAtOnce
<1>9. WasSound'
  BY <1>4, <1>5 DEF WasSound
<1>10. WasInactive'
  <2>1. ASSUME hits = {}
        PROVE  Matching = {} \/ MatchedInactive'
    <3>1. \A v \in Matching : state[v] # "visible"
      BY <1>1, <2>1 DEF ActiveMatches, Shown, Matching, TypeOK
    <3>2. Moment.active = {} /\ (Matching # {} => Moment.inactive)
      BY <3>1 DEF Moment
    <3> QED BY <1>2, <3>2 DEF MatchedInactive
  <2>2. MatchedInactive => MatchedInactive'
    BY <1>2 DEF MatchedInactive
  <2> QED BY <1>4, <1>5, <2>1, <2>2 DEF WasInactive
<1>11. Relayed'
  BY <1>2, <1>5, NothingTold DEF Decided
<1> QED BY <1>6, <1>7, <1>8, <1>9, <1>10, <1>11

\* An original that is checked is intact while its hit is cited.
LEMMA VerifyKeeps ==
  ASSUME SearchInv, Verify
  PROVE  SearchInv'
<1>1. /\ search.at = "verify" /\ search.status = "" /\ moments \subseteq moments'
      /\ sound' = sound \cup (intact' \cap Cited)
  BY DEF Verify, Remember, Decided, SearchInv
<1>2. CASE Serves(Insufficient("SOURCE_UNAVAILABLE"))
  <2>1. PICK reason \in Reasons \ {""} : reason = "SOURCE_UNAVAILABLE" /\ Serves(Insufficient(reason))
    BY <1>2 DEF Reasons
  <2>2. search.at \in {"hits", "probe", "verify"} /\ reason # "ONLY_INACTIVE_VERSION_MATCHED"
    BY <1>1, <2>1
  <2>3. moments \subseteq moments'
    BY <1>1
  <2> QED BY <2>1, <2>2, <2>3, NoEvidence
<1>3. ASSUME NEW c \in Unverified, c \in intact,
             Serves([search EXCEPT !.checked = @ \cup {c}])
      PROVE  SearchInv'
  <2> USE DEF SearchInv
  <2> DEFINE row == [search EXCEPT !.checked = @ \cup {c}]
  <2>1. c \in Contents /\ c \in Cited
    BY <1>3 DEF TypeOK, Unverified
  <2>2. /\ row \in SearchRows
        /\ row.at = search.at /\ row.hits = search.hits /\ row.checked = search.checked \cup {c}
        /\ row.status = search.status /\ row.reason = search.reason
    BY <2>1 DEF Typed, SearchRows
  <2>3. search' = row /\ answer' = answer /\ intact' = intact
    BY <1>3 DEF Serves
  <2>4. TypeOK' /\ Typed' /\ Shown'
    BY <1>3, <2>2, Served
  <2> HIDE DEF row
  <2>5. Decided'
    BY <1>1, <2>2, <2>3 DEF Decided
  <2>6. WasActive'
    BY <1>1, <2>2, <2>3 DEF WasActive, MatchedAtOnce
  <2>7. WasSound'
    BY <1>1, <1>3, <2>1, <2>2, <2>3 DEF WasSound
  <2>8. WasInactive'
    BY <1>1, <2>2, <2>3 DEF WasInactive, MatchedInactive
  <2>9. Relayed'
    BY <1>1, <2>3, NothingTold DEF Decided
  <2> QED BY <2>4, <2>5, <2>6, <2>7, <2>8, <2>9
<1> QED BY <1>2, <1>3 DEF Verify

LEMMA VerifiedKeeps ==
  ASSUME SearchInv, Verified
  PROVE  SearchInv'
<1> USE DEF SearchInv
<1>1. /\ search.at = "verify" /\ search.status = "" /\ search.reason = "" /\ search.hits # {}
      /\ moments \subseteq moments' /\ sound \subseteq sound'
      /\ Unverified = {} /\ Serves(Supported)
  BY DEF Verified, Remember, Decided
<1>2. /\ Supported \in SearchRows
      /\ Supported.at = "reply" /\ Supported.hits = search.hits
      /\ Supported.status = "SUPPORTED" /\ Supported.reason = ""
  BY <1>1 DEF Supported, Typed, SearchRows, Phases, Statuses
<1>3. search' = Supported /\ answer' = answer /\ content' = content
  BY <1>1 DEF Serves
<1>4. TypeOK' /\ Typed' /\ Shown'
  BY <1>1, <1>2, Served
<1>5. Decided'
  BY <1>1, <1>2, <1>3 DEF Decided
<1>6. WasActive'
  BY <1>1, <1>2, <1>3 DEF WasActive, MatchedAtOnce
<1>7. WasSound'
  <2>1. Cited \subseteq sound
    BY <1>1 DEF Unverified, WasSound
  <2>2. Cited' = Cited
    BY <1>2, <1>3 DEF Cited
  <2> QED BY <1>1, <1>2, <1>3, <2>1, <2>2 DEF WasSound
<1>8. WasInactive'
  BY <1>2, <1>3 DEF WasInactive
<1>9. Relayed'
  BY <1>1, <1>3, NothingTold DEF Decided
<1> QED BY <1>4, <1>5, <1>6, <1>7, <1>8, <1>9

\* What the probe finds inactive now matched when nothing active did.
LEMMA ProbeKeeps ==
  ASSUME SearchInv, Probe
  PROVE  SearchInv'
<1>1. search.at = "probe" /\ moments \subseteq moments' /\ Serves(Insufficient(ProbeReason))
  BY DEF Probe, Remember
<1>2. ProbeReason = "ONLY_INACTIVE_VERSION_MATCHED" => MatchedInactive
  BY <1>1 DEF SearchInv, WasInactive, ProbeReason, InactiveMatches
<1>3. ProbeReason \in Reasons \ {""}
  BY DEF ProbeReason, Reasons
<1> QED BY <1>1, <1>2, <1>3, NoEvidence

-----------------------------------------------------------------------------
(* The client.                                                             *)

\* Whatever the client tells is without hits, or what was decided.
LEMMA AnswersKeep ==
  ASSUME SearchInv, search.at # "done", NEW told, Answers(told),
         \/ /\ told = Told(search.status, search.reason, search.hits)
            /\ search.status \in {"SUPPORTED", "INSUFFICIENT_EVIDENCE"}
         \/ told = SourceUnavailable
         \/ told = Told("INSUFFICIENT_EVIDENCE", "NO_HITS_ABOVE_POLICY", {})
         \/ \E code \in {"PROFILE_MISMATCH", "INTERNAL", "MCP_UNAUTHENTICATED"} :
              told = Told("ERROR", code, {})
  PROVE  SearchInv'
<1> USE DEF SearchInv
<1> DEFINE row == [search EXCEPT !.at = "done"]
<1>1. /\ answer' = told /\ search' = row
      /\ UNCHANGED <<store, content, relevant, intact, moments, sound>>
  BY DEF Answers
<1>2. /\ row \in SearchRows
      /\ row.at = "done" /\ row.hits = search.hits /\ row.checked = search.checked
      /\ row.status = search.status /\ row.reason = search.reason
  BY DEF Typed, SearchRows, Phases
<1> HIDE DEF row
<1>3. /\ \/ told.status = "SUPPORTED" /\ told.reason = "" /\ told.hits # {}
            /\ search.status = "SUPPORTED" /\ told.hits = search.hits
         \/ /\ told.status = "INSUFFICIENT_EVIDENCE" /\ told.hits = {}
            /\ told.reason \in Reasons \ {""}
            /\ told.reason = "ONLY_INACTIVE_VERSION_MATCHED" => search.reason = told.reason
         \/ /\ told.status = "ERROR" /\ told.hits = {}
            /\ told.reason \in {"PROFILE_MISMATCH", "INTERNAL", "MCP_UNAUTHENTICATED"}
  <2>1. CASE /\ told = Told(search.status, search.reason, search.hits)
             /\ search.status \in {"SUPPORTED", "INSUFFICIENT_EVIDENCE"}
    <3>1. told.status = search.status /\ told.reason = search.reason /\ told.hits = search.hits
      BY <2>1 DEF Told
    <3> QED BY <2>1, <3>1 DEF Decided
  <2>2. CASE told = SourceUnavailable \/ told = Told("INSUFFICIENT_EVIDENCE", "NO_HITS_ABOVE_POLICY", {})
    <3>1. /\ told.status = "INSUFFICIENT_EVIDENCE" /\ told.hits = {}
          /\ told.reason \in {"NO_HITS_ABOVE_POLICY", "SOURCE_UNAVAILABLE"}
      BY <2>2 DEF Told, SourceUnavailable
    <3> QED BY <3>1 DEF Reasons
  <2>3. CASE \E code \in {"PROFILE_MISMATCH", "INTERNAL", "MCP_UNAUTHENTICATED"} :
               told = Told("ERROR", code, {})
    BY <2>3 DEF Told
  <2> QED BY <2>1, <2>2, <2>3
<1>4. told # NoAnswer
  <2>1. NoAnswer.status = ""
    BY DEF NoAnswer
  <2> QED BY <1>3, <2>1
<1>5. TypeOK'
  BY <1>1, <1>2, <1>3 DEF TypeOK, store
<1>6. Typed' /\ Shown'
  BY <1>1, <1>2 DEF Typed, Shown, store
<1>7. Decided'
  BY <1>1, <1>2, <1>4 DEF Decided
<1>8. WasActive' /\ WasSound' /\ WasInactive'
  BY <1>1, <1>2 DEF WasActive, WasSound, WasInactive, Cited, MatchedAtOnce, MatchedInactive, Matching, store
<1>9. Relayed'
  BY <1>1, <1>2, <1>3 DEF Relayed, ClientFailsClosed
<1> QED BY <1>5, <1>6, <1>7, <1>8, <1>9

LEMMA ReceiveKeeps ==
  ASSUME SearchInv, Receive \/ ReceiveNothing
  PROVE  SearchInv'
<1>1. CASE ReceiveNothing
  <2>1. search.at # "done"
    BY <1>1 DEF ReceiveNothing, Open, SearchInv, Decided
  <2> QED BY <1>1, <2>1, AnswersKeep DEF ReceiveNothing
<1>2. CASE Receive
  <2>1. search.at = "reply" /\ search.status \in Statuses
    BY <1>2 DEF Receive, SearchInv, Typed, SearchRows
  <2>2. CASE search.status = ""
    <3>1. Answers(WithoutDecision(search.hits))
      BY <1>2, <2>2 DEF Receive
    <3> QED BY <2>1, <3>1, AnswersKeep DEF WithoutDecision
  <2>3. CASE search.status = "ERROR"
    <3>1. Answers(WithError(search.reason)) /\ search.reason \in Codes
      BY <1>2, <2>3 DEF Receive, SearchInv, Decided
    <3>2. \/ Answers(SourceUnavailable)
          \/ \E code \in {"PROFILE_MISMATCH", "INTERNAL"} : Answers(Told("ERROR", code, {}))
      BY <3>1 DEF WithError, Codes
    <3> QED BY <2>1, <3>2, AnswersKeep
  <2>4. CASE search.status \in {"SUPPORTED", "INSUFFICIENT_EVIDENCE"}
    <3>1. Answers(Told(search.status, search.reason, search.hits))
      BY <1>2, <2>4 DEF Receive
    <3> QED BY <2>1, <2>4, <3>1, AnswersKeep
  <2> QED BY <2>1, <2>2, <2>3, <2>4 DEF Statuses
<1> QED BY <1>1, <1>2

-----------------------------------------------------------------------------
(* The theorems.                                                           *)

LEMMA Initially == Init => SearchInv
<1> SUFFICES ASSUME Init PROVE SearchInv
  OBVIOUS
<1>1. TypeOK
  BY DEF Init, TypeOK, Idle
<1>2. Typed
  <2>1. Idle \in SearchRows
    BY DEF SearchRows, Idle, Phases, Releases, Statuses, Reasons
  <2>2. /\ state \in [Versions -> Publication!States]
        /\ shown \in [Docs -> 0 .. MaxVersion]
    BY SearchAssumption DEF Init, Publication!Init, Publication!States, Versions, Publication!Versions
  <2> QED BY <2>1, <2>2 DEF Init, Typed
<1>3. Shown
  BY DEF Init, Shown, Publication!Init, Versions
<1>4. Decided /\ WasActive /\ WasSound /\ WasInactive
  BY DEF Init, Decided, WasActive, WasSound, WasInactive, Idle
<1>5. Relayed
  BY DEF Init, Relayed, ClientFailsClosed, NoAnswer
<1> QED BY <1>1, <1>2, <1>3, <1>4, <1>5 DEF SearchInv

LEMMA Keeps == SearchInv /\ [Next]_vars => SearchInv'
<1> SUFFICES ASSUME SearchInv, [Next]_vars PROVE SearchInv'
  OBVIOUS
<1>1. CASE StoreMoves \/ OriginalsChange
  BY <1>1, RestKeeps
<1>2. CASE Ask
  BY <1>2, AskKeeps
<1>3. CASE Fails
  BY <1>3, FailsKeeps
<1>4. CASE SearchActive
  BY <1>4, SearchActiveKeeps
<1>5. CASE Verify
  BY <1>5, VerifyKeeps
<1>6. CASE Verified
  BY <1>6, VerifiedKeeps
<1>7. CASE Probe
  BY <1>7, ProbeKeeps
<1>8. CASE Receive \/ ReceiveNothing
  BY <1>8, ReceiveKeeps
<1>9. CASE UNCHANGED vars
  BY <1>9 DEF vars, store, SearchInv, TypeOK, Typed, Shown, Decided, WasActive, WasSound, WasInactive,
     Relayed, ClientFailsClosed, MatchedAtOnce, MatchedInactive, Cited, Matching
<1> QED BY <1>1, <1>2, <1>3, <1>4, <1>5, <1>6, <1>7, <1>8, <1>9 DEF Next

LEMMA Invariance == Spec => []SearchInv
  BY Initially, Keeps, PTL DEF Spec

\* Every answer is of the published vocabulary: hits exactly with SUPPORTED, a
\* reason exactly without evidence (GroundedDocuments, validateMCPGrounding).
THEOREM AnswersTyped == Spec => []TypeOK
<1>1. SearchInv => TypeOK
  BY DEF SearchInv
<1> QED BY <1>1, Invariance, PTL

\* What the web server shows as supported all matched at one moment of the
\* request, each as its document's active version, and its originals had their
\* digests after that (Search and verifySearchHits).
THEOREM SupportedTrue == Spec => []SupportedIsTrue
<1>1. SearchInv => SupportedIsTrue
  BY DEF SearchInv, Relayed, ClientFailsClosed, WasActive, WasSound, MatchedAtOnce, Cited,
     SupportedIsTrue, SupportedWasActive, SupportedIsVerified
<1> QED BY <1>1, Invariance, PTL

\* An answer that only an inactive version matched was true at a moment of the
\* request, although the hits and the probe are two queries (HasInactiveMatch).
THEOREM OnlyInactiveTrue == Spec => []OnlyInactiveWasTrue
<1>1. SearchInv => OnlyInactiveWasTrue
  BY DEF SearchInv, Relayed, WasInactive, MatchedInactive, Answered, OnlyInactiveWasTrue
<1> QED BY <1>1, Invariance, PTL

\* The client shows hits only as the search service decided on them
\* (validateMCPGrounding).
THEOREM FailsClosed == Spec => []ClientFailsClosed
<1>1. SearchInv => ClientFailsClosed
  BY DEF SearchInv, Relayed
<1> QED BY <1>1, Invariance, PTL

-----------------------------------------------------------------------------
(* LoginGuard.                                                             *)

Entry == [count : Nat, resetAt : Nat, lastSeen : Nat]

LoginRow == [at : {"idle", "arrived", "compare"}, address : Addresses \cup {"none"}, now : Nat]

\* The logins of an address that are past the guard.
Comparing(a) == {q \in Logins : login[q].at = "compare" /\ login[q].address = a}

GuardTypes ==
  /\ now \in 1 .. MaxNow
  /\ failures \in [Addresses -> Entry]
  /\ login \in [Logins -> LoginRow]
  /\ wrong \in [Addresses -> Seq(Nat)]
  /\ dropped \in SUBSET Addresses

\* A login is not slower than it may be.
LoginOK(q) ==
  /\ login[q].at = "idle" => login[q] = NoLogin
  /\ login[q].at # "idle" => /\ login[q].address \in Addresses
                             /\ login[q].now \in 1 .. now
                             /\ now <= login[q].now + LoginTime

\* An entry has room for the logins that are past the guard.
EntryOK(a) ==
  /\ failures[a].count = 0 => failures[a] = NoEntry
  /\ failures[a].count + Cardinality(Comparing(a)) <= MostCounted

\* What an entry counts was recorded last, and since its window began.
Counts(entry, times, clock) ==
  /\ entry.count <= Len(times) /\ entry.resetAt <= clock + FailureWindow
  /\ \A i \in DOMAIN times :
       /\ times[i] <= clock
       /\ i > Len(times) - entry.count => entry.resetAt <= times[i] + FailureWindow

\* The first that an entry counts was recorded a login's time after the window
\* began at most; the entry before has ended; and what is two entries apart is
\* a window apart, less the time of a login.
Spaced(entry, times, clock) ==
  LET first == Len(times) - entry.count + 1
  IN /\ entry.count > 0 =>
          \A i \in DOMAIN times :
            i <= first => times[i] + FailureWindow <= entry.resetAt + LoginTime
     /\ \A i \in DOMAIN times :
          i <= first - MostCounted => times[i] + FailureWindow <= clock + LoginTime
     /\ \A i, j \in DOMAIN times :
          i + 2 * MostCounted <= j => times[i] + FailureWindow <= times[j] + LoginTime

HistoryOK(a) ==
  /\ Counts(failures[a], wrong[a], now)
  /\ a \notin dropped => Spaced(failures[a], wrong[a], now)

TableOK == Cardinality(Entries(failures)) <= MaxFailureEntries

GuardInv ==
  /\ GuardTypes /\ TableOK
  /\ \A q \in Logins : LoginOK(q)
  /\ \A a \in Addresses : EntryOK(a) /\ HistoryOK(a)

-----------------------------------------------------------------------------
(* An entry and the history of its address.                                *)

LEMMA Constants ==
  ASSUME GuardAssumption
  PROVE  /\ FailureLimit \in Nat /\ FailureWindow \in Nat /\ LoginTime \in Nat
         /\ MaxFailureEntries \in Nat /\ MostCounted \in Nat
         /\ FailureLimit > 0 /\ FailureWindow > 0 /\ MaxFailureEntries > 0
BY FS_CardinalityType DEF GuardAssumption, MostCounted

LEMMA NoEntryTyped == NoEntry \in Entry
BY DEF NoEntry, Entry

LEMMA CountedTyped ==
  ASSUME GuardAssumption, NEW e \in Entry, NEW t \in Nat
  PROVE  /\ Counted(e, t) \in Entry /\ Counted(e, t).count > 0
         /\ Counted(e, t).lastSeen = t
         /\ t >= e.resetAt => Counted(e, t).count = 1 /\ Counted(e, t).resetAt = t + FailureWindow
         /\ t < e.resetAt => Counted(e, t).count = e.count + 1 /\ Counted(e, t).resetAt = e.resetAt
BY Constants DEF Counted, Entry

LEMMA Appended ==
  ASSUME NEW w \in Seq(Nat), NEW t \in Nat
  PROVE  /\ Append(w, t) \in Seq(Nat)
         /\ Len(w) \in Nat /\ DOMAIN w = 1 .. Len(w) /\ \A i \in DOMAIN w : w[i] \in Nat
         /\ Len(Append(w, t)) = Len(w) + 1
         /\ DOMAIN Append(w, t) = 1 .. Len(w) + 1
         /\ \A i \in DOMAIN w : Append(w, t)[i] = w[i]
         /\ Append(w, t)[Len(w) + 1] = t
OBVIOUS

\* Without wrong passwords there is nothing to count.
LEMMA NothingRecorded ==
  ASSUME GuardAssumption, NEW clock \in Nat
  PROVE  Counts(NoEntry, <<>>, clock) /\ Spaced(NoEntry, <<>>, clock)
BY Constants DEF Counts, Spaced, NoEntry

LEMMA TimePasses ==
  ASSUME GuardAssumption, NEW e \in Entry, NEW w \in Seq(Nat), NEW clock \in Nat,
         NEW later \in Nat, clock <= later
  PROVE  /\ Counts(e, w, clock) => Counts(e, w, later)
         /\ Spaced(e, w, clock) => Spaced(e, w, later)
<1>1. DOMAIN w = 1 .. Len(w) /\ Len(w) \in Nat /\ \A i \in DOMAIN w : w[i] \in Nat
  OBVIOUS
<1>2. Counts(e, w, clock) => Counts(e, w, later)
  BY <1>1, Constants, SMTT(30) DEF Counts, Entry
<1>3. ASSUME Spaced(e, w, clock) PROVE Spaced(e, w, later)
  <2> e.count \in Nat /\ MostCounted \in Nat
    BY Constants DEF Entry
  <2>1. \A i \in DOMAIN w :
          i <= Len(w) - e.count + 1 - MostCounted => w[i] + FailureWindow <= later + LoginTime
    <3>1. \A i \in DOMAIN w :
            i <= Len(w) - e.count + 1 - MostCounted => w[i] + FailureWindow <= clock + LoginTime
      BY <1>1, <1>3 DEF Spaced
    <3>2. QED BY <1>1, <3>1, Constants
  <2>2. QED BY <1>1, <1>3, <2>1, SMTT(30) DEF Spaced
<1>4. QED BY <1>2, <1>3

\* An entry can be forgotten; nothing follows too early if its window is over.
LEMMA EntryForgotten ==
  ASSUME GuardAssumption, NEW e \in Entry, NEW w \in Seq(Nat), NEW clock \in Nat,
         Counts(e, w, clock)
  PROVE  /\ Counts(NoEntry, w, clock)
         /\ Spaced(e, w, clock) /\ e.count <= MostCounted /\ e.resetAt <= clock
              => Spaced(NoEntry, w, clock)
<1>1. DOMAIN w = 1 .. Len(w) /\ Len(w) \in Nat /\ \A i \in DOMAIN w : w[i] \in Nat
  OBVIOUS
<1>2. Counts(NoEntry, w, clock)
  BY <1>1, Constants DEF Counts, NoEntry
<1>3. ASSUME Spaced(e, w, clock), e.count <= MostCounted, e.resetAt <= clock
      PROVE  Spaced(NoEntry, w, clock)
  <2>1. e.count \in Nat /\ e.resetAt \in Nat
    BY DEF Entry
  <2>2. ASSUME NEW i \in DOMAIN w, i <= Len(w) + 1 - MostCounted
        PROVE  w[i] + FailureWindow <= clock + LoginTime
    <3>1. CASE e.count = 0
      BY <1>1, <1>3, <2>1, <2>2, <3>1, Constants DEF Spaced
    <3>2. CASE e.count > 0
      <4>1. i <= Len(w) - e.count + 1
        <5>1. i \in Nat /\ Len(w) \in Nat /\ e.count \in Nat /\ MostCounted \in Nat
          BY <1>1, <2>1, Constants
        <5>2. i <= Len(w) + 1 - MostCounted /\ e.count <= MostCounted
          BY <1>3, <2>2
        <5>3. QED BY <5>1, <5>2
      <4>2. w[i] + FailureWindow <= e.resetAt + LoginTime
        BY <1>3, <3>2, <4>1 DEF Spaced
      <4>3. w[i] \in Nat /\ e.resetAt \in Nat /\ FailureWindow \in Nat /\ LoginTime \in Nat
        BY <1>1, <2>1, Constants
      <4>4. e.resetAt <= clock
        BY <1>3
      <4>5. QED BY <4>2, <4>3, <4>4
    <3>3. QED BY <2>1, <3>1, <3>2
  <2>3. \A i, j \in DOMAIN w :
          i + 2 * MostCounted <= j => w[i] + FailureWindow <= w[j] + LoginTime
    BY <1>3 DEF Spaced
  <2>4. QED BY <1>1, <2>2, <2>3, Constants DEF Spaced, NoEntry
<1>4. QED BY <1>2, <1>3

\* A failure is counted by the time its login began, and recorded now.
LEMMA FailureCounted ==
  ASSUME GuardAssumption, NEW e \in Entry, NEW w \in Seq(Nat), NEW clock \in Nat,
         NEW t \in 1 .. clock, clock <= t + LoginTime, Counts(e, w, clock)
  PROVE  Counts(Counted(e, t), Append(w, clock), clock)
<1> DEFINE c == Counted(e, t)
           n == Len(w)
           ww == Append(w, clock)
<1>1. /\ n \in Nat /\ DOMAIN w = 1 .. n /\ \A i \in DOMAIN w : w[i] \in Nat
      /\ Len(ww) = n + 1 /\ DOMAIN ww = 1 .. n + 1
      /\ \A i \in DOMAIN w : ww[i] = w[i]
      /\ ww[n + 1] = clock
  BY Appended
<1>2. /\ c \in Entry
      /\ t >= e.resetAt => c.count = 1 /\ c.resetAt = t + FailureWindow
      /\ t < e.resetAt => c.count = e.count + 1 /\ c.resetAt = e.resetAt
  BY CountedTyped
<1>3. /\ c.count \in Nat /\ c.resetAt \in Nat /\ e.count \in Nat /\ e.resetAt \in Nat
  BY <1>2 DEF Entry
<1>4. /\ e.count <= n /\ e.resetAt <= clock + FailureWindow
      /\ \A i \in 1 .. n : /\ w[i] <= clock
                           /\ i > n - e.count => e.resetAt <= w[i] + FailureWindow
  BY <1>1 DEF Counts
<1> HIDE DEF c, n, ww
<1>5. c.count <= n + 1 /\ c.resetAt <= clock + FailureWindow
  <2>1. FailureWindow \in Nat /\ n \in Nat /\ e.count <= n /\ e.resetAt <= clock + FailureWindow
    BY <1>1, <1>4, Constants
  <2>2. QED BY <1>2, <1>3, <2>1
<1>6. ASSUME NEW i \in DOMAIN ww
      PROVE  /\ ww[i] <= clock
             /\ i > Len(ww) - c.count => c.resetAt <= ww[i] + FailureWindow
  <2>1. CASE i = n + 1
    BY <1>1, <1>5, <2>1
  <2>2. CASE i \in 1 .. n
    <3>1. ww[i] = w[i]
      BY <1>1, <2>2
    <3>2. i \in Nat /\ n \in Nat /\ i <= n /\ t \in Nat
      BY <1>1, <2>2
    <3>3. ASSUME i > Len(ww) - c.count PROVE t < e.resetAt /\ i > n - e.count
      <4>1. t < e.resetAt \/ t >= e.resetAt
        BY <1>3, <3>2
      <4>2. CASE t >= e.resetAt
        <5>1. c.count = 1
          BY <1>2, <4>2
        <5>2. i > n
          BY <1>1, <3>2, <3>3, <5>1
        <5>3. QED BY <3>2, <5>2
      <4>3. CASE t < e.resetAt
        <5>1. c.count = e.count + 1
          BY <1>2, <4>3
        <5>2. QED BY <1>1, <1>3, <3>2, <3>3, <4>3, <5>1, SMTT(30)
      <4>4. QED BY <4>1, <4>2, <4>3
    <3>4. QED BY <1>2, <1>4, <2>2, <3>1, <3>3
  <2>3. QED BY <1>1, <2>1, <2>2
<1>7. QED BY <1>1, <1>5, <1>6 DEF Counts, c, ww

LEMMA FailureSpaced ==
  ASSUME GuardAssumption, NEW e \in Entry, NEW w \in Seq(Nat), NEW clock \in Nat,
         NEW t \in 1 .. clock, clock <= t + LoginTime, Counts(e, w, clock), Spaced(e, w, clock),
         e.count = 0 => e = NoEntry, e.count <= MostCounted, MostCounted > 0
  PROVE  Spaced(Counted(e, t), Append(w, clock), clock)
<1> DEFINE c == Counted(e, t)
           n == Len(w)
           ww == Append(w, clock)
<1>1. /\ n \in Nat /\ DOMAIN w = 1 .. n /\ \A i \in DOMAIN w : w[i] \in Nat
      /\ Len(ww) = n + 1 /\ DOMAIN ww = 1 .. n + 1
      /\ \A i \in DOMAIN w : ww[i] = w[i]
      /\ ww[n + 1] = clock
  BY Appended
<1>2. /\ c \in Entry /\ c.count > 0
      /\ t >= e.resetAt => c.count = 1 /\ c.resetAt = t + FailureWindow
      /\ t < e.resetAt => c.count = e.count + 1 /\ c.resetAt = e.resetAt
  BY CountedTyped
<1>3. /\ c.count \in Nat /\ c.resetAt \in Nat /\ e.count \in Nat /\ e.resetAt \in Nat
      /\ t \in Nat /\ MostCounted \in Nat /\ FailureWindow \in Nat /\ LoginTime \in Nat
  BY <1>2, Constants DEF Entry
<1>4. /\ \A i \in DOMAIN w : w[i] <= clock
      /\ e.count <= n
  BY DEF Counts
<1>5. /\ e.count > 0 => \A i \in DOMAIN w :
           i <= n - e.count + 1 => w[i] + FailureWindow <= e.resetAt + LoginTime
      /\ \A i \in DOMAIN w :
           i <= n - e.count + 1 - MostCounted => w[i] + FailureWindow <= clock + LoginTime
      /\ \A i, j \in DOMAIN w :
           i + 2 * MostCounted <= j => w[i] + FailureWindow <= w[j] + LoginTime
  BY <1>1, <1>3, SMTT(30) DEF Spaced
<1>6. t < e.resetAt => e.count > 0
  BY <1>3 DEF NoEntry
<1> HIDE DEF c, n, ww
<1>7. ASSUME NEW i \in DOMAIN ww, i <= Len(ww) - c.count + 1
      PROVE  ww[i] + FailureWindow <= c.resetAt + LoginTime
  <2>1. i \in Nat /\ i + c.count <= n + 2
    BY <1>1, <1>3, <1>7
  <2>2. CASE t >= e.resetAt
    <3>1. ww[i] \in Nat /\ ww[i] <= clock
      BY <1>1, <1>4
    <3>2. c.resetAt = t + FailureWindow
      BY <1>2, <2>2
    <3>3. QED BY <1>3, <3>1, <3>2
  <2>3. CASE t < e.resetAt
    <3>1. c.count = e.count + 1 /\ c.resetAt = e.resetAt /\ e.count > 0
      BY <1>2, <1>6, <2>3
    <3>2. i <= n - e.count + 1 /\ i <= n
      BY <1>1, <1>3, <2>1, <3>1, SMTT(30)
    <3>3. i \in DOMAIN w
      BY <1>1, <2>1, <3>2
    <3>4. QED BY <1>1, <1>5, <3>1, <3>2, <3>3
  <2>4. QED BY <1>3, <2>2, <2>3
<1>8. ASSUME NEW i \in DOMAIN ww, i <= Len(ww) - c.count + 1 - MostCounted
      PROVE  ww[i] + FailureWindow <= clock + LoginTime
  <2>1. i \in Nat /\ i + c.count + MostCounted <= n + 2
    BY <1>1, <1>3, <1>8
  <2>2. i <= n
    BY <1>1, <1>2, <1>3, <2>1
  <2>3. i \in DOMAIN w /\ ww[i] = w[i] /\ w[i] \in Nat
    BY <1>1, <2>1, <2>2
  <2>4. CASE i <= n - e.count + 1 - MostCounted
    BY <1>5, <2>3, <2>4
  <2>5. CASE ~(i <= n - e.count + 1 - MostCounted)
    <3>1. t >= e.resetAt /\ c.count = 1
      <4>1. CASE t >= e.resetAt
        BY <1>2, <4>1
      <4>2. CASE t < e.resetAt
        <5>1. c.count = e.count + 1
          BY <1>2, <4>2
        <5>2. i + e.count + MostCounted <= n + 1
          BY <1>1, <1>3, <2>1, <5>1
        <5>3. i <= n - e.count + 1 - MostCounted
          BY <1>1, <1>3, <2>1, <5>2
        <5>4. QED BY <2>5, <5>3
      <4>3. QED BY <1>3, <4>1, <4>2
    <3>2. e.count > 0 /\ i <= n - e.count + 1
      <4>1. i + MostCounted <= n + 1
        BY <1>1, <1>3, <2>1, <3>1
      <4>2. ~(i + MostCounted + e.count <= n + 1)
        BY <1>1, <1>3, <2>1, <2>5
      <4>3. e.count <= MostCounted
        OBVIOUS
      <4>4. i + e.count <= n + 1
        BY <1>1, <1>3, <2>1, <4>1, <4>3, SMTT(30)
      <4>5. e.count # 0
        BY <1>1, <1>3, <2>1, <4>1, <4>2
      <4>6. i <= n - e.count + 1
        BY <1>1, <1>3, <2>1, <4>4
      <4>7. QED BY <1>3, <4>5, <4>6
    <3>3. w[i] + FailureWindow <= e.resetAt + LoginTime
      BY <1>5, <2>3, <3>2
    <3>4. QED BY <1>3, <2>3, <3>1, <3>3, SMTT(30)
  <2>6. QED BY <2>4, <2>5
<1>9. ASSUME NEW i \in DOMAIN ww, NEW j \in DOMAIN ww, i + 2 * MostCounted <= j
      PROVE  ww[i] + FailureWindow <= ww[j] + LoginTime
  <2>1. i \in Nat /\ j \in Nat /\ i >= 1 /\ j <= n + 1 /\ 2 * MostCounted \in Nat
    BY <1>1, <1>3
  <2>2. i <= n
    BY <1>1, <1>3, <1>9, <2>1
  <2>3. i \in DOMAIN w /\ ww[i] = w[i]
    BY <1>1, <2>1, <2>2
  <2>4. CASE j <= n
    <3>1. j \in DOMAIN w /\ ww[j] = w[j]
      BY <1>1, <2>1, <2>4
    <3>2. QED BY <1>5, <1>9, <2>3, <3>1
  <2>5. CASE j = n + 1
    <3>1. i <= n - e.count + 1 - MostCounted
      <4>1. /\ n \in Nat /\ e.count \in Nat /\ MostCounted \in Nat /\ e.count <= MostCounted
            /\ i \in Nat
        BY <1>1, <1>3, <2>1
      <4>2. i + 2 * MostCounted <= n + 1
        BY <1>9, <2>5
      <4>3. QED BY <4>1, <4>2
    <3>2. w[i] + FailureWindow <= clock + LoginTime
      BY <1>5, <2>3, <3>1
    <3>3. QED BY <1>1, <2>3, <2>5, <3>2
  <2>6. QED BY <1>1, <2>1, <2>4, <2>5
<1>10. Spaced(c, ww, clock)
  BY <1>1, <1>3, <1>7, <1>8, <1>9 DEF Spaced
<1>11. QED BY <1>10 DEF c, ww

-----------------------------------------------------------------------------
(* The steps.                                                              *)

LEMMA SomeLogins ==
  ASSUME GuardAssumption, NEW S \in SUBSET Logins
  PROVE  /\ IsFiniteSet(S) /\ Cardinality(S) \in Nat
         /\ FailureLimit - 1 + Cardinality(S) <= MostCounted
<1>1. IsFiniteSet(Logins)
  BY DEF GuardAssumption
<1>2. IsFiniteSet(S) /\ Cardinality(S) <= Cardinality(Logins)
  BY <1>1, FS_Subset
<1>3. Cardinality(S) \in Nat /\ Cardinality(Logins) \in Nat
  BY <1>1, <1>2, FS_CardinalityType
<1>4. QED BY <1>2, <1>3, Constants DEF MostCounted

LEMMA GuardInitOK == ASSUME GuardAssumption PROVE GuardInit => GuardInv
<1> SUFFICES ASSUME GuardInit PROVE GuardInv
  OBVIOUS
<1>1. GuardTypes
  BY Constants, NoEntryTyped DEF GuardInit, GuardTypes, NoLogin, LoginRow, GuardAssumption
<1>2. TableOK
  <2>1. Entries(failures) = {}
    BY DEF GuardInit, Entries
  <2>2. QED BY <2>1, FS_EmptySet, Constants DEF TableOK
<1>3. ASSUME NEW q \in Logins PROVE LoginOK(q)
  BY DEF GuardInit, LoginOK, NoLogin
<1>4. ASSUME NEW a \in Addresses PROVE EntryOK(a) /\ HistoryOK(a)
  <2>1. failures[a] = NoEntry /\ wrong[a] = <<>> /\ now = 1
    BY DEF GuardInit
  <2>2. HistoryOK(a)
    BY <2>1, NothingRecorded DEF HistoryOK
  <2>3. Comparing(a) = {}
    BY DEF GuardInit, Comparing, NoLogin
  <2>4. EntryOK(a)
    BY <2>1, <2>3, FS_EmptySet, Constants DEF EntryOK, NoEntry
  <2>5. QED BY <2>2, <2>4
<1>5. QED BY <1>1, <1>2, <1>3, <1>4 DEF GuardInv

LEMMA GuardStutterOK == ASSUME GuardInv, UNCHANGED guardVars PROVE GuardInv'
BY DEF guardVars, GuardInv, GuardTypes, TableOK, Entries, LoginOK, EntryOK, HistoryOK, Comparing

\* One login moves.
LEMMA LoginMoves ==
  ASSUME GuardInv, NEW q \in Logins, NEW r \in LoginRow, login' = [login EXCEPT ![q] = r], now' = now,
         r.at = "idle" => r = NoLogin,
         r.at # "idle" => r.address \in Addresses /\ r.now \in 1 .. now /\ now <= r.now + LoginTime
  PROVE  /\ login' \in [Logins -> LoginRow] /\ login'[q] = r
         /\ \A p \in Logins \ {q} : login'[p] = login[p]
         /\ \A p \in Logins : LoginOK(p)'
<1>1. /\ login' \in [Logins -> LoginRow] /\ login'[q] = r
      /\ \A p \in Logins \ {q} : login'[p] = login[p]
  BY DEF GuardInv, GuardTypes
<1>2. ASSUME NEW p \in Logins PROVE LoginOK(p)'
  <2>1. CASE p = q
    BY <1>1, <2>1 DEF LoginOK
  <2>2. CASE p # q
    <3>1. login'[p] = login[p] /\ LoginOK(p)
      BY <1>1, <2>2 DEF GuardInv
    <3>2. QED BY <3>1 DEF LoginOK
  <2>3. QED BY <2>1, <2>2
<1>3. QED BY <1>1, <1>2

LEMMA AttemptStep == ASSUME GuardAssumption, GuardInv, NEW q \in Logins, Attempt(q) PROVE GuardInv'
<1>1. PICK a \in Addresses : login' = [login EXCEPT ![q] = [at |-> "arrived", address |-> a, now |-> now]]
  BY DEF Attempt
<1> DEFINE r == [at |-> "arrived", address |-> a, now |-> now]
<1>2. now \in Nat /\ now >= 1 /\ UNCHANGED <<now, failures, wrong, dropped>>
  BY DEF GuardInv, GuardTypes, Attempt
<1>3. r \in LoginRow /\ r.at = "arrived" /\ r.address = a /\ r.now = now
  BY <1>2 DEF LoginRow
<1> HIDE DEF r
<1>4. /\ r \in LoginRow /\ r.at # "idle" /\ r.address \in Addresses
      /\ r.now \in 1 .. now /\ now <= r.now + LoginTime
  BY <1>2, <1>3, Constants
<1>5. login' = [login EXCEPT ![q] = r]
  BY <1>1 DEF r
<1>6. /\ login' \in [Logins -> LoginRow] /\ login'[q] = r
      /\ \A p \in Logins \ {q} : login'[p] = login[p]
      /\ \A p \in Logins : LoginOK(p)'
  BY <1>2, <1>4, <1>5, LoginMoves
<1>7. ASSUME NEW b \in Addresses PROVE Comparing(b)' = Comparing(b)
  <2>1. login[q].at = "idle"
    BY DEF Attempt, NoLogin
  <2>2. QED BY <1>3, <1>6, <2>1 DEF Comparing
<1>8. GuardTypes' /\ TableOK'
  BY <1>2, <1>6 DEF GuardInv, GuardTypes, TableOK, Entries
<1>9. ASSUME NEW b \in Addresses PROVE EntryOK(b)' /\ HistoryOK(b)'
  BY <1>2, <1>7 DEF GuardInv, EntryOK, HistoryOK
<1>10. QED BY <1>6, <1>8, <1>9 DEF GuardInv

LEMMA ElapseStep == ASSUME GuardAssumption, GuardInv, Elapse PROVE GuardInv'
<1>1. /\ now' = now + 1 /\ now < MaxNow /\ now \in Nat /\ now >= 1
      /\ UNCHANGED <<failures, login, wrong, dropped>>
  BY DEF GuardInv, GuardTypes, Elapse
<1>2. MaxNow \in Nat
  BY DEF GuardAssumption
<1>3. GuardTypes' /\ TableOK'
  BY <1>1, <1>2 DEF GuardInv, GuardTypes, TableOK, Entries
<1>4. ASSUME NEW q \in Logins PROVE LoginOK(q)'
  <2>1. LoginOK(q) /\ (login[q] # NoLogin => now < login[q].now + LoginTime)
    BY DEF GuardInv, Elapse
  <2>2. login[q].at # "idle" => login[q] # NoLogin /\ login[q].now \in 1 .. now
    BY <2>1 DEF LoginOK, NoLogin
  <2>3. QED BY <1>1, <2>1, <2>2, Constants DEF LoginOK
<1>5. ASSUME NEW a \in Addresses PROVE EntryOK(a)' /\ HistoryOK(a)'
  <2>1. failures[a] \in Entry /\ wrong[a] \in Seq(Nat) /\ EntryOK(a) /\ HistoryOK(a)
    BY DEF GuardInv, GuardTypes
  <2>2. HistoryOK(a)'
    BY <1>1, <2>1, TimePasses DEF HistoryOK
  <2>3. EntryOK(a)'
    BY <1>1, <2>1 DEF EntryOK, Comparing
  <2>4. QED BY <2>2, <2>3
<1>6. QED BY <1>3, <1>4, <1>5 DEF GuardInv

LEMMA WithoutFields ==
  ASSUME NEW table \in [Addresses -> Entry], NEW gone
  PROVE  /\ Without(table, gone) \in [Addresses -> Entry]
         /\ \A b \in Addresses : Without(table, gone)[b] = IF b \in gone THEN NoEntry ELSE table[b]
         /\ Entries(Without(table, gone)) = Entries(table) \ gone
BY NoEntryTyped DEF Without, Entries

\* A table that loses entries has room as before.
LEMMA TableShrinks ==
  ASSUME GuardAssumption, GuardInv, NEW gone, failures' = Without(failures, gone)
  PROVE  failures' \in [Addresses -> Entry] /\ TableOK'
<1>1. failures \in [Addresses -> Entry] /\ IsFiniteSet(Addresses)
  BY DEF GuardInv, GuardTypes, GuardAssumption
<1>2. failures' \in [Addresses -> Entry] /\ Entries(failures') = Entries(failures) \ gone
  BY <1>1, WithoutFields
<1>3. IsFiniteSet(Entries(failures))
  BY <1>1, FS_Subset DEF Entries
<1>4. Cardinality(Entries(failures) \ gone) <= Cardinality(Entries(failures))
  BY <1>3, FS_Subset
<1>5. /\ Cardinality(Entries(failures)) \in Nat /\ Cardinality(Entries(failures) \ gone) \in Nat
      /\ MaxFailureEntries \in Nat
  BY <1>3, FS_CardinalityType, FS_Subset, Constants
<1>6. QED BY <1>2, <1>4, <1>5 DEF GuardInv, TableOK

LEMMA EntryFits ==
  ASSUME GuardAssumption, GuardInv, NEW a \in Addresses
  PROVE  /\ failures[a] \in Entry /\ wrong[a] \in Seq(Nat)
         /\ failures[a].count \in Nat /\ failures[a].resetAt \in Nat
         /\ failures[a].count <= MostCounted
         /\ Comparing(a) \in SUBSET Logins
<1>1. failures[a] \in Entry /\ wrong[a] \in Seq(Nat) /\ Comparing(a) \in SUBSET Logins
  BY DEF GuardInv, GuardTypes, Comparing
<1>2. failures[a].count \in Nat /\ failures[a].resetAt \in Nat
  BY <1>1 DEF Entry
<1>3. Cardinality(Comparing(a)) \in Nat /\ MostCounted \in Nat
  BY <1>1, SomeLogins, Constants
<1>4. failures[a].count + Cardinality(Comparing(a)) <= MostCounted
  BY DEF GuardInv, EntryOK
<1>5. QED BY <1>1, <1>2, <1>3, <1>4

LEMMA AllowStep == ASSUME GuardAssumption, GuardInv, NEW q \in Logins, Allow(q) PROVE GuardInv'
<1> DEFINE a == login[q].address
           t == login[q].now
           r == IF Blocked(failures[a], t) THEN NoLogin ELSE [login[q] EXCEPT !.at = "compare"]
<1>1. /\ login[q].at = "arrived" /\ UNCHANGED <<now, wrong, dropped>>
      /\ failures' = IF t >= failures[a].resetAt THEN Without(failures, {a}) ELSE failures
      /\ login' = [login EXCEPT ![q] = r]
  BY DEF Allow
<1>2. /\ login[q] \in LoginRow /\ a \in Addresses /\ t \in 1 .. now /\ now <= t + LoginTime
      /\ now \in Nat /\ t \in Nat
  BY <1>1 DEF GuardInv, GuardTypes, LoginOK
<1>3. /\ r \in LoginRow
      /\ r.at = "idle" => r = NoLogin
      /\ r.at # "idle" => r.address \in Addresses /\ r.now \in 1 .. now /\ now <= r.now + LoginTime
      /\ r.at = "compare" => ~Blocked(failures[a], t) /\ r.address = a
  BY <1>2 DEF LoginRow, NoLogin
<1>4. /\ login' \in [Logins -> LoginRow] /\ login'[q] = r
      /\ \A p \in Logins \ {q} : login'[p] = login[p]
      /\ \A p \in Logins : LoginOK(p)'
  <2> HIDE DEF r
  <2>1. QED BY <1>1, <1>3, LoginMoves
<1> HIDE DEF a, t, r
<1>5. failures' \in [Addresses -> Entry] /\ TableOK'
  <2>1. CASE t >= failures[a].resetAt
    BY <1>1, <2>1, TableShrinks
  <2>2. CASE ~(t >= failures[a].resetAt)
    BY <1>1, <2>2 DEF GuardInv, GuardTypes, TableOK, Entries
  <2>3. QED BY <2>1, <2>2
<1>6. GuardTypes'
  BY <1>1, <1>4, <1>5 DEF GuardInv, GuardTypes
<1>7. ASSUME NEW b \in Addresses PROVE EntryOK(b)' /\ HistoryOK(b)'
  <2>1. EntryOK(b) /\ HistoryOK(b)
    BY DEF GuardInv
  <2>2. CASE b = a /\ t >= failures[a].resetAt
    <3>1. failures'[b] = NoEntry
      BY <1>1, <2>2, WithoutFields DEF GuardInv, GuardTypes
    <3>2. failures[b].resetAt <= now
      BY <1>2, <2>2, EntryFits
    <3>3. /\ Counts(NoEntry, wrong[b], now)
          /\ b \notin dropped => Spaced(NoEntry, wrong[b], now)
      BY <1>2, <2>1, <3>2, EntryFits, EntryForgotten DEF HistoryOK
    <3>4. Comparing(b)' \in SUBSET Logins
      BY DEF Comparing
    <3>5. FailureLimit - 1 + Cardinality(Comparing(b)') <= MostCounted /\ Cardinality(Comparing(b)') \in Nat
      BY <3>4, SomeLogins
    <3>6. EntryOK(b)'
      BY <3>1, <3>5, Constants DEF EntryOK, NoEntry
    <3>7. QED BY <1>1, <3>1, <3>3, <3>6 DEF HistoryOK
  <2>3. CASE ~(b = a /\ t >= failures[a].resetAt)
    <3>1. failures'[b] = failures[b]
      <4>1. CASE t >= failures[a].resetAt
        <5>1. failures' = Without(failures, {a}) /\ b \notin {a}
          BY <1>1, <2>3, <4>1
        <5>2. QED BY <5>1, WithoutFields DEF GuardInv, GuardTypes
      <4>2. CASE ~(t >= failures[a].resetAt)
        BY <1>1, <4>2
      <4>3. QED BY <4>1, <4>2
    <3>2. HistoryOK(b)'
      BY <1>1, <2>1, <3>1 DEF HistoryOK
    <3>3. CASE r.at = "compare" /\ b = a
      <4>1. failures[b].count <= FailureLimit - 1
        BY <1>2, <1>3, <2>3, <3>3, EntryFits, Constants, SMTT(30) DEF Blocked
      <4>2. Comparing(b)' \in SUBSET Logins
        BY DEF Comparing
      <4>3. /\ FailureLimit - 1 + Cardinality(Comparing(b)') <= MostCounted
            /\ Cardinality(Comparing(b)') \in Nat
        BY <4>2, SomeLogins
      <4>4. failures[b].count + Cardinality(Comparing(b)') <= MostCounted
        BY <4>1, <4>3, EntryFits, Constants
      <4>5. QED BY <2>1, <3>1, <3>2, <4>4 DEF EntryOK
    <3>4. CASE ~(r.at = "compare" /\ b = a)
      <4>1. Comparing(b)' = Comparing(b)
        BY <1>1, <1>3, <1>4, <3>4 DEF Comparing
      <4>2. QED BY <2>1, <3>1, <3>2, <4>1 DEF EntryOK
    <3>5. QED BY <3>3, <3>4
  <2>4. QED BY <2>2, <2>3
<1>8. QED BY <1>4, <1>5, <1>6, <1>7 DEF GuardInv

\* A login of an address that was past the guard ends.
LEMMA LoginEnds ==
  ASSUME GuardAssumption, GuardInv, NEW q \in Logins, NEW a, login[q].address = a,
         login[q].at = "compare", login' = [login EXCEPT ![q] = NoLogin], now' = now
  PROVE  /\ a \in Addresses /\ login[q].now \in 1 .. now /\ now <= login[q].now + LoginTime
         /\ login' \in [Logins -> LoginRow] /\ \A p \in Logins : LoginOK(p)'
         /\ \A b \in Addresses \ {a} : Comparing(b)' = Comparing(b)
         /\ Cardinality(Comparing(a)') \in Nat
         /\ Cardinality(Comparing(a)) = Cardinality(Comparing(a)') + 1
<1>1. a \in Addresses /\ login[q].now \in 1 .. now /\ now <= login[q].now + LoginTime
  BY DEF GuardInv, LoginOK
<1>2. NoLogin \in LoginRow /\ NoLogin.at = "idle"
  BY DEF NoLogin, LoginRow
<1>3. /\ login' \in [Logins -> LoginRow] /\ login'[q] = NoLogin
      /\ \A p \in Logins \ {q} : login'[p] = login[p]
      /\ \A p \in Logins : LoginOK(p)'
  BY <1>2, LoginMoves
<1>4. ASSUME NEW b \in Addresses \ {a} PROVE Comparing(b)' = Comparing(b)
  BY <1>2, <1>3 DEF Comparing
<1>5. q \in Comparing(a) /\ Comparing(a)' = Comparing(a) \ {q}
  BY <1>2, <1>3 DEF Comparing
<1>6. IsFiniteSet(Comparing(a)) /\ Cardinality(Comparing(a)) \in Nat
  BY SomeLogins DEF Comparing
<1>7. Comparing(a)' \in SUBSET Logins
  BY DEF Comparing
<1>8. Cardinality(Comparing(a)') \in Nat
  BY <1>7, SomeLogins
<1>9. Cardinality(Comparing(a)') = Cardinality(Comparing(a)) - 1
  BY <1>5, <1>6, FS_RemoveElement
<1>10. QED BY <1>1, <1>3, <1>4, <1>6, <1>8, <1>9

LEMMA RightPasswordStep ==
  ASSUME GuardAssumption, GuardInv, NEW q \in Logins, RightPassword(q) PROVE GuardInv'
<1>1. PICK a : login[q].address = a
  OBVIOUS
<1>2. /\ login[q].at = "compare" /\ login' = [login EXCEPT ![q] = NoLogin] /\ now' = now
      /\ failures' = Without(failures, {a}) /\ wrong' = [wrong EXCEPT ![a] = <<>>]
      /\ dropped' = dropped \ {a}
  BY <1>1 DEF RightPassword, Reset
<1>3. /\ a \in Addresses
      /\ login' \in [Logins -> LoginRow] /\ \A p \in Logins : LoginOK(p)'
      /\ \A b \in Addresses \ {a} : Comparing(b)' = Comparing(b)
      /\ Cardinality(Comparing(a)') \in Nat
      /\ Cardinality(Comparing(a)) = Cardinality(Comparing(a)') + 1
  BY <1>1, <1>2, LoginEnds
<1>4. failures' \in [Addresses -> Entry] /\ TableOK'
  BY <1>2, TableShrinks
<1>5. wrong' \in [Addresses -> Seq(Nat)] /\ dropped' \in SUBSET Addresses
  <2>1. <<>> \in Seq(Nat)
    OBVIOUS
  <2>2. QED BY <1>2, <2>1 DEF GuardInv, GuardTypes
<1>6. GuardTypes'
  BY <1>2, <1>3, <1>4, <1>5 DEF GuardInv, GuardTypes
<1>7. ASSUME NEW b \in Addresses PROVE EntryOK(b)' /\ HistoryOK(b)'
  <2>1. EntryOK(b) /\ HistoryOK(b)
    BY DEF GuardInv
  <2>2. CASE b = a
    <3>1. failures'[b] = NoEntry /\ wrong'[b] = <<>>
      BY <1>2, <2>2, WithoutFields DEF GuardInv, GuardTypes
    <3>2. HistoryOK(b)'
      BY <1>2, <3>1, NothingRecorded DEF HistoryOK, GuardInv, GuardTypes
    <3>3. failures[b].count \in Nat /\ failures[b].count + Cardinality(Comparing(b)) <= MostCounted
      BY <2>1, EntryFits DEF EntryOK
    <3>4. EntryOK(b)'
      BY <1>3, <2>2, <3>1, <3>3, Constants DEF EntryOK, NoEntry
    <3>5. QED BY <3>2, <3>4
  <2>3. CASE b # a
    <3>1. failures'[b] = failures[b] /\ wrong'[b] = wrong[b] /\ Comparing(b)' = Comparing(b)
      <4>1. failures'[b] = failures[b]
        BY <1>2, <2>3, WithoutFields DEF GuardInv, GuardTypes
      <4>2. wrong'[b] = wrong[b]
        BY <1>2, <2>3 DEF GuardInv, GuardTypes
      <4>3. QED BY <1>3, <2>3, <4>1, <4>2
    <3>2. b \notin dropped' => b \notin dropped
      BY <1>2, <2>3
    <3>3. QED BY <1>2, <2>1, <3>1, <3>2 DEF EntryOK, HistoryOK
  <2>4. QED BY <2>2, <2>3
<1>8. QED BY <1>3, <1>4, <1>6, <1>7 DEF GuardInv

\* A failure adds an entry at most.
LEMMA RecordedFits ==
  ASSUME GuardAssumption, NEW a \in Addresses, NEW recorded,
         \A b \in Addresses \ {a} : recorded[b] = failures[b]
  PROVE  /\ IsFiniteSet(Entries(recorded)) /\ Cardinality(Entries(recorded)) \in Nat
         /\ IsFiniteSet(Entries(failures)) /\ Cardinality(Entries(failures)) \in Nat
         /\ Cardinality(Entries(recorded)) <= Cardinality(Entries(failures)) + 1
<1>1. IsFiniteSet(Addresses)
  BY DEF GuardAssumption
<1>2. IsFiniteSet(Entries(failures)) /\ IsFiniteSet(Entries(recorded))
  BY <1>1, FS_Subset DEF Entries
<1>3. /\ IsFiniteSet(Entries(failures) \cup {a})
      /\ Cardinality(Entries(failures) \cup {a}) <= Cardinality(Entries(failures)) + 1
  <2>1. Cardinality(Entries(failures)) \in Nat
    BY <1>2, FS_CardinalityType
  <2>2. /\ IsFiniteSet(Entries(failures) \cup {a})
        /\ \/ Cardinality(Entries(failures) \cup {a}) = Cardinality(Entries(failures))
           \/ Cardinality(Entries(failures) \cup {a}) = Cardinality(Entries(failures)) + 1
    BY <1>2, FS_AddElement
  <2>3. QED BY <2>1, <2>2
<1>4. Entries(recorded) \subseteq Entries(failures) \cup {a}
  BY DEF Entries
<1>5. Cardinality(Entries(recorded)) <= Cardinality(Entries(failures) \cup {a})
  BY <1>3, <1>4, FS_Subset
<1>6. /\ Cardinality(Entries(recorded)) \in Nat /\ Cardinality(Entries(failures)) \in Nat
      /\ Cardinality(Entries(failures) \cup {a}) \in Nat
  BY <1>2, <1>3, FS_CardinalityType
<1>7. QED BY <1>2, <1>3, <1>5, <1>6

\* A table that is one entry too full loses one at least.
LEMMA RoomIsMade ==
  ASSUME GuardAssumption, NEW table \in [Addresses -> Entry], NEW t \in Nat,
         IsFiniteSet(Entries(table)),
         Cardinality(Entries(table)) <= MaxFailureEntries + 1,
         NEW gone \in Evictions(table, t)
  PROVE  Cardinality(Entries(Without(table, gone))) <= MaxFailureEntries
<1>1. Entries(Without(table, gone)) = Entries(table) \ gone
  BY WithoutFields
<1>2. MaxFailureEntries \in Nat /\ Cardinality(Entries(table)) \in Nat
  BY Constants, FS_CardinalityType
<1>3. CASE Cardinality(Entries(table)) <= MaxFailureEntries
  <2>1. gone = {}
    BY <1>3 DEF Evictions
  <2>2. Entries(table) \ gone = Entries(table)
    BY <2>1
  <2>3. QED BY <1>1, <1>3, <2>2
<1>4. CASE ~(Cardinality(Entries(table)) <= MaxFailureEntries)
  <2>1. PICK one \in Entries(table) : one \in gone
    BY <1>4 DEF Evictions
  <2>2. /\ IsFiniteSet(Entries(table) \ {one})
        /\ Cardinality(Entries(table) \ {one}) = Cardinality(Entries(table)) - 1
    BY <2>1, FS_RemoveElement
  <2>3. Entries(table) \ gone \subseteq Entries(table) \ {one}
    BY <2>1
  <2>4. /\ Cardinality(Entries(table) \ gone) <= Cardinality(Entries(table) \ {one})
        /\ IsFiniteSet(Entries(table) \ gone)
    BY <2>2, <2>3, FS_Subset
  <2>5. Cardinality(Entries(table) \ gone) \in Nat
    BY <2>4, FS_CardinalityType
  <2>6. QED BY <1>1, <1>2, <2>2, <2>4, <2>5
<1>5. QED BY <1>3, <1>4

LEMMA WrongPasswordStep ==
  ASSUME GuardAssumption, GuardInv, NEW q \in Logins, WrongPassword(q) PROVE GuardInv'
<1>1. PICK a : login[q].address = a
  OBVIOUS
<1>2. PICK t : login[q].now = t
  OBVIOUS
<1>3. PICK recorded : recorded = [failures EXCEPT ![a] = Counted(@, t)]
  OBVIOUS
<1>4. PICK gone \in Evictions(recorded, t) :
        /\ failures' = Without(recorded, gone)
        /\ dropped' = dropped \cup {b \in gone : t < recorded[b].resetAt}
  BY <1>1, <1>2, <1>3 DEF WrongPassword
<1>5. /\ login[q].at = "compare" /\ login' = [login EXCEPT ![q] = NoLogin] /\ now' = now
      /\ wrong' = [wrong EXCEPT ![a] = Append(@, now)]
  BY <1>1 DEF WrongPassword
<1>6. /\ a \in Addresses
      /\ login[q].now \in 1 .. now /\ now <= login[q].now + LoginTime
      /\ login' \in [Logins -> LoginRow] /\ \A p \in Logins : LoginOK(p)'
      /\ \A b \in Addresses \ {a} : Comparing(b)' = Comparing(b)
      /\ Cardinality(Comparing(a)') \in Nat
      /\ Cardinality(Comparing(a)) = Cardinality(Comparing(a)') + 1
  BY <1>1, <1>5, LoginEnds
<1>7. now \in Nat /\ t \in Nat /\ t \in 1 .. now /\ now <= t + LoginTime
  BY <1>2, <1>6 DEF GuardInv, GuardTypes
<1>8. /\ recorded \in [Addresses -> Entry]
      /\ recorded[a] = Counted(failures[a], t)
      /\ \A b \in Addresses \ {a} : recorded[b] = failures[b]
      /\ IsFiniteSet(Entries(recorded)) /\ Cardinality(Entries(recorded)) \in Nat
      /\ Cardinality(Entries(failures)) \in Nat
      /\ Cardinality(Entries(recorded)) <= Cardinality(Entries(failures)) + 1
  <2>1. /\ a \in Addresses /\ failures \in [Addresses -> Entry]
        /\ Counted(failures[a], t) \in Entry
    BY <1>6, <1>7, CountedTyped DEF GuardInv, GuardTypes
  <2>2. /\ recorded \in [Addresses -> Entry]
        /\ recorded[a] = Counted(failures[a], t)
        /\ \A b \in Addresses \ {a} : recorded[b] = failures[b]
    BY <1>3, <2>1
  <2>3. QED BY <2>1, <2>2, RecordedFits
<1>9. failures' \in [Addresses -> Entry] /\ TableOK'
  <2>1. Cardinality(Entries(recorded)) <= MaxFailureEntries + 1
    BY <1>8, Constants DEF GuardInv, TableOK
  <2>2. Cardinality(Entries(Without(recorded, gone))) <= MaxFailureEntries
    BY <1>7, <1>8, <2>1, RoomIsMade
  <2>3. QED BY <1>4, <1>8, <2>2, WithoutFields DEF TableOK
<1>10. gone \in SUBSET Addresses
  BY DEF Evictions, Entries
<1>11. /\ wrong' \in [Addresses -> Seq(Nat)] /\ wrong'[a] = Append(wrong[a], now)
       /\ \A b \in Addresses \ {a} : wrong'[b] = wrong[b]
  <2>1. wrong[a] \in Seq(Nat)
    BY <1>6, EntryFits
  <2>2. Append(wrong[a], now) \in Seq(Nat)
    BY <1>7, <2>1, Appended
  <2>3. QED BY <1>5, <1>6, <2>2 DEF GuardInv, GuardTypes
<1>12. GuardTypes'
  <2>1. dropped' \in SUBSET Addresses
    BY <1>4, <1>10 DEF GuardInv, GuardTypes
  <2>2. QED BY <1>5, <1>6, <1>9, <1>11, <2>1 DEF GuardInv, GuardTypes
<1>13. ASSUME NEW b \in Addresses
       PROVE  /\ recorded[b] \in Entry /\ wrong'[b] \in Seq(Nat)
              /\ recorded[b].count \in Nat /\ recorded[b].resetAt \in Nat
              /\ recorded[b].count = 0 => recorded[b] = NoEntry
              /\ Cardinality(Comparing(b)') \in Nat
              /\ recorded[b].count + Cardinality(Comparing(b)') <= MostCounted
              /\ Counts(recorded[b], wrong'[b], now)
              /\ b \notin dropped => Spaced(recorded[b], wrong'[b], now)
  <2>1. recorded[b] \in Entry /\ wrong'[b] \in Seq(Nat)
    BY <1>8, <1>11
  <2>2. recorded[b].count \in Nat /\ recorded[b].resetAt \in Nat
    BY <2>1 DEF Entry
  <2>3. EntryOK(b) /\ HistoryOK(b)
    BY DEF GuardInv
  <2>4. /\ failures[b] \in Entry /\ wrong[b] \in Seq(Nat) /\ failures[b].count \in Nat
        /\ failures[b].count <= MostCounted
    BY EntryFits
  <2>5. CASE b = a
    <3>1. recorded[b] = Counted(failures[b], t) /\ wrong'[b] = Append(wrong[b], now)
      BY <1>8, <1>11, <2>5
    <3>2. recorded[b].count > 0 /\ recorded[b].count <= failures[b].count + 1
      <4>1. /\ Counted(failures[b], t).count > 0
            /\ t >= failures[b].resetAt => Counted(failures[b], t).count = 1
            /\ t < failures[b].resetAt => Counted(failures[b], t).count = failures[b].count + 1
        BY <1>7, <2>4, CountedTyped
      <4>2. failures[b].resetAt \in Nat
        BY <2>4 DEF Entry
      <4>3. QED BY <1>7, <2>4, <3>1, <4>1, <4>2
    <3>3. failures[b].count + Cardinality(Comparing(b)) <= MostCounted
      BY <2>3 DEF EntryOK
    <3>4. /\ Cardinality(Comparing(b)') \in Nat
          /\ recorded[b].count + Cardinality(Comparing(b)') <= MostCounted
      <4>1. /\ Cardinality(Comparing(b)') \in Nat
            /\ Cardinality(Comparing(b)) = Cardinality(Comparing(b)') + 1
        BY <1>6, <2>5
      <4>2. MostCounted \in Nat /\ recorded[b].count \in Nat /\ failures[b].count \in Nat
        BY <2>2, <2>4, Constants
      <4>3. QED BY <3>2, <3>3, <4>1, <4>2
    <3>5. MostCounted > 0
      BY <2>2, <3>2, <3>4, Constants
    <3>6. Counts(failures[b], wrong[b], now)
      BY <2>3 DEF HistoryOK
    <3>7. Counts(recorded[b], wrong'[b], now)
      BY <1>7, <2>4, <3>1, <3>6, FailureCounted
    <3>8. ASSUME b \notin dropped PROVE Spaced(recorded[b], wrong'[b], now)
      <4>1. Spaced(failures[b], wrong[b], now) /\ (failures[b].count = 0 => failures[b] = NoEntry)
        BY <2>3, <3>8 DEF HistoryOK, EntryOK
      <4>2. QED BY <1>7, <2>4, <3>1, <3>5, <3>6, <4>1, FailureSpaced
    <3>9. QED BY <2>1, <2>2, <3>2, <3>4, <3>7, <3>8
  <2>6. CASE b # a
    <3>1. recorded[b] = failures[b] /\ wrong'[b] = wrong[b] /\ Comparing(b)' = Comparing(b)
      BY <1>6, <1>8, <1>11, <2>6
    <3>2. Cardinality(Comparing(b)) \in Nat
      BY EntryFits, SomeLogins
    <3>3. QED BY <2>1, <2>2, <2>3, <3>1, <3>2 DEF EntryOK, HistoryOK
  <2>7. QED BY <2>5, <2>6
<1>14. ASSUME NEW b \in Addresses PROVE EntryOK(b)' /\ HistoryOK(b)'
  <2>1. CASE b \in gone
    <3>1. failures'[b] = NoEntry
      BY <1>4, <1>8, <2>1, WithoutFields
    <3>2. Counts(NoEntry, wrong'[b], now)
      BY <1>7, <1>13, EntryForgotten
    <3>3. ASSUME b \notin dropped' PROVE Spaced(NoEntry, wrong'[b], now)
      <4>1. b \notin dropped /\ ~(t < recorded[b].resetAt)
        BY <1>4, <2>1, <3>3
      <4>2. recorded[b].resetAt <= now /\ recorded[b].count <= MostCounted
        BY <1>7, <1>13, <4>1, Constants, SMTT(30)
      <4>3. QED BY <1>7, <1>13, <4>1, <4>2, EntryForgotten
    <3>4. HistoryOK(b)'
      BY <1>5, <3>1, <3>2, <3>3 DEF HistoryOK
    <3>5. EntryOK(b)'
      BY <1>13, <3>1, Constants DEF EntryOK, NoEntry
    <3>6. QED BY <3>4, <3>5
  <2>2. CASE b \notin gone
    <3>1. failures'[b] = recorded[b]
      BY <1>4, <1>8, <2>2, WithoutFields
    <3>2. b \notin dropped' => b \notin dropped
      BY <1>4
    <3>3. QED BY <1>5, <1>13, <3>1, <3>2 DEF EntryOK, HistoryOK
  <2>3. QED BY <2>1, <2>2
<1>15. QED BY <1>6, <1>9, <1>12, <1>14 DEF GuardInv

LEMMA GuardNextOK == ASSUME GuardAssumption, GuardInv, [GuardNext]_guardVars PROVE GuardInv'
<1>1. CASE Elapse
  BY <1>1, ElapseStep
<1>2. ASSUME NEW q \in Logins, Attempt(q) PROVE GuardInv'
  BY <1>2, AttemptStep
<1>3. ASSUME NEW q \in Logins, Allow(q) PROVE GuardInv'
  BY <1>3, AllowStep
<1>4. ASSUME NEW q \in Logins, RightPassword(q) PROVE GuardInv'
  BY <1>4, RightPasswordStep
<1>5. ASSUME NEW q \in Logins, WrongPassword(q) PROVE GuardInv'
  BY <1>5, WrongPasswordStep
<1>6. CASE UNCHANGED guardVars
  BY <1>6, GuardStutterOK
<1>7. QED BY <1>1, <1>2, <1>3, <1>4, <1>5, <1>6 DEF GuardNext

LEMMA GuardInvAlways == ASSUME GuardAssumption PROVE GuardSpec => []GuardInv
<1>1. GuardInit => GuardInv
  BY GuardInitOK
<1>2. GuardInv /\ [GuardNext]_guardVars => GuardInv'
  BY GuardNextOK
<1>3. QED BY <1>1, <1>2, PTL DEF GuardSpec

-----------------------------------------------------------------------------
(* What follows.                                                           *)

LEMMA GuardTypesFollow == ASSUME GuardAssumption, GuardInv PROVE GuardTypeOK
<1>1. ASSUME NEW q \in Logins
      PROVE  login[q].at \in {"idle", "arrived", "compare"} /\ login[q].now <= now
  <2>1. login[q] \in LoginRow /\ LoginOK(q) /\ now \in Nat
    BY DEF GuardInv, GuardTypes
  <2>2. QED BY <2>1 DEF LoginOK, LoginRow, NoLogin
<1>2. QED BY <1>1, EntryFits DEF GuardInv, GuardTypes, TableOK, GuardTypeOK

\* Numbers less than n apart are n at most.
LEMMA ApartBounds ==
  ASSUME NEW S \in SUBSET Nat, NEW n \in Nat, \A i, j \in S : ~(i + n <= j)
  PROVE  Cardinality(S) <= n
<1>1. CASE S = {}
  BY <1>1, FS_EmptySet
<1>2. CASE S # {}
  <2>1. PICK least \in S : \A j \in S : least <= j
    <3>1. PICK least \in S : \A j \in S : <<j, least>> \notin OpToRel(<, Nat)
      BY <1>2, NatLessThanWellFounded, WFMin
    <3>2. \A j \in S : ~(j < least)
      BY <3>1 DEF OpToRel
    <3>3. QED BY <3>2
  <2>2. S \subseteq least .. least + n - 1
    BY <2>1
  <2>3. /\ IsFiniteSet(least .. least + n - 1)
        /\ Cardinality(least .. least + n - 1) <= n
    BY <2>1, FS_Interval
  <2>4. Cardinality(S) <= Cardinality(least .. least + n - 1) /\ IsFiniteSet(S)
    BY <2>2, <2>3, FS_Subset
  <2>5. Cardinality(S) \in Nat /\ Cardinality(least .. least + n - 1) \in Nat
    BY <2>3, <2>4, FS_CardinalityType
  <2>6. QED BY <2>3, <2>4, <2>5
<1>3. QED BY <1>1, <1>2

LEMMA GuessesFollow == ASSUME GuardAssumption, GuardInv PROVE GuessesAreBounded
<1> SUFFICES ASSUME NEW a \in Addresses \ dropped, NEW t \in 1 .. MaxNow
             PROVE  Within(a, t, t + FailureWindow - 1 - LoginTime) <= 2 * MostCounted
  BY DEF GuessesAreBounded
<1> DEFINE last == t + FailureWindow - 1 - LoginTime
           S == {i \in DOMAIN wrong[a] : wrong[a][i] \in t .. last}
<1>1. t \in Nat /\ FailureWindow \in Nat /\ LoginTime \in Nat /\ MostCounted \in Nat
  BY Constants DEF GuardAssumption
<1>2. /\ wrong[a] \in Seq(Nat) /\ failures[a] \in Entry
      /\ Spaced(failures[a], wrong[a], now)
  BY EntryFits DEF GuardInv, HistoryOK
<1>3. /\ DOMAIN wrong[a] \in SUBSET Nat /\ \A i \in DOMAIN wrong[a] : wrong[a][i] \in Nat
  BY <1>2
<1>4. ASSUME NEW i \in S, NEW j \in S, i + 2 * MostCounted <= j PROVE FALSE
  <2>1. wrong[a][i] + FailureWindow <= wrong[a][j] + LoginTime
    BY <1>2, <1>4 DEF Spaced
  <2>2. /\ wrong[a][i] \in Nat /\ wrong[a][j] \in Nat
        /\ t <= wrong[a][i] /\ wrong[a][j] <= t + FailureWindow - 1 - LoginTime
    BY <1>3, <1>4
  <2>3. QED BY <1>1, <2>1, <2>2
<1>5. S \in SUBSET Nat /\ 2 * MostCounted \in Nat
  BY <1>1, <1>3
<1> HIDE DEF S
<1>6. Cardinality(S) <= 2 * MostCounted
  BY <1>4, <1>5, ApartBounds
<1>7. QED BY <1>6 DEF Within, S, last

\* What was recorded since a window began is in the window before its end.
LEMMA InWindow ==
  ASSUME NEW t \in Nat, NEW resetAt \in Nat, NEW w \in Nat, NEW clock \in Nat,
         FailureWindow \in Nat, t < resetAt, resetAt <= w + FailureWindow, w <= clock
  PROVE  w \in t - FailureWindow + 1 .. clock
OBVIOUS

LEMMA RefusalFollows == ASSUME GuardAssumption, GuardInv, [GuardNext]_guardVars PROVE RefusalIsEarned
<1> SUFFICES ASSUME NEW q \in Logins, login[q].at = "arrived", login'[q] = NoLogin
             PROVE  Within(login[q].address, login[q].now - FailureWindow + 1, now) >= FailureLimit
  BY DEF RefusalIsEarned
<1> DEFINE a == login[q].address
           t == login[q].now
           n == Len(wrong[a])
           latest == n - failures[a].count + 1 .. n
           S == {i \in DOMAIN wrong[a] : wrong[a][i] \in t - FailureWindow + 1 .. now}
<1>1. a \in Addresses /\ t \in Nat /\ now \in Nat /\ login[q] # NoLogin
  BY DEF GuardInv, GuardTypes, LoginOK, NoLogin
<1>2. t < failures[a].resetAt /\ failures[a].count >= FailureLimit
  <2>1. login' # login
    BY <1>1
  <2>2. \A p \in Logins \ {q} : Attempt(p) \/ Allow(p) \/ RightPassword(p) \/ WrongPassword(p)
                                  => login'[q] = login[q]
    BY DEF GuardInv, GuardTypes, Attempt, Allow, RightPassword, WrongPassword
  <2>3. Allow(q)
    BY <1>1, <2>1, <2>2 DEF GuardNext, guardVars, Elapse, Attempt, RightPassword, WrongPassword, NoLogin
  <2>4. CASE Blocked(failures[a], t)
    BY <2>4 DEF Blocked
  <2>5. CASE ~Blocked(failures[a], t)
    <3>1. login'[q] = [login[q] EXCEPT !.at = "compare"]
      BY <2>3, <2>5 DEF Allow, GuardInv, GuardTypes
    <3>2. login'[q].at = "compare"
      BY <3>1 DEF GuardInv, GuardTypes, LoginRow
    <3>3. QED BY <3>2 DEF NoLogin
  <2>6. QED BY <2>4, <2>5
<1>3. /\ wrong[a] \in Seq(Nat) /\ failures[a].count \in Nat /\ failures[a].resetAt \in Nat
      /\ Counts(failures[a], wrong[a], now)
  BY <1>1, EntryFits DEF GuardInv, HistoryOK
<1>4. /\ n \in Nat /\ DOMAIN wrong[a] = 1 .. n /\ failures[a].count <= n
      /\ \A i \in DOMAIN wrong[a] : wrong[a][i] \in Nat
  BY <1>3 DEF Counts
<1>5. ASSUME NEW i \in latest PROVE i \in S
  <2>1. i \in DOMAIN wrong[a] /\ i > n - failures[a].count
    BY <1>3, <1>4
  <2>2. wrong[a][i] <= now /\ failures[a].resetAt <= wrong[a][i] + FailureWindow
    BY <1>3, <2>1 DEF Counts
  <2>3. wrong[a][i] \in Nat /\ FailureWindow \in Nat /\ failures[a].resetAt \in Nat
    BY <1>3, <1>4, <2>1, Constants
  <2>4. wrong[a][i] \in t - FailureWindow + 1 .. now
    BY <1>1, <1>2, <2>2, <2>3, InWindow
  <2>5. QED BY <2>1, <2>4
<1>6. IsFiniteSet(latest) /\ Cardinality(latest) = failures[a].count
  <2>1. n - failures[a].count + 1 \in Int /\ n \in Int
    BY <1>3, <1>4
  <2>2. /\ IsFiniteSet(latest)
        /\ Cardinality(latest) = IF n - failures[a].count + 1 > n THEN 0
                                 ELSE n - (n - failures[a].count + 1) + 1
    BY <2>1, FS_Interval
  <2>3. QED BY <1>3, <1>4, <2>2
<1>7. IsFiniteSet(S)
  <2>1. IsFiniteSet(1 .. n)
    BY <1>4, FS_Interval
  <2>2. QED BY <1>4, <2>1, FS_Subset
<1>8. Cardinality(latest) <= Cardinality(S) /\ Cardinality(S) \in Nat
  BY <1>5, <1>7, FS_Subset, FS_CardinalityType
<1>9. Cardinality(S) >= FailureLimit
  BY <1>2, <1>3, <1>6, <1>8, Constants, SMTT(30)
<1>10. QED BY <1>9 DEF Within

LEMMA BlockFollows == ASSUME GuardAssumption, GuardInv, [GuardNext]_guardVars PROVE BlockHolds
<1> SUFFICES ASSUME NEW a \in Addresses, Blocked(failures[a], now), failures'[a] # failures[a],
                    wrong'[a] # <<>>
             PROVE  \/ failures'[a].count > failures[a].count /\ failures'[a].resetAt = failures[a].resetAt
                    \/ failures'[a] = NoEntry /\ Cardinality(Entries(failures)) = MaxFailureEntries
  BY DEF BlockHolds
<1>1. /\ failures \in [Addresses -> Entry] /\ failures[a].resetAt \in Nat /\ failures[a].count \in Nat
      /\ now < failures[a].resetAt /\ now \in Nat
  BY EntryFits DEF Blocked, GuardInv, GuardTypes
<1>2. failures' # failures
  OBVIOUS
<1>3. ASSUME NEW q \in Logins, Allow(q) PROVE FALSE
  <2>1. login[q].now \in 1 .. now
    BY <1>3 DEF Allow, GuardInv, LoginOK
  <2>2. CASE login[q].now >= failures[login[q].address].resetAt
    <3>1. login[q].address # a
      BY <1>1, <2>1, <2>2
    <3>2. failures' = Without(failures, {login[q].address})
      BY <1>3, <2>2 DEF Allow
    <3>3. QED BY <1>1, <3>1, <3>2, WithoutFields
  <2>3. CASE ~(login[q].now >= failures[login[q].address].resetAt)
    BY <1>2, <1>3, <2>3 DEF Allow
  <2>4. QED BY <2>2, <2>3
<1>4. ASSUME NEW q \in Logins, RightPassword(q) PROVE FALSE
  <2>1. login[q].address # a
    BY <1>4 DEF RightPassword, GuardInv, GuardTypes
  <2>2. QED BY <1>1, <1>4, <2>1, WithoutFields DEF RightPassword, Reset
<1>5. ASSUME NEW q \in Logins, WrongPassword(q)
      PROVE  \/ failures'[a].count > failures[a].count /\ failures'[a].resetAt = failures[a].resetAt
             \/ failures'[a] = NoEntry /\ Cardinality(Entries(failures)) = MaxFailureEntries
  <2>1. PICK b : login[q].address = b
    OBVIOUS
  <2>2. PICK t : login[q].now = t
    OBVIOUS
  <2>3. PICK recorded : recorded = [failures EXCEPT ![b] = Counted(@, t)]
    OBVIOUS
  <2>4. PICK gone \in Evictions(recorded, t) : failures' = Without(recorded, gone)
    BY <1>5, <2>1, <2>2, <2>3 DEF WrongPassword
  <2>5. b \in Addresses /\ t \in Nat /\ t < failures[a].resetAt
    <3>1. b \in Addresses /\ t \in 1 .. now
      BY <1>5, <2>1, <2>2 DEF WrongPassword, GuardInv, LoginOK
    <3>2. QED BY <1>1, <3>1
  <2>6. /\ recorded \in [Addresses -> Entry] /\ recorded[b] = Counted(failures[b], t)
        /\ \A c \in Addresses \ {b} : recorded[c] = failures[c]
    <3>1. Counted(failures[b], t) \in Entry
      BY <1>1, <2>5, CountedTyped
    <3>2. QED BY <1>1, <2>3, <2>5, <3>1
  <2>7. recorded[a].resetAt = failures[a].resetAt
    <3>1. Counted(failures[a], t).resetAt = failures[a].resetAt
      BY <1>1, <2>5, CountedTyped
    <3>2. QED BY <2>6, <3>1
  <2>8. CASE a \notin gone
    <3>1. failures'[a] = recorded[a]
      BY <2>4, <2>6, <2>8, WithoutFields
    <3>2. a = b
      BY <2>6, <3>1
    <3>3. Counted(failures[a], t).count = failures[a].count + 1
      BY <1>1, <2>5, CountedTyped
    <3>4. recorded[a].count = failures[a].count + 1
      BY <2>6, <3>2, <3>3
    <3>5. QED BY <1>1, <2>7, <3>1, <3>4
  <2>9. CASE a \in gone
    <3>1. failures'[a] = NoEntry
      BY <2>4, <2>6, <2>9, WithoutFields
    <3>2. ~(t >= recorded[a].resetAt)
      BY <1>1, <2>5, <2>7
    <3>3. ~(Cardinality(Entries(recorded)) <= MaxFailureEntries)
      BY <2>9 DEF Evictions
    <3>4. /\ Cardinality(Entries(recorded)) \in Nat /\ Cardinality(Entries(failures)) \in Nat
          /\ Cardinality(Entries(recorded)) <= Cardinality(Entries(failures)) + 1
      BY <2>5, <2>6, RecordedFits
    <3>5. Cardinality(Entries(failures)) <= MaxFailureEntries /\ MaxFailureEntries \in Nat
      BY Constants DEF GuardInv, TableOK
    <3>6. Cardinality(Entries(failures)) = MaxFailureEntries
      BY <3>3, <3>4, <3>5
    <3>7. QED BY <3>1, <3>6
  <2>10. QED BY <2>8, <2>9
<1>6. QED BY <1>2, <1>3, <1>4, <1>5 DEF GuardNext, guardVars, Elapse, Attempt

-----------------------------------------------------------------------------
\* The table never holds more than its entries, an entry never counts more than
\* the limit and the logins past the guard; and unless failures of an address
\* were dropped, no span shorter than the window by a login's time has more
\* wrong passwords from it than two entries count (recordFailure, allow).
THEOREM GuardBounded == ASSUME GuardAssumption PROVE GuardSpec => []GuardIsBounded
<1>1. GuardInv => GuardIsBounded
  BY GuardTypesFollow, GuessesFollow DEF GuardIsBounded
<1>2. QED BY <1>1, GuardInvAlways, PTL

\* A login is refused only for as many wrong passwords as the limit, recorded
\* within the window; a blocked address stays blocked, no longer than it was
\* told, but for a right password and a full table (allow, recordFailure, reset).
THEOREM RefusalsAndBlocks == ASSUME GuardAssumption PROVE GuardSpec => BlocksAreJust
<1>1. GuardInv /\ [GuardNext]_guardVars => [RefusalIsEarned /\ BlockHolds]_guardVars
  BY RefusalFollows, BlockFollows
<1>2. QED BY <1>1, GuardInvAlways, PTL DEF GuardSpec, BlocksAreJust

-----------------------------------------------------------------------------
(* Sessions.                                                               *)

LoggingIn(r) == r.at \in {"prune", "insert"}

Holding(r) == r.at \in {"auth", "csrf", "delete"}

RequestType ==
  [at : {"idle", "prune", "insert", "auth", "csrf", "delete"}, token : Tokens \cup {"none"},
   clock : Int, since : Int, process : Processes \cup {"none"}, kind : {"none", "login", "read", "logout"}]

\* A request at work has a token and a process, and is not slower than it may be.
UnderWay(r) ==
  r.at # "idle" =>
    /\ r.token \in Tokens /\ r.process \in Processes
    /\ r.since \in 1 .. time /\ time <= r.since + RequestTime

\* The token of a login has no row and was given to no browser; the end of its
\* session is set.
NewSession(r) ==
  LoggingIn(r) =>
    /\ issued[r.token] = 0 /\ rows[r.token] = 0
    /\ r.clock - TTL - Skew[r.process] >= 1

\* A cookie is one that was issued; what it is compared with is the clock at
\* the start of the statement.
OldSession(r) ==
  /\ Holding(r) => issued[r.token] # 0
  /\ r.at \in {"auth", "csrf"} => r.clock = r.since + Skew[r.process]

RequestOK(r) ==
  /\ r \in RequestType
  /\ r.at = "idle" => r = NoRequest
  /\ UnderWay(r) /\ NewSession(r) /\ OldSession(r)

\* No two logins are of one token.
Apart ==
  \A q, other \in Requests :
    q # other /\ LoggingIn(request[q]) /\ LoggingIn(request[other])
      => request[q].token # request[other].token

SessionTypes ==
  /\ time \in 1 .. MaxTime
  /\ rows \in [Tokens -> Nat] /\ issued \in [Tokens -> Nat]
  /\ DOMAIN request = Requests
  /\ revoked \in SUBSET Tokens

\* The end of a session that a browser holds, by the clock of one process.
EndsBy(t, p) == issued[t] + TTL + Skew[p]

RowOK(t) ==
  /\ rows[t] # 0 /\ issued[t] # 0 => \E p \in Processes : rows[t] = EndsBy(t, p)
  /\ rows[t] = 0 /\ issued[t] # 0 /\ t \notin revoked
       => \E p \in Processes : EndsBy(t, p) <= time + DatabaseSkew
  /\ t \in revoked => issued[t] # 0 /\ rows[t] = 0

SessionInv ==
  /\ SessionTypes
  /\ \A q \in Requests : RequestOK(request[q])
  /\ \A t \in Tokens : RowOK(t)
  /\ Apart

-----------------------------------------------------------------------------
LEMMA SessionInitOK == ASSUME ClocksAssumption PROVE SessionInit => SessionInv
BY DEF ClocksAssumption, SessionInit, SessionInv, SessionTypes, RequestOK, RequestType, UnderWay, NewSession,
       OldSession, Apart, RowOK, EndsBy, LoggingIn, Holding, NoRequest

LEMMA SessionStutterOK == ASSUME SessionInv, UNCHANGED sessionVars PROVE SessionInv'
BY DEF sessionVars, SessionInv, SessionTypes, RequestOK, RequestType, UnderWay, NewSession,
       OldSession, Apart, RowOK, EndsBy

\* A step of one request that writes no row.
LEMMA RequestStep ==
  ASSUME SessionInv, NEW q \in Requests, NEW r,
         UNCHANGED <<time, rows, issued, revoked>>,
         request' = [request EXCEPT ![q] = r],
         RequestOK(r),
         LoggingIn(r) => \A other \in Requests \ {q} : request[other].token # r.token
  PROVE  SessionInv'
<1>1. /\ DOMAIN request = Requests
      /\ request'[q] = r
      /\ \A other \in Requests \ {q} : request'[other] = request[other]
  BY DEF SessionInv, SessionTypes
<1>2. SessionTypes'
  BY DEF SessionInv, SessionTypes
<1>3. ASSUME NEW o \in Requests PROVE RequestOK(request[o])'
  <2>1. CASE o = q
    BY <1>1, <2>1 DEF RequestOK, RequestType, UnderWay, NewSession, OldSession
  <2>2. CASE o # q
    <3>1. request'[o] = request[o] /\ RequestOK(request[o])
      BY <1>1, <2>2 DEF SessionInv
    <3>2. QED BY <3>1 DEF RequestOK, RequestType, UnderWay, NewSession, OldSession
  <2>3. QED BY <2>1, <2>2
<1>4. ASSUME NEW t \in Tokens PROVE RowOK(t)'
  BY DEF SessionInv, RowOK, EndsBy
<1>5. Apart'
  BY <1>1 DEF SessionInv, Apart
<1>6. QED BY <1>2, <1>3, <1>4, <1>5 DEF SessionInv

LEMMA IdleOK == ASSUME ClocksAssumption PROVE RequestOK(NoRequest)
BY DEF RequestOK, RequestType, UnderWay, NewSession, OldSession, LoggingIn, Holding, NoRequest

LEMMA LoginStep == ASSUME ClocksAssumption, SessionInv, NEW q \in Requests, Login(q) PROVE SessionInv'
<1>1. PICK p \in Processes, t \in Tokens :
        /\ issued[t] = 0 /\ rows[t] = 0 /\ \A other \in Requests : request[other].token # t
        /\ request' = [request EXCEPT ![q] =
             [at |-> "prune", token |-> t, clock |-> Clock(p) + TTL, since |-> time,
              process |-> p, kind |-> "login"]]
  BY DEF Login
<1> DEFINE r == [at |-> "prune", token |-> t, clock |-> Clock(p) + TTL, since |-> time,
                 process |-> p, kind |-> "login"]
<1>2. RequestOK(r)
  BY <1>1 DEF ClocksAssumption, SessionInv, SessionTypes, RequestOK, RequestType, UnderWay, NewSession,
              OldSession, LoggingIn, Holding, Clock
<1>3. r.token = t
  OBVIOUS
<1> HIDE DEF r
<1>4. request' = [request EXCEPT ![q] = r]
  BY <1>1 DEF r
<1>5. QED BY <1>1, <1>2, <1>3, <1>4, RequestStep DEF Login

LEMMA ArriveStep == ASSUME ClocksAssumption, SessionInv, NEW q \in Requests, Arrive(q) PROVE SessionInv'
<1>1. PICK p \in Processes, t \in Tokens, kind \in {"read", "logout"} :
        /\ issued[t] # 0
        /\ request' = [request EXCEPT ![q] =
             [at |-> "auth", token |-> t, clock |-> Clock(p), since |-> time,
              process |-> p, kind |-> kind]]
  BY DEF Arrive
<1> DEFINE r == [at |-> "auth", token |-> t, clock |-> Clock(p), since |-> time,
                 process |-> p, kind |-> kind]
<1>2. RequestOK(r) /\ ~LoggingIn(r)
  BY <1>1 DEF ClocksAssumption, SessionInv, SessionTypes, RequestOK, RequestType, UnderWay, NewSession,
              OldSession, LoggingIn, Holding, Clock
<1> HIDE DEF r
<1>3. request' = [request EXCEPT ![q] = r]
  BY <1>1 DEF r
<1>4. QED BY <1>2, <1>3, RequestStep DEF Arrive

\* A request that ends.
LEMMA EndStep ==
  ASSUME ClocksAssumption, SessionInv, NEW q \in Requests,
         UNCHANGED <<time, rows, issued, revoked>>,
         request' = [request EXCEPT ![q] = NoRequest]
  PROVE  SessionInv'
<1>1. ~LoggingIn(NoRequest)
  BY DEF LoggingIn, NoRequest
<1>2. QED BY <1>1, IdleOK, RequestStep

LEMMA AdmittedStep == ASSUME ClocksAssumption, SessionInv, NEW q \in Requests, Admitted(q) PROVE SessionInv'
<1> DEFINE looks  == [request[q] EXCEPT !.at = "csrf", !.since = time,
                                        !.clock = Clock(request[q].process)]
           leaves == [request[q] EXCEPT !.at = "delete", !.since = time]
<1>1. /\ request[q] \in RequestType /\ request[q].at \in {"auth", "csrf"}
      /\ request[q].token \in Tokens /\ request[q].process \in Processes
      /\ issued[request[q].token] # 0 /\ DOMAIN request = Requests
  BY DEF SessionInv, SessionTypes, RequestOK, UnderWay, OldSession, Holding, Admitted, Passes
<1>2. time \in Int /\ time \in 1 .. MaxTime /\ time <= time + RequestTime
      /\ Clock(request[q].process) = time + Skew[request[q].process]
      /\ Clock(request[q].process) \in Int
  BY <1>1 DEF ClocksAssumption, SessionInv, SessionTypes, Clock
<1>3. RequestOK(looks) /\ ~LoggingIn(looks)
  <2>1. /\ looks.at = "csrf" /\ looks.since = time /\ looks.token = request[q].token
        /\ looks.clock = Clock(request[q].process) /\ looks.process = request[q].process
        /\ looks \in RequestType
    BY <1>1, <1>2 DEF RequestType
  <2> HIDE DEF looks
  <2>2. QED BY <1>1, <1>2, <2>1 DEF ClocksAssumption, RequestOK, UnderWay, NewSession, OldSession,
                                  LoggingIn, Holding
<1>4. RequestOK(leaves) /\ ~LoggingIn(leaves)
  <2>1. /\ leaves.at = "delete" /\ leaves.since = time /\ leaves.token = request[q].token
        /\ leaves.process = request[q].process /\ leaves \in RequestType
    BY <1>1, <1>2 DEF RequestType
  <2> HIDE DEF leaves
  <2>2. QED BY <1>1, <1>2, <2>1 DEF ClocksAssumption, RequestOK, UnderWay, NewSession, OldSession,
                                  LoggingIn, Holding
<1>5. \/ request' = [request EXCEPT ![q] = NoRequest]
      \/ request' = [request EXCEPT ![q] = looks]
      \/ request' = [request EXCEPT ![q] = leaves]
  BY <1>1 DEF Admitted, Goes
<1> HIDE DEF looks, leaves
<1>6. UNCHANGED <<time, rows, issued, revoked>>
  BY DEF Admitted
<1>7. CASE request' = [request EXCEPT ![q] = NoRequest]
  BY <1>6, <1>7, EndStep
<1>8. CASE request' = [request EXCEPT ![q] = looks]
  BY <1>3, <1>6, <1>8, RequestStep
<1>9. CASE request' = [request EXCEPT ![q] = leaves]
  BY <1>4, <1>6, <1>9, RequestStep
<1>10. QED BY <1>5, <1>7, <1>8, <1>9

\* What the database's clock is past is past its time by every clock but for
\* the spread; a login's token has no row to lose.
LEMMA PruneStep == ASSUME ClocksAssumption, SessionInv, NEW q \in Requests, Prune(q) PROVE SessionInv'
<1> DEFINE r == [request[q] EXCEPT !.at = "insert", !.since = time]
<1>1. /\ request[q] \in RequestType /\ request[q].at = "prune" /\ RequestOK(request[q])
      /\ time \in Int /\ time \in 1 .. MaxTime /\ DOMAIN request = Requests
  BY DEF ClocksAssumption, SessionInv, SessionTypes, RequestOK, Prune
<1>2. r.at = "insert" /\ r.since = time /\ r.token = request[q].token /\ r.clock = request[q].clock
      /\ r.process = request[q].process /\ r \in RequestType
  BY <1>1 DEF RequestType
<1>3. request' = [request EXCEPT ![q] = r]
  BY <1>1 DEF Prune, Goes
<1> HIDE DEF r
<1>4. /\ request'[q] = r
      /\ \A other \in Requests \ {q} : request'[other] = request[other]
      /\ UNCHANGED <<time, issued, revoked>>
      /\ \A t \in Tokens : rows'[t] = IF Over(rows[t]) THEN 0 ELSE rows[t]
      /\ rows' = [t \in Tokens |-> IF Over(rows[t]) THEN 0 ELSE rows[t]]
  BY <1>1, <1>3 DEF Prune
<1>5. SessionTypes'
  BY <1>3, <1>4 DEF SessionInv, SessionTypes
<1>6. ASSUME NEW o \in Requests PROVE RequestOK(request[o])'
  <2>1. CASE o = q
    <3>1. r.token \in Tokens /\ r.process \in Processes /\ rows'[r.token] = 0
      BY <1>1, <1>2, <1>4 DEF RequestOK, UnderWay, NewSession, LoggingIn
    <3>2. QED BY <1>1, <1>2, <1>4, <2>1, <3>1
                DEF ClocksAssumption, RequestOK, RequestType, UnderWay, NewSession, OldSession,
                    LoggingIn, Holding
  <2>2. CASE o # q
    <3>1. request'[o] = request[o] /\ RequestOK(request[o])
      BY <1>4, <2>2 DEF SessionInv
    <3>2. NewSession(request[o])'
      BY <1>4, <3>1 DEF RequestOK, UnderWay, NewSession, LoggingIn
    <3>3. QED BY <1>4, <3>1, <3>2 DEF RequestOK, RequestType, UnderWay, OldSession
  <2>3. QED BY <2>1, <2>2
<1>7. ASSUME NEW t \in Tokens PROVE RowOK(t)'
  <2>1. RowOK(t) /\ rows[t] \in Nat /\ issued[t] \in Nat
    BY DEF SessionInv, SessionTypes
  <2>2. CASE Over(rows[t])
    <3>1. rows'[t] = 0
      BY <1>4, <2>2
    <3>2. CASE issued[t] # 0 /\ t \notin revoked
      <4>1. \E p \in Processes : EndsBy(t, p) <= time + DatabaseSkew
        BY <2>1, <2>2, <3>2 DEF RowOK, Over
      <4>2. QED BY <1>4, <3>1, <3>2, <4>1 DEF RowOK, EndsBy
    <3>3. QED BY <1>4, <2>1, <3>1, <3>2 DEF RowOK, EndsBy
  <2>3. CASE ~Over(rows[t])
    BY <1>4, <2>1, <2>3 DEF RowOK, EndsBy
  <2>4. QED BY <2>2, <2>3
<1>8. Apart'
  BY <1>1, <1>2, <1>4 DEF SessionInv, Apart, LoggingIn
<1>9. QED BY <1>5, <1>6, <1>7, <1>8 DEF SessionInv

\* The row of a login is written, whether or not the browser hears of it.
LEMMA InsertStep ==
  ASSUME ClocksAssumption, SessionInv, NEW q \in Requests, request[q].at = "insert",
         rows' = Inserted(q),
         \/ issued' = issued
         \/ issued' = [issued EXCEPT ![request[q].token] =
              request[q].clock - TTL - Skew[request[q].process]],
         request' = [request EXCEPT ![q] = NoRequest],
         UNCHANGED <<time, revoked>>
  PROVE  SessionInv'
<1> DEFINE t0 == request[q].token
           p0 == request[q].process
           c0 == request[q].clock
<1>1. /\ t0 \in Tokens /\ p0 \in Processes /\ c0 \in Int /\ c0 - TTL - Skew[p0] >= 1
      /\ issued[t0] = 0 /\ rows[t0] = 0 /\ LoggingIn(request[q])
      /\ t0 \notin revoked
  BY DEF SessionInv, RequestOK, RequestType, UnderWay, NewSession, LoggingIn, RowOK
<1>2. Skew[p0] \in Int /\ Skew[p0] >= -1 /\ TTL \in Nat \ {0}
  BY <1>1 DEF ClocksAssumption
<1>3. c0 \in Nat \ {0} /\ c0 - TTL - Skew[p0] \in Nat \ {0}
  BY <1>1, <1>2
<1>4. /\ rows' = [rows EXCEPT ![t0] = c0]
      /\ issued'[t0] \in {0, c0 - TTL - Skew[p0]}
      /\ \A t \in Tokens \ {t0} : issued'[t] = issued[t]
      /\ issued' \in [Tokens -> Nat]
  BY <1>1, <1>3 DEF Inserted, SessionInv, SessionTypes
<1>5. /\ request'[q] = NoRequest
      /\ \A other \in Requests \ {q} : request'[other] = request[other]
      /\ rows'[t0] = c0 /\ \A t \in Tokens \ {t0} : rows'[t] = rows[t]
  BY <1>1, <1>4 DEF SessionInv, SessionTypes
<1>6. \A other \in Requests \ {q} : LoggingIn(request[other]) => request[other].token # t0
  BY <1>1 DEF SessionInv, Apart
<1>7. \A other \in Requests \ {q} : Holding(request[other]) => request[other].token # t0
  BY <1>1 DEF SessionInv, RequestOK, OldSession
<1> HIDE DEF t0, p0, c0
<1>8. SessionTypes'
  <2>1. /\ time' = time /\ revoked' = revoked /\ DOMAIN request' = DOMAIN request
        /\ time \in 1 .. MaxTime /\ DOMAIN request = Requests /\ revoked \in SUBSET Tokens
    BY DEF SessionInv, SessionTypes
  <2>2. rows' \in [Tokens -> Nat]
    BY <1>1, <1>3, <1>4 DEF SessionInv, SessionTypes
  <2> QED BY <1>4, <2>1, <2>2 DEF SessionTypes
<1>9. ASSUME NEW o \in Requests PROVE RequestOK(request[o])'
  <2>1. CASE o = q
    BY <1>5, <2>1 DEF RequestOK, RequestType, UnderWay, NewSession, OldSession, LoggingIn, Holding, NoRequest
  <2>2. CASE o # q
    <3>1. request'[o] = request[o] /\ RequestOK(request[o])
      BY <1>5, <2>2 DEF SessionInv
    <3>2. NewSession(request[o])'
      BY <1>4, <1>5, <1>6, <2>2, <3>1 DEF RequestOK, UnderWay, NewSession, LoggingIn
    <3>3. OldSession(request[o])'
      BY <1>4, <1>7, <2>2, <3>1 DEF RequestOK, UnderWay, OldSession, Holding
    <3>4. QED BY <3>1, <3>2, <3>3 DEF RequestOK, RequestType, UnderWay
  <2>3. QED BY <2>1, <2>2
<1>10. ASSUME NEW t \in Tokens PROVE RowOK(t)'
  <2>1. RowOK(t) /\ rows[t] \in Nat /\ issued[t] \in Nat
    BY DEF SessionInv, SessionTypes
  <2>2. CASE t = t0
    <3>1. issued'[t] # 0 => rows'[t] = issued'[t] + TTL + Skew[p0]
      BY <1>1, <1>2, <1>4, <1>5, <2>2
    <3>2. QED BY <1>1, <1>3, <1>5, <2>2, <3>1 DEF RowOK, EndsBy
  <2>3. CASE t # t0
    BY <1>4, <1>5, <2>1, <2>3 DEF RowOK, EndsBy
  <2>4. QED BY <2>2, <2>3
<1>11. Apart'
  BY <1>5 DEF SessionInv, Apart, LoggingIn, NoRequest
<1>12. QED BY <1>8, <1>9, <1>10, <1>11 DEF SessionInv

\* A logged out token is of an issued session, so no login is about to write
\* its row again.
LEMMA DeleteStep ==
  ASSUME ClocksAssumption, SessionInv, NEW q \in Requests, request[q].at = "delete",
         rows' = Deleted(request[q].token),
         revoked' = revoked \cup {request[q].token},
         request' = [request EXCEPT ![q] = NoRequest],
         UNCHANGED <<time, issued>>
  PROVE  SessionInv'
<1> DEFINE t0 == request[q].token
<1>1. t0 \in Tokens /\ issued[t0] # 0
  BY DEF SessionInv, RequestOK, UnderWay, OldSession, Holding
<1>2. /\ request'[q] = NoRequest
      /\ \A other \in Requests \ {q} : request'[other] = request[other]
      /\ rows' = [rows EXCEPT ![t0] = 0]
      /\ rows'[t0] = 0 /\ \A t \in Tokens \ {t0} : rows'[t] = rows[t]
      /\ revoked' = revoked \cup {t0}
  BY <1>1 DEF SessionInv, SessionTypes, Deleted
<1> HIDE DEF t0
<1>3. SessionTypes'
  BY <1>1, <1>2 DEF SessionInv, SessionTypes
<1>4. ASSUME NEW o \in Requests PROVE RequestOK(request[o])'
  <2>1. CASE o = q
    BY <1>2, <2>1 DEF RequestOK, RequestType, UnderWay, NewSession, OldSession, LoggingIn, Holding, NoRequest
  <2>2. CASE o # q
    <3>1. request'[o] = request[o] /\ RequestOK(request[o])
      BY <1>2, <2>2 DEF SessionInv
    <3>2. NewSession(request[o])'
      BY <1>2, <3>1 DEF RequestOK, UnderWay, NewSession, LoggingIn
    <3>3. QED BY <3>1, <3>2 DEF RequestOK, RequestType, UnderWay, OldSession
  <2>3. QED BY <2>1, <2>2
<1>5. ASSUME NEW t \in Tokens PROVE RowOK(t)'
  <2>1. RowOK(t)
    BY DEF SessionInv
  <2>2. CASE t = t0
    BY <1>1, <1>2, <2>2 DEF RowOK
  <2>3. CASE t # t0
    BY <1>2, <2>1, <2>3 DEF RowOK, EndsBy
  <2>4. QED BY <2>2, <2>3
<1>6. Apart'
  BY <1>2 DEF SessionInv, Apart, LoggingIn, NoRequest
<1>7. QED BY <1>3, <1>4, <1>5, <1>6 DEF SessionInv

LEMMA TickStep == ASSUME ClocksAssumption, SessionInv, Tick PROVE SessionInv'
<1>1. time \in 1 .. MaxTime /\ time' = time + 1 /\ time < MaxTime /\ MaxTime \in Nat
      /\ RequestTime \in Nat /\ UNCHANGED <<rows, request, issued, revoked>>
  BY DEF ClocksAssumption, SessionInv, SessionTypes, Tick
<1>2. SessionTypes'
  BY <1>1 DEF SessionInv, SessionTypes
<1>3. ASSUME NEW q \in Requests PROVE RequestOK(request[q])'
  <2>1. RequestOK(request[q]) /\ (request[q] # NoRequest => time < request[q].since + RequestTime)
    BY DEF SessionInv, Tick
  <2>2. UnderWay(request[q])'
    <3>1. request[q].at # "idle" => request[q] # NoRequest
      BY DEF NoRequest
    <3>2. QED BY <1>1, <2>1, <3>1 DEF RequestOK, RequestType, UnderWay
  <2>3. QED BY <1>1, <2>1, <2>2 DEF RequestOK, RequestType, NewSession, OldSession
<1>4. ASSUME NEW t \in Tokens PROVE RowOK(t)'
  <2>1. RowOK(t) /\ issued[t] \in Nat
    BY DEF SessionInv, SessionTypes
  <2>2. (\E p \in Processes : EndsBy(t, p) <= time + DatabaseSkew)
           => \E p \in Processes : EndsBy(t, p) <= time + 1 + DatabaseSkew
    BY <1>1, <2>1 DEF ClocksAssumption, EndsBy
  <2>3. QED BY <1>1, <2>1, <2>2 DEF RowOK, EndsBy
<1>5. Apart'
  BY <1>1 DEF SessionInv, Apart
<1>6. QED BY <1>2, <1>3, <1>4, <1>5 DEF SessionInv

LEMMA FailsStep == ASSUME ClocksAssumption, SessionInv, NEW q \in Requests, CallFails(q) PROVE SessionInv'
<1>1. CASE UNCHANGED <<rows, revoked>>
  BY <1>1, EndStep DEF CallFails
<1>2. CASE request[q].at = "insert" /\ rows' = Inserted(q) /\ UNCHANGED revoked
  BY <1>2, InsertStep DEF CallFails
<1>3. CASE /\ request[q].at = "delete"
           /\ rows' = Deleted(request[q].token)
           /\ revoked' = revoked \cup {request[q].token}
  BY <1>3, DeleteStep DEF CallFails
<1>4. QED BY <1>1, <1>2, <1>3 DEF CallFails

LEMMA SessionNextOK == ASSUME ClocksAssumption, SessionInv, [SessionNext]_sessionVars PROVE SessionInv'
<1>1. CASE Tick
  BY <1>1, TickStep
<1>2. ASSUME NEW q \in Requests, Login(q) PROVE SessionInv'
  BY <1>2, LoginStep
<1>3. ASSUME NEW q \in Requests, Prune(q) PROVE SessionInv'
  BY <1>3, PruneStep
<1>4. ASSUME NEW q \in Requests, Insert(q) PROVE SessionInv'
  BY <1>4, InsertStep DEF Insert
<1>5. ASSUME NEW q \in Requests, Arrive(q) PROVE SessionInv'
  BY <1>5, ArriveStep
<1>6. ASSUME NEW q \in Requests, Admitted(q) PROVE SessionInv'
  BY <1>6, AdmittedStep
<1>7. ASSUME NEW q \in Requests, Refused(q) PROVE SessionInv'
  BY <1>7, EndStep DEF Refused
<1>8. ASSUME NEW q \in Requests, Logout(q) PROVE SessionInv'
  BY <1>8, DeleteStep DEF Logout
<1>9. ASSUME NEW q \in Requests, CallFails(q) PROVE SessionInv'
  BY <1>9, FailsStep
<1>10. CASE UNCHANGED sessionVars
  BY <1>10, SessionStutterOK
<1>11. QED BY <1>1, <1>2, <1>3, <1>4, <1>5, <1>6, <1>7, <1>8, <1>9, <1>10 DEF SessionNext

LEMMA SessionInvAlways == ASSUME ClocksAssumption PROVE SessionSpec => []SessionInv
<1>1. SessionInit => SessionInv
  BY SessionInitOK
<1>2. SessionInv /\ [SessionNext]_sessionVars => SessionInv'
  BY SessionNextOK
<1>3. QED BY <1>1, <1>2, PTL DEF SessionSpec

-----------------------------------------------------------------------------
LEMMA SessionTypesFollow == ASSUME SessionInv PROVE SessionTypeOK
<1>1. ASSUME NEW q \in Requests, request[q] # NoRequest PROVE time <= request[q].since + RequestTime
  BY <1>1 DEF SessionInv, RequestOK, UnderWay
<1>2. QED BY <1>1 DEF SessionInv, SessionTypes, RowOK, SessionTypeOK

\* A look at a row that is gone never finds it live.
LEMMA NoRowRefuses ==
  ASSUME ClocksAssumption, SessionInv, NEW q \in Requests, Loading(q), rows[request[q].token] = 0
  PROVE  ~Passes(q)
<1>1. /\ request[q].clock = request[q].since + Skew[request[q].process]
      /\ request[q].since \in 1 .. time /\ request[q].process \in Processes
      /\ time \in 1 .. MaxTime
  BY DEF SessionInv, SessionTypes, RequestOK, UnderWay, OldSession, Loading
<1>2. Skew[request[q].process] \in Int /\ Skew[request[q].process] >= -1
  BY <1>1 DEF ClocksAssumption
<1>3. QED BY <1>1, <1>2 DEF ClocksAssumption, Passes, Live

LEMMA LogoutFollows == ASSUME ClocksAssumption, SessionInv PROVE LogoutIsFinal
<1>1. ASSUME NEW q \in Requests, request[q].token \in revoked, Passes(q) PROVE FALSE
  <2>1. Loading(q) /\ request[q].token \in Tokens
    BY <1>1 DEF Passes, Loading, SessionInv, SessionTypes
  <2>2. rows[request[q].token] = 0
    BY <1>1, <2>1 DEF SessionInv, RowOK
  <2>3. QED BY <1>1, <2>1, <2>2, NoRowRefuses
<1>2. QED BY <1>1 DEF LogoutIsFinal

\* What a request that looks at a session knows of it.
LEMMA Looking ==
  ASSUME ClocksAssumption, SessionInv, NEW q \in Requests, Loading(q)
  PROVE  LET r == request[q]
         IN /\ r.token \in Tokens /\ r.process \in Processes
            /\ issued[r.token] \in Nat \ {0} /\ rows[r.token] \in Nat
            /\ r.since \in 1 .. time /\ time \in 1 .. MaxTime /\ time <= r.since + RequestTime
            /\ r.clock = r.since + Skew[r.process]
BY DEF SessionInv, SessionTypes, RequestOK, UnderWay, OldSession, Holding, Loading

LEMMA EndsFollows == ASSUME ClocksAssumption, SessionInv PROVE EndsInTime
<1> SUFFICES ASSUME NEW q \in Requests, Loading(q), Passes(q)
             PROVE  time < issued[request[q].token] + TTL + Spread + RequestTime
  BY DEF EndsInTime
<1> DEFINE t == request[q].token
           p == request[q].process
<1>1. rows[t] # 0
  BY NoRowRefuses
<1>2. /\ t \in Tokens /\ p \in Processes /\ issued[t] \in Nat \ {0}
      /\ request[q].since \in 1 .. time /\ time \in 1 .. MaxTime
      /\ time <= request[q].since + RequestTime
      /\ request[q].clock = request[q].since + Skew[p]
  BY Looking
<1>3. PICK o \in Processes : rows[t] = EndsBy(t, o)
  BY <1>1, <1>2 DEF SessionInv, RowOK
<1>4. rows[t] > request[q].clock
  BY DEF Passes, Live
<1>5. Skew[p] \in Int /\ Skew[o] \in Int /\ Skew[o] - Skew[p] <= Spread
      /\ TTL \in Nat /\ Spread \in Nat /\ RequestTime \in Nat /\ MaxTime \in Nat
  BY <1>2, <1>3 DEF ClocksAssumption
<1> HIDE DEF t, p
<1>6. time < issued[t] + TTL + Spread + RequestTime
  BY <1>2, <1>3, <1>4, <1>5 DEF EndsBy
<1>7. QED BY <1>6 DEF t

LEMMA NotSoonerFollows == ASSUME ClocksAssumption, SessionInv PROVE NotSooner
<1> SUFFICES ASSUME NEW q \in Requests, Loading(q), ~Passes(q), request[q].token \notin revoked
             PROVE  time >= issued[request[q].token] + TTL - Spread
  BY DEF NotSooner
<1> DEFINE t == request[q].token
           p == request[q].process
<1>1. /\ t \in Tokens /\ p \in Processes /\ issued[t] \in Nat \ {0} /\ rows[t] \in Nat
      /\ request[q].since \in 1 .. time /\ time \in 1 .. MaxTime
      /\ request[q].clock = request[q].since + Skew[p]
  BY Looking
<1>2. /\ TTL \in Nat /\ Spread \in Nat /\ MaxTime \in Nat /\ DatabaseSkew \in Int
      /\ \A o \in Processes :
           /\ Skew[o] \in Int
           /\ Skew[p] - Skew[o] <= Spread
           /\ DatabaseSkew - Skew[o] <= Spread
  BY <1>1 DEF ClocksAssumption
<1>3. CASE rows[t] # 0
  <2>1. PICK o \in Processes : rows[t] = EndsBy(t, o)
    BY <1>1, <1>3 DEF SessionInv, RowOK
  <2>2. ~(rows[t] > request[q].clock)
    BY DEF Passes, Live, Loading
  <2>3. Skew[p] \in Int /\ Skew[o] \in Int /\ Skew[p] - Skew[o] <= Spread
    BY <1>1, <1>2
  <2> HIDE DEF t, p
  <2>4. time >= issued[t] + TTL - Spread
    BY <1>1, <1>2, <2>1, <2>2, <2>3 DEF EndsBy
  <2>5. QED BY <2>4 DEF t
<1>4. CASE rows[t] = 0
  <2>1. PICK o \in Processes : EndsBy(t, o) <= time + DatabaseSkew
    BY <1>1, <1>4 DEF SessionInv, RowOK
  <2>2. Skew[o] \in Int /\ DatabaseSkew - Skew[o] <= Spread
    BY <1>2
  <2> HIDE DEF t, p
  <2>3. time >= issued[t] + TTL - Spread
    BY <1>1, <1>2, <2>1, <2>2 DEF EndsBy
  <2>4. QED BY <2>3 DEF t
<1>5. QED BY <1>3, <1>4

-----------------------------------------------------------------------------
\* A request waits for a statement no longer than it may, and a session that
\* was logged out was one a browser held and has no row (Delete).
THEOREM SessionsTyped == ASSUME ClocksAssumption PROVE SessionSpec => []SessionTypeOK
<1>1. SessionInv => SessionTypeOK
  BY SessionTypesFollow
<1>2. QED BY <1>1, SessionInvAlways, PTL

\* Whatever the clocks show, a session is honoured until its time and not after
\* it, but for what they are apart and the time of a statement (Create, Load).
THEOREM HonouredInTime == ASSUME ClocksAssumption PROVE SessionSpec => []SessionsLast
<1>1. SessionInv => SessionsLast
  BY EndsFollows, NotSoonerFollows DEF SessionsLast
<1>2. QED BY <1>1, SessionInvAlways, PTL

\* A session that was logged out is refused by every process (Delete, Load).
THEOREM LoggedOut == ASSUME ClocksAssumption PROVE SessionSpec => []LogoutIsFinal
<1>1. SessionInv => LogoutIsFinal
  BY LogoutFollows
<1>2. QED BY <1>1, SessionInvAlways, PTL
=============================================================================
