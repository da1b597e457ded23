--------------------------- MODULE EvidenceRules ---------------------------
(***************************************************************************)
(* What the fact check accepts: the targets it is given, the web sources   *)
(* it keeps of a grounded answer, and the results it takes of the          *)
(* synthesis.  No state: Argumentation uses it.                            *)
(***************************************************************************)
EXTENDS Integers, Sequences, FiniteSets, SequencesExt, Places, Texts

CONSTANTS
  MaxTargetsPerBatch,    \* FACT_CHECK_MAX_TARGETS_PER_BATCH
  MaxReasonLength,       \* FACT_CHECK_MAX_REASON_LENGTH
  MaxGroundingSources,   \* FACT_CHECK_MAX_SOURCES_PER_GROUNDING
  MaxSourcesPerResult,   \* FACT_CHECK_MAX_SOURCES_PER_RESULT
  WebUrls                \* the uris that isHttpUrl accepts

ASSUME EvidenceAssumption ==
  /\ MaxTargetsPerBatch \in Nat \ {0} /\ MaxReasonLength \in Nat \ {0}
  /\ MaxGroundingSources \in Nat \ {0} /\ MaxSourcesPerResult \in Nat \ {0}

Statuses == {"SUPPORTED", "CONTRADICTED", "PARTIALLY_SUPPORTED",
             "INSUFFICIENT_EVIDENCE", "NOT_VERIFIABLE", "OUTDATED"}

NoRepeats(s) == Cardinality(ToSet(s)) = Len(s)

\* validateFactCheckBatchInput; targets is a sequence of [id, statement].
ValidBatchInput(targets) ==
  /\ targets # <<>>
  /\ Len(targets) <= MaxTargetsPerBatch
  /\ NoRepeats([i \in DOMAIN targets |-> targets[i].id])
  /\ \A t \in ToSet(targets) : ~Blank(t.statement)

-----------------------------------------------------------------------------
(* extractGroundedEvidence.                                                 *)

\* Mutant: the bound is applied before the repeated uris are dropped.
M_Deduplicated(urls) == FirstOfEach(SubSeq(urls, 1, Min({Len(urls), MaxGroundingSources})))

\* deduplicateSources: the first source of each uri.
Deduplicated(urls) == FirstOfEach(urls)

\* The uris that isHttpUrl accepts, in the order of the chunks.
Usable(chunks) == AtPlaces(chunks, {i \in DOMAIN chunks : chunks[i] \in WebUrls})

\* The sources kept of the grounding chunks; source i has sourceIndex i - 1.
Extracted(chunks) ==
  LET unique == Deduplicated(Usable(chunks))
  IN SubSeq(unique, 1, Min({Len(unique), MaxGroundingSources}))

\* Without a usable source the grounding fails.
Grounded(chunks) == Extracted(chunks) # <<>>

-----------------------------------------------------------------------------
(* The synthesis: trimFactCheckSources, validateFactCheckBatchOutput and    *)
(* mapFactCheckBatchOutputToEntities.  A result is                          *)
(* [id, status, reason, sources], its sources a sequence of indexes.        *)

\* Each index once, and the first ones only.
TrimSources(out) ==
  [i \in DOMAIN out |->
     LET once == FirstOfEach(out[i].sources)
     IN [out[i] EXCEPT !.sources = SubSeq(once, 1, Min({Len(once), MaxSourcesPerResult}))]]

\* Mutant: the number of results is not compared with that of the targets.
M_ComponentIds(targets, out) ==
  LET ids == [i \in DOMAIN out |-> out[i].id]
  IN NoRepeats(ids) /\ ToSet(ids) \subseteq {t.id : t \in ToSet(targets)}

\* One result for each target.
ComponentIds(targets, out) ==
  LET ids == [i \in DOMAIN out |-> out[i].id]
  IN /\ Len(out) = Len(targets)
     /\ NoRepeats(ids)
     /\ ToSet(ids) = {t.id : t \in ToSet(targets)}

SourceIndexes(r, sources) == \A i \in ToSet(r.sources) : i \in 0..(Len(sources) - 1)

Results(out, sources) ==
  \A r \in ToSet(out) :
    /\ r.status \in Statuses
    /\ ~Blank(r.reason) /\ r.reason.len <= MaxReasonLength
    /\ Len(r.sources) <= MaxSourcesPerResult
    /\ NoRepeats(r.sources)
    /\ SourceIndexes(r, sources)

ValidBatchOutput(targets, out, sources) ==
  ComponentIds(targets, out) /\ Results(out, sources)

\* The rows of the results, with the uris of their sources.
ResultRows(out, sources) ==
  {[id |-> r.id, status |-> r.status, reason |-> Trim(r.reason),
    urls |-> {sources[i + 1] : i \in ToSet(r.sources)}] : r \in ToSet(out)}

-----------------------------------------------------------------------------
\* What Extracted should be, said of the uris: usable ones, in the order of
\* their first occurrence and without a gap, and as many as fit.
FirstAt(chunks, u) == CHOOSE i \in DOMAIN chunks :
                        chunks[i] = u /\ \A j \in 1..(i - 1) : chunks[j] # u

IsEvidenceOf(sources, chunks) ==
  LET usable == ToSet(chunks) \cap WebUrls
  IN /\ ToSet(sources) \subseteq usable
     /\ \A k \in DOMAIN sources : \A u \in usable :
          FirstAt(chunks, u) < FirstAt(chunks, sources[k])
            <=> u \in {sources[j] : j \in 1..(k - 1)}
     /\ Len(sources) <= MaxGroundingSources
     /\ Len(sources) < MaxGroundingSources => usable \subseteq ToSet(sources)
=============================================================================
