---------------------------- MODULE MC_RunLedger ----------------------------
(* Instances of the ledger for TLC: interchangeable identifiers. One run    *)
(* explores two instances, the edits of cases and their evidence.           *)
EXTENDS RunLedger, FiniteSets, TLC

Symmetry == Permutations(SourceId) \cup Permutations(CaseId)
              \cup Permutations(RevisionId) \cup Permutations(RunId)
              \cup Permutations(EvidenceId) \cup Permutations(Contract)
              \cup Permutations(Discretization)

AtMost(n, objects) == Cardinality(Present(objects)) <= n

\* Sources, contracts and views, three revisions; one run, one report.
OfEdits == AtMost(1, runs) /\ AtMost(1, evidence)

\* Two runs, a report with its signatures; two revisions of one setup, and no
\* selection beside three pieces of evidence.
OfEvidence ==
    /\ AtMost(0, sources) /\ AtMost(2, revisions)
    /\ \A q, r \in Present(revisions) : revisions[q].setup = revisions[r].setup
    /\ \A x \in Present(runs) : runs[x].views = {} /\ runs[x].state # "failed"
    /\ \A e \in Present(evidence) : evidence[e].views = {}
    /\ AtMost(2, evidence) \/ {selection.case, selection.run, selection.evidence} = {None}

Bounded == OfEdits \/ OfEvidence
=============================================================================
