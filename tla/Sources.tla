------------------------------- MODULE Sources -------------------------------
(***************************************************************************)
(* One passive check of the intelligence of a scan, whichever it is: the   *)
(* clients, the token and the deadline are the same for all of them.       *)
(***************************************************************************)
EXTENDS NetworkLookups, CertificateLog, RelatedDomains, SuppliedInputs

VARIABLE source

lookupsOnly == <<kind, lookupAt, hosts, entries, asking, waiting, flying, results, before, registered>>
logOnly == <<logAt, issuances, paging, candidates, unasked, asked, answers, logErrors, logComplete>>
relatedOnly == <<relatedAt, nameservers, fetches, related>>
suppliedOnly == <<suppliedAt, supplied, next, gathered>>

sourceVars == <<source, lookupsOnly, logOnly, relatedOnly, suppliedOnly, fetchVars>>

\* The checks that do not run keep one state.
SourceInit ==
    /\ source \in {"lookups", "log", "related", "supplied"}
    /\ LookupInit /\ LogInit /\ RelatedInit /\ SuppliedInit
    /\ source # "lookups" => kind = "bgp" /\ before = "completed" /\ hosts = {}
    /\ source # "log" => logAt = "page"
    /\ source # "related" => nameservers = {}
    /\ source # "supplied" => supplied = [names |-> <<>>, selectors |-> <<>>, bundle |-> <<>>]

Lookups(A) == source = "lookups" /\ A /\ UNCHANGED <<source, logOnly, relatedOnly, suppliedOnly>>
Log(A) == source = "log" /\ A /\ UNCHANGED <<source, lookupsOnly, relatedOnly, suppliedOnly>>
Related(A) == source = "related" /\ A /\ UNCHANGED <<source, lookupsOnly, logOnly, suppliedOnly>>
Supplied(A) == source = "supplied" /\ A /\ UNCHANGED <<source, lookupsOnly, logOnly, relatedOnly>>

SourceNext == Lookups(LookupNext) \/ Log(LogNext) \/ Related(RelatedNext) \/ Supplied(SuppliedNext)

\* Every request and lookup has a timeout, so that each of them ends.
SourceWork == Lookups(LookupStep) \/ Log(LogStep) \/ Related(RelatedStep) \/ Supplied(SuppliedStep)

SourceSpec == SourceInit /\ [][SourceNext]_sourceVars /\ WF_sourceVars(SourceWork)

SourceTypeOK == LookupTypeOK /\ LogTypeOK /\ RelatedTypeOK /\ SuppliedTypeOK

\* No check asks more at once, reads or keeps more than its limits say, and none
\* connects to an address that is not public, whatever a host name resolves to.
SourcesAreBounded == SourceTypeOK /\ PinnedIsPublic

\* Each check decides alone whether it is complete; what any of them calls
\* complete has a full answer for everything it set out to ask.
CompleteIsWhole == SilentIsWhole /\ CompleteLogIsWhole /\ RelatedAtBoth /\ CompleteInputsAnswered

\* What is kept is about the target: an answer is put with the address it was
\* asked for and holds it, the registry asked is the one responsible, and a
\* bundle's network is the closest one.
EvidenceIsItsOwn == EvidenceIsOfAddress /\ AsksResponsible /\ BundleIsWhole

\* A later failure takes nothing back: the pages read before it are kept with
\* what they hold, and the status a report had before the check only worsens.
NothingIsUndone == PagesAreKept /\ StatusOnlyWorsens

\* Whatever a service sends or withholds, the check ends (every wait is bounded
\* by the request timeout and there are finitely many of them).
SourceEnds == <>(lookupAt = "done" \/ logAt \in {"done", "failed"} \/ relatedAt \in {"done", "failed"}
                 \/ suppliedAt \in {"done", "failed"})
=============================================================================
