--------------------------- MODULE RelatedDomains ---------------------------
(***************************************************************************)
(* intelligence.rs, related domains: which names use the target's own two  *)
(* nameservers, asked of a reverse-NS service for each of the two at once. *)
(***************************************************************************)
EXTENDS SourceFetch

CONSTANTS
    NameserverSets,        \* the nameservers DNS may have returned
    ReverseResponses,      \* what the service may answer
    TargetName,            \* the target among the names, all numbers, 0 none that parses
    MaxRelatedDomains, MaxReverseNsBytes

ASSUME RelatedAssumption ==
    /\ {MaxRelatedDomains, MaxReverseNsBytes} \subseteq Nat /\ TargetName \in Nat \ {0}
    /\ \A response \in ReverseResponses : response.names \in Seq(Nat)

VARIABLES
    relatedAt,     \* "begin", "client", "join", "done", or "failed": an Err
    nameservers,
    fetches,       \* per nameserver: "none", "failed" or what came back
    related        \* [candidates, complete, errors]

relatedVars == <<relatedAt, nameservers, fetches, related, fetchVars>>

RelatedTypeOK ==
    /\ FetchTypeOK /\ relatedAt \in {"begin", "client", "join", "done", "failed"}
    /\ Cardinality(DOMAIN fetches) \in {0, 2} /\ related.candidates \subseteq Nat \ {0, TargetName}

RelatedInit ==
    /\ FetchInit /\ relatedAt = "begin" /\ nameservers \in NameserverSets /\ fetches = <<>>
    /\ related = [candidates |-> {}, complete |-> TRUE, errors |-> {}]

\* Without a key, a hostname or exactly two nameservers nothing is asked.
BeginRelated ==
    /\ relatedAt = "begin" /\ UNCHANGED <<nameservers, related, fetchVars>>
    /\ \E inputs \in BOOLEAN :   \* the key and the hostname are there
          IF inputs /\ Cardinality(nameservers) = 2
          THEN relatedAt' = "client" /\ fetches' = [ns \in nameservers |-> [state |-> "none"]]
          ELSE relatedAt' = "failed" /\ UNCHANGED fetches

RelatedClient ==
    /\ relatedAt = "client" /\ UNCHANGED <<nameservers, fetches, related, ending>>
    /\ \E outcome \in ClientOutcomes : /\ ClientFor("reverse-ns", outcome)
          /\ relatedAt' = IF outcome = "client" THEN "join" ELSE "failed"

\* fetch_reverse_ns: the names that parse among those the limit admits; a full answer
\* may have been cut by the service.
fetch_reverse_ns(response) ==
    IF get_bounded(response, MaxReverseNsBytes) # "body" \/ ~response.valid THEN [state |-> "failed"]
    ELSE [state |-> "ok", cut |-> Len(response.names) >= MaxRelatedDomains,
          names |-> ToSet(SubSeq(response.names, 1, Min({Len(response.names), MaxRelatedDomains}))) \ {0}]

\* The two requests end in either order; a stop ends each of them.
ReverseAnswer ==
    /\ relatedAt = "join" /\ UNCHANGED <<relatedAt, nameservers, related, fetchVars>>
    /\ \E ns \in nameservers :
          /\ fetches[ns].state = "none"
          /\ \/ Failures # {} /\ fetches' = [fetches EXCEPT ![ns] = [state |-> "failed"]]
             \/ ~ending.token /\ \E response \in ReverseResponses :
                    fetches' = [fetches EXCEPT ![ns] = fetch_reverse_ns(response)]

\* related_candidates: the names both answers hold, the target's own left out.
Joined ==
    /\ relatedAt = "join" /\ \A ns \in nameservers : fetches[ns].state # "none"
    /\ relatedAt' = "done" /\ UNCHANGED <<nameservers, fetches, fetchVars>>
    /\ IF \E ns \in nameservers : fetches[ns].state = "failed"
       THEN related' = [candidates |-> {}, complete |-> FALSE,
                        errors |-> {ns \in nameservers : fetches[ns].state = "failed"}]
       ELSE LET shared == {n \in UNION {fetches[ns].names : ns \in nameservers} :
                              \A ns \in nameservers : n \in fetches[ns].names} \ {TargetName}
                cut == \E ns \in nameservers : fetches[ns].cut
            IN  related' = [candidates |-> {n \in shared : Cardinality({m \in shared : m < n}) < MaxRelatedDomains},
                            complete |-> ~cut, errors |-> IF cut THEN nameservers ELSE {}]

EndRelated == relatedAt \notin {"done", "failed"} /\ EndSource /\ UNCHANGED <<relatedAt, nameservers, fetches, related>>
RelatedStep == BeginRelated \/ RelatedClient \/ ReverseAnswer \/ Joined
RelatedNext == RelatedStep \/ EndRelated

-----------------------------------------------------------------------------

\* A related domain was seen at both of the target's nameservers, never at one
\* only; the list is complete only when neither answer was full or missing, and
\* an observation that is not complete says why (analyze_related_domains).
RelatedAtBoth ==
    relatedAt = "done" =>
        /\ \A n \in related.candidates : \A ns \in nameservers : fetches[ns].state = "ok" /\ n \in fetches[ns].names
        /\ related.complete =>
              \A ns \in nameservers : fetches[ns].state = "ok" /\ Cardinality(fetches[ns].names) < MaxRelatedDomains
        /\ related.complete <=> related.errors = {}
=============================================================================
