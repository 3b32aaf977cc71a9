--------------------------- MODULE NetworkLookups ---------------------------
(***************************************************************************)
(* intelligence.rs: what registries (RDAP) and route collectors (BGP) say  *)
(* of the target's own public addresses.  RDAP first asks which registry   *)
(* is responsible.  An address is [v6, n]; what comes back is what the     *)
(* parsers tell apart.                                                     *)
(***************************************************************************)
EXTENDS SourceFetch

CONSTANTS
    HostSets,              \* the addresses DNS may have returned
    Bootstraps,            \* what the bootstrap of a family may hold
    RdapResponses, BgpResponses,
    MaxLookupAddresses, MaxLookupConcurrency, MaxBgpOriginAsns,
    MaxLookupBytes         \* of one response

ASSUME LookupAssumption ==
    /\ {MaxLookupAddresses, MaxLookupConcurrency} \subseteq Nat \ {0} /\ {MaxBgpOriginAsns, MaxLookupBytes} \subseteq Nat
    /\ \A addresses \in HostSets : /\ addresses \subseteq [v6 : BOOLEAN, n : 0 .. 2 ^ Width - 1]
                                   /\ IsFiniteSet(addresses)
    /\ \A bootstrap \in Bootstraps :
          bootstrap.entries \in Seq([prefix : [network : Nat, length : 0 .. Width], endpoint : STRING])
    /\ \A response \in RdapResponses : response.start \in Nat /\ response.end \in Nat
    /\ \A response \in BgpResponses : response.asns \subseteq Nat /\ IsFiniteSet(response.asns)

Statuses == {"completed", "partial", "interrupted", "failed"}

VARIABLES
    kind,        \* the check: "rdap" or "bgp"
    lookupAt,    \* where it is
    hosts,       \* what DNS returned
    entries,     \* the bootstrap entries of each family, none before they are read
    asking,      \* the addresses whose client is still to be had
    waiting,     \* the requests still to start
    flying,      \* the requests awaited
    results,     \* the observations, and the failures, a set of reasons
    before,      \* the status of the report when the check began
    registered   \* what the check adds to the report

lookupVars == <<kind, lookupAt, hosts, entries, asking, waiting, flying, results, before, registered, fetchVars>>

Earlier(a, b) == (~a.v6 /\ b.v6) \/ (a.v6 = b.v6 /\ a.n < b.n)   \* IPv4 before IPv6, each by number
Eligible == {a \in hosts : is_public_destination(a.n)}
eligible_primary_addresses ==
    {a \in Eligible : Cardinality({b \in Eligible : Earlier(b, a)}) < MaxLookupAddresses}
Truncated == Cardinality(Eligible) > MaxLookupAddresses

LookupTypeOK ==
    /\ FetchTypeOK /\ kind \in {"rdap", "bgp"}
    /\ lookupAt \in {"begin", "bootstrap 4", "bootstrap 6", "clients", "lookups", "done"}
    /\ asking \subseteq hosts
    /\ waiting \cup flying \subseteq [address : hosts, host : IF kind = "bgp" THEN {"collector"} ELSE STRING]
    /\ Cardinality(flying) <= MaxLookupConcurrency
    /\ registered.status \in Statuses \cup {"none"} /\ registered.skip \in {"none", "no address", "stopped", "incomplete"}

Cannot(reason) == results' = [results EXCEPT !.failures = @ \cup {reason}]

\* finish_network_registrations and finish_bgp_routes: a check that came through
\* leaves the status alone; one that was stopped, or failed in part, does not.
Finish(found, failures, stop) ==
    /\ lookupAt' = "done" /\ asking' = {} /\ waiting' = {} /\ flying' = {}
    /\ registered' = [observations |-> DOMAIN found, complete |-> failures = {} /\ stop = "none",
          status |-> IF stop = "Cancelled" /\ before # "failed" THEN "interrupted"
                     ELSE IF (stop = "Deadline" \/ (stop = "none" /\ failures # {})) /\ before = "completed"
                     THEN "partial" ELSE before,
          skip |-> IF stop # "none" THEN "stopped" ELSE IF failures # {} THEN "incomplete" ELSE "none"]

Begin ==
    /\ lookupAt = "begin" /\ UNCHANGED <<kind, hosts, entries, waiting, flying, before, fetchVars>>
    /\ IF Eligible = {}
       THEN /\ lookupAt' = "done" /\ UNCHANGED <<asking, results>>
            /\ registered' = [registered EXCEPT !.status = before, !.skip = "no address"]
       ELSE /\ lookupAt' = IF kind = "rdap" THEN "bootstrap 4" ELSE "clients"
            /\ results' = IF Truncated THEN [results EXCEPT !.failures = {"address limit"}] ELSE results
            /\ asking' = eligible_primary_addresses /\ UNCHANGED registered

-----------------------------------------------------------------------------
(* RDAP: the bootstrap of each family in use, then an endpoint and a       *)
(* client for every address.                                               *)

\* parse_bootstrap: limits passed, prefixes of its family; endpoint: the first approved
\* alternate, "none" without one.
ParsesBootstrap(bootstrap) == bootstrap.bounded /\ bootstrap.onefamily

Next4 == IF lookupAt = "bootstrap 4" THEN "bootstrap 6" ELSE "clients"
Family == lookupAt = "bootstrap 6"

Bootstrap ==
    /\ lookupAt \in {"bootstrap 4", "bootstrap 6"} /\ UNCHANGED <<kind, hosts, before, ending>>
    /\ IF \A a \in asking : a.v6 # Family
       THEN lookupAt' = Next4 /\ UNCHANGED <<entries, asking, waiting, flying, results, registered, pinned>>
       ELSE \E outcome \in ClientOutcomes : /\ ClientFor("bootstrap", outcome)
              /\ IF outcome \in Stops THEN Finish(<<>>, results.failures, outcome) /\ UNCHANGED <<entries, results>>
                 ELSE IF outcome # "client"
                 THEN /\ lookupAt' = Next4 /\ Cannot("bootstrap " \o outcome) /\ UNCHANGED <<entries, asking, waiting, flying, registered>>
                 ELSE \/ \E failure \in Failures :
                            IF failure \in Stops THEN Finish(<<>>, results.failures, failure) /\ UNCHANGED <<entries, results>>
                            ELSE /\ lookupAt' = Next4 /\ Cannot("bootstrap " \o failure)
                                 /\ UNCHANGED <<entries, asking, waiting, flying, registered>>
                      \/ \E bootstrap \in Bootstraps :
                            /\ ~ending.token /\ lookupAt' = Next4 /\ UNCHANGED <<asking, waiting, flying, registered>>
                            /\ IF get_bounded(bootstrap, MaxLookupBytes) = "body" /\ ParsesBootstrap(bootstrap)
                               THEN entries' = [entries EXCEPT ![Family] = bootstrap.entries] /\ UNCHANGED results
                               ELSE Cannot("bootstrap invalid") /\ UNCHANGED entries

longest_bootstrap_endpoint_Bug(address, found) ==   \* whichever prefix comes first
    LET matching == {i \in DOMAIN found : contains(found[i].prefix, address.n)}
    IN  IF matching = {} THEN "none" ELSE found[Min(matching)].endpoint

\* The endpoint of the longest prefix that contains the address, the last of equal ones.
longest_bootstrap_endpoint(address, found) ==
    LET matching == {i \in DOMAIN found : contains(found[i].prefix, address.n)}
        longest == {i \in matching : \A j \in matching : found[j].prefix.length <= found[i].prefix.length}
    IN  IF matching = {} THEN "none" ELSE found[Max(longest)].endpoint

First == CHOOSE a \in asking : \A b \in asking : a = b \/ Earlier(a, b)

RdapClient ==
    /\ lookupAt = "clients" /\ kind = "rdap" /\ UNCHANGED <<kind, hosts, entries, before, ending>>
    /\ IF asking = {}
       THEN lookupAt' = "lookups" /\ UNCHANGED <<asking, waiting, flying, results, registered, pinned>>
       ELSE LET endpoint == longest_bootstrap_endpoint(First, entries[First.v6])
            IN  IF endpoint = "none"   \* no bootstrap of the family, no prefix or no approved endpoint
                THEN /\ asking' = asking \ {First} /\ Cannot("no endpoint")
                     /\ UNCHANGED <<lookupAt, waiting, flying, registered, pinned>>
                ELSE \E outcome \in ClientOutcomes : /\ ClientFor(endpoint, outcome)
                       /\ IF outcome \in Stops THEN Finish(<<>>, results.failures, outcome) /\ UNCHANGED results
                          ELSE /\ asking' = asking \ {First} /\ UNCHANGED <<lookupAt, flying, registered>>
                               /\ IF outcome # "client" THEN Cannot(outcome) /\ UNCHANGED waiting
                                  ELSE /\ waiting' = waiting \cup {[address |-> First, host |-> endpoint]}
                                       /\ UNCHANGED results

\* BGP has one client for all (construct_bgp_url: the configured endpoint passed its policy).
BgpClient ==
    /\ lookupAt = "clients" /\ kind = "bgp" /\ UNCHANGED <<kind, hosts, entries, before, ending, results>>
    /\ \E outcome \in ClientOutcomes : /\ ClientFor("collector", outcome)
          /\ IF outcome = "client"
             THEN /\ lookupAt' = "lookups" /\ asking' = {} /\ UNCHANGED <<flying, registered>>
                  /\ waiting' = {[address |-> a, host |-> "collector"] : a \in asking}
             ELSE IF outcome \in Stops THEN Finish(<<>>, results.failures, outcome)
             ELSE Finish(<<>>, results.failures \cup {outcome}, "none")

-----------------------------------------------------------------------------
(* The requests, some at a time; they end in any order.                    *)

\* parse_rdap_response: coherent_range when there is a range, and both ends of it.
Registration(response, address) ==
    IF ~response.bounded \/ ~response.network \/ response.range = "half" THEN "invalid"
    ELSE IF response.range # "none" /\ ~(response.start <= address.n /\ address.n <= response.end) THEN "invalid"
    ELSE "complete"

\* parse_bgp_response: origins without a prefix are discarded, a prefix must contain the address.
Route(response, address) ==
    IF ~response.successful THEN "invalid"
    ELSE IF response.prefix = "none" THEN IF response.asns = {} THEN "complete" ELSE "discarded"
    ELSE IF ~contains(response.routed, address.n) THEN "invalid"
    ELSE IF response.asns = {} THEN "partial"
    ELSE IF Cardinality(response.asns) > MaxBgpOriginAsns THEN "partial" ELSE "complete"

\* What is kept of an answer.
Evidence(response, parsed) ==
    IF kind = "rdap" THEN [parsed |-> parsed, response |-> response, asns |-> {}]
    ELSE [parsed |-> parsed, response |-> response,
          asns |-> IF parsed = "discarded" THEN {}
                   ELSE {n \in response.asns : Cardinality({m \in response.asns : m < n}) < MaxBgpOriginAsns}]

StartRequest ==
    /\ lookupAt = "lookups" /\ Cardinality(flying) < MaxLookupConcurrency
    /\ \E request \in waiting : /\ \A other \in waiting : ~Earlier(other.address, request.address)
                                /\ flying' = flying \cup {request} /\ waiting' = waiting \ {request}
    /\ UNCHANGED <<kind, lookupAt, hosts, entries, asking, results, before, registered, fetchVars>>

\* A stop that one request sees ends the wait for all of them.
Respond(request) ==
    \/ \E failure \in Failures :
          IF failure \in Stops THEN Finish(results.found, results.failures, failure) /\ UNCHANGED results
          ELSE flying' = flying \ {request} /\ Cannot(failure) /\ UNCHANGED <<lookupAt, asking, waiting, registered>>
    \/ /\ ~ending.token /\ flying' = flying \ {request} /\ UNCHANGED <<lookupAt, asking, waiting, registered>>
       /\ \E response \in IF kind = "rdap" THEN RdapResponses ELSE BgpResponses :
             LET fetched == get_bounded(response, MaxLookupBytes)
                 parsed == IF kind = "rdap" THEN Registration(response, request.address) ELSE Route(response, request.address)
                 kept == [a \in DOMAIN results.found \cup {request.address} |->
                             IF a = request.address THEN Evidence(response, parsed) ELSE results.found[a]]
             IN  IF fetched # "body" THEN Cannot(fetched)
                 ELSE IF parsed = "invalid" THEN Cannot("invalid")
                 ELSE results' = [results EXCEPT !.found = kept,
                                                 !.failures = IF parsed = "complete" THEN @ ELSE @ \cup {"incomplete"}]

ReceiveResponse == /\ lookupAt = "lookups" /\ UNCHANGED <<kind, hosts, entries, before, fetchVars>>
                   /\ waiting = {} \/ Cardinality(flying) = MaxLookupConcurrency
                   /\ \E request \in flying : Respond(request)

AllAnswered == /\ lookupAt = "lookups" /\ waiting = {} /\ flying = {}
               /\ Finish(results.found, results.failures, "none")
               /\ UNCHANGED <<kind, hosts, entries, results, before, fetchVars>>

LookupInit ==
    /\ FetchInit /\ kind \in {"rdap", "bgp"} /\ hosts \in HostSets /\ before \in Statuses /\ lookupAt = "begin"
    /\ entries = [v6 \in BOOLEAN |-> <<>>] /\ asking = {} /\ waiting = {} /\ flying = {}
    /\ results = [found |-> <<>>, failures |-> {}]
    /\ registered = [observations |-> {}, complete |-> TRUE, status |-> "none", skip |-> "none"]

EndLookups == lookupAt # "done" /\ EndSource
              /\ UNCHANGED <<kind, lookupAt, hosts, entries, asking, waiting, flying, results, before, registered>>
LookupStep == Begin \/ Bootstrap \/ RdapClient \/ BgpClient \/ StartRequest \/ ReceiveResponse \/ AllAnswered
LookupNext == LookupStep \/ EndLookups

-----------------------------------------------------------------------------

\* A check that says nothing of itself has asked about every public address of
\* the target and has an answer for each; a report whose status it leaves
\* completed got all the check promised (finish_network_registrations).
SilentIsWhole ==
    lookupAt = "done" =>
        /\ registered.skip = "none" => registered.observations = Eligible /\ registered.complete
        /\ before = "completed" /\ registered.status = "completed" /\ registered.skip # "no address"
              => registered.observations = Eligible
        /\ registered.complete <=> registered.skip \in {"none", "no address"}

\* An observation is of an address DNS returned and stands on an answer that is
\* about that address: a registered range, or a routed prefix, contains it, and
\* no origin is told without a prefix; RDAP asked the registry of the longest
\* bootstrap prefix.
EvidenceIsOfAddress ==
    \A a \in DOMAIN results.found :
        LET e == results.found[a]
        IN  /\ a \in Eligible
            /\ kind = "rdap" /\ e.response.range = "whole" => a.n \in e.response.start .. e.response.end
            /\ kind = "bgp" /\ e.response.prefix # "none" => contains(e.response.routed, a.n)
            /\ e.asns # {} => e.response.prefix # "none" /\ Cardinality(e.asns) <= MaxBgpOriginAsns

\* A request goes to the registry responsible for its address and to no other.
AsksResponsible ==
    kind = "rdap" =>
        \A request \in flying :
            \E i \in DOMAIN entries[request.address.v6] :
                LET entry == entries[request.address.v6][i]
                IN  /\ entry.endpoint = request.host /\ contains(entry.prefix, request.address.n)
                    /\ \A j \in DOMAIN entries[request.address.v6] :
                          LET other == entries[request.address.v6][j].prefix
                          IN  contains(other, request.address.n) => other.length <= entry.prefix.length

\* A scan that failed stays failed, one that the token stopped is interrupted
\* and not merely partial, and no check makes a report look more complete.
StatusOnlyWorsens ==
    lookupAt = "done" =>
        /\ before = "failed" => registered.status = "failed"
        /\ before = "partial" => registered.status \in {"partial", "interrupted"}
        /\ before = "interrupted" => registered.status = "interrupted"
        /\ registered.status = "interrupted" /\ before # "interrupted" => ending.token
=============================================================================
