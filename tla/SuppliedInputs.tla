--------------------------- MODULE SuppliedInputs ---------------------------
(***************************************************************************)
(* intelligence.rs, analyze_intelligence: the subdomains and the DKIM      *)
(* selectors a user supplied are looked up one by one, and an offline      *)
(* bundle is correlated with what the scan saw.                            *)
(***************************************************************************)
EXTENDS SourceFetch

CONSTANTS
    SubdomainLists, SelectorLists,   \* what may be supplied, sequences
    Bundles,                         \* bundle files, as far as they parse
    SeenHosts, SeenProducts,         \* the addresses and the versioned products of the scan
    MaxSubdomains, MaxSelectors, MaxBundleEntries

ASSUME SuppliedAssumption ==
    /\ {MaxSubdomains, MaxSelectors, MaxBundleEntries} \subseteq Nat
    /\ SubdomainLists \subseteq Seq([name : Nat, under : BOOLEAN]) /\ SelectorLists \subseteq Seq([valid : BOOLEAN])
    /\ \A b \in Bundles :
          /\ b.networks \in Seq([v6 : BOOLEAN, network : Nat, length : Nat, bounded : BOOLEAN])
          /\ b.vulnerabilities \in Seq([valid : BOOLEAN, product : STRING])
    /\ SeenHosts \subseteq [v6 : BOOLEAN, n : 0 .. 2 ^ Width - 1]

VARIABLES
    suppliedAt,    \* "begin", "names", "selectors", "done", or "failed": an Err
    supplied,      \* [names, selectors, bundle]: the inputs
    next,          \* the index of the next one
    gathered       \* the observation

suppliedVars == <<suppliedAt, supplied, next, gathered, fetchVars>>

\* parse_bundle: what the command line refuses before it scans.
parse_bundle(b) ==
    /\ b.small /\ b.schema = "1.0" /\ Len(b.networks) + Len(b.vulnerabilities) <= MaxBundleEntries
    /\ \A i \in DOMAIN b.networks : b.networks[i].length <= Width /\ b.networks[i].bounded
    /\ \A i \in DOMAIN b.vulnerabilities : b.vulnerabilities[i].valid

SuppliedTypeOK ==
    /\ FetchTypeOK /\ suppliedAt \in {"begin", "names", "selectors", "done", "failed"}
    /\ next \in 1 .. 1 + Max({Len(supplied.names), Len(supplied.selectors)})

SuppliedInit ==
    /\ FetchInit /\ suppliedAt = "begin" /\ next = 1
    /\ supplied \in [names : SubdomainLists, selectors : SelectorLists, bundle : {<<>>} \cup {<<b>> : b \in Bundles}]
    /\ supplied.bundle # <<>> => parse_bundle(supplied.bundle[1])
    /\ gathered = [subdomains |-> <<>>, dkim |-> <<>>, networks |-> {}, candidates |-> {}, complete |-> TRUE, errors |-> {}]

Fail == suppliedAt' = "failed" /\ UNCHANGED <<supplied, next, gathered, fetchVars>>

\* The target is no hostname, or too much was supplied.
BeginSupplied ==
    /\ suppliedAt = "begin"
    /\ \E hostname \in BOOLEAN :
          IF hostname /\ Len(supplied.names) <= MaxSubdomains /\ Len(supplied.selectors) <= MaxSelectors
          THEN suppliedAt' = "names" /\ UNCHANGED <<supplied, next, gathered, fetchVars>> ELSE Fail

-----------------------------------------------------------------------------
(* correlate_networks, correlate_cves                                      *)

Holds(entry, host) == entry.v6 = host.v6 /\ contains([network |-> entry.network, length |-> entry.length], host.n)

\* The longest prefix that holds the host, the last of equal ones.
correlate_networks(b) ==
    {[host |-> h, entry |-> b.networks[Max({i \in DOMAIN b.networks :
          Holds(b.networks[i], h) /\ \A j \in DOMAIN b.networks :
              Holds(b.networks[j], h) => b.networks[j].length <= b.networks[i].length})]] :
        h \in {h \in SeenHosts : \E i \in DOMAIN b.networks : Holds(b.networks[i], h)}}

correlate_cves(b) == {b.vulnerabilities[i] : i \in {i \in DOMAIN b.vulnerabilities : b.vulnerabilities[i].product \in SeenProducts}}

\* The end of the loops: a bundle is used only when nothing is missing.
Correlated(found) ==
    IF ~found.complete \/ supplied.bundle = <<>> THEN found
    ELSE [found EXCEPT !.networks = correlate_networks(supplied.bundle[1]),
                       !.candidates = correlate_cves(supplied.bundle[1])]

\* record_intelligence_stop: the reason is told once.
Stopped(found, stop) == [found EXCEPT !.complete = FALSE, !.errors = @ \cup {stop}]

\* stop_supplied_intelligence before an input, await_supplied around its lookup.
Leave(found) ==
    IF suppliedAt = "names" THEN suppliedAt' = "selectors" /\ next' = 1 /\ gathered' = found
    ELSE suppliedAt' = "done" /\ next' = next /\ gathered' = Correlated(found)

Inputs == IF suppliedAt = "names" THEN supplied.names ELSE supplied.selectors

StopOrEnd ==
    /\ suppliedAt \in {"names", "selectors"} /\ UNCHANGED <<supplied, fetchVars>>
    /\ IF next > Len(Inputs) THEN Leave(gathered) ELSE \E stop \in StopOf : Leave(Stopped(gathered, stop))

Reached == next <= Len(Inputs) /\ StopOf = {}

\* A subdomain must be a hostname below the target's, and a new one.
Accepted(i) == supplied.names[i].under /\ \A j \in 1 .. i - 1 : supplied.names[j].name # supplied.names[i].name

Kept == /\ next' = next + 1 /\ UNCHANGED <<suppliedAt, supplied, fetchVars>>

Subdomain ==
    /\ suppliedAt = "names" /\ Reached
    /\ IF ~Accepted(next) THEN Fail
       ELSE \E dns \in BOOLEAN : /\ Kept   \* analyze_dns: an observation or an error
               /\ gathered' = [gathered EXCEPT !.subdomains = Append(@, [name |-> supplied.names[next].name, dns |-> dns]),
                                               !.complete = @ /\ dns]

\* parse_dkim over the first of the records: [tagged, key]; without records nothing is malformed.
parse_dkim(records) ==
    [records |-> Len(records), revoked |-> records # <<>> /\ records[1].key = "empty",
     fingerprint |-> records # <<>> /\ records[1].key = "present",
     malformed |-> Len(records) > 1 \/ (records # <<>> /\ (~records[1].tagged \/ records[1].key = "none"))]

DkimAnswers == BoundedSeq([tagged : BOOLEAN, key : {"none", "empty", "present"}], 2)

\* validate_selector, lookup_txt and record_dkim_result.
Selector ==
    /\ suppliedAt = "selectors" /\ Reached
    /\ IF ~supplied.selectors[next].valid THEN Fail
       ELSE /\ Kept
            /\ \/ \E records \in DkimAnswers :
                     gathered' = [gathered EXCEPT !.dkim = Append(@, parse_dkim(records))]
               \/ gathered' = [gathered EXCEPT !.dkim = Append(@, parse_dkim(<<>>)),
                                               !.complete = FALSE, !.errors = @ \cup {"DKIM"}]

EndSupplied == suppliedAt \notin {"done", "failed"} /\ EndSource /\ UNCHANGED <<suppliedAt, supplied, next, gathered>>
SuppliedStep == BeginSupplied \/ StopOrEnd \/ Subdomain \/ Selector
SuppliedNext == SuppliedStep \/ EndSupplied

-----------------------------------------------------------------------------

\* What is called complete looked up every input that was supplied, each of them
\* with an answer; an observation that stopped never shows an input beyond the
\* stop, and no input outside the target's domain is ever looked up.
CompleteInputsAnswered ==
    /\ suppliedAt = "done" /\ gathered.complete =>
          /\ Len(gathered.subdomains) = Len(supplied.names) /\ Len(gathered.dkim) = Len(supplied.selectors)
          /\ \A i \in DOMAIN gathered.subdomains : gathered.subdomains[i].dns
    /\ \A i \in DOMAIN gathered.subdomains :
          supplied.names[i].under /\ supplied.names[i].name = gathered.subdomains[i].name

\* A bundle is used whole or not at all: never beside an observation with a gap,
\* and a host's network is the most specific prefix of the bundle that holds it.
BundleIsWhole ==
    /\ gathered.networks # {} \/ gathered.candidates # {} => suppliedAt = "done" /\ gathered.complete
    /\ \A m \in gathered.networks : \A i \in DOMAIN supplied.bundle[1].networks :
          Holds(supplied.bundle[1].networks[i], m.host) => supplied.bundle[1].networks[i].length <= m.entry.length
=============================================================================
