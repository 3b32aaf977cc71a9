----------------------------- MODULE Assessment -----------------------------
(***************************************************************************)
(* findings.rs and exposure.rs: the findings a set of observations gives   *)
(* rise to, and the score they come to.  The observations arrive one at a  *)
(* time, in the order the probes end.  Names, URLs, addresses and texts    *)
(* are numbers, whose order is the one the code sorts strings by.          *)
(***************************************************************************)
EXTENDS Naturals, Sequences, FiniteSets, FiniteSetsExt, SequencesExt

CONSTANTS
    Observations,     \* what the probes may observe, records with a kind
    Target,           \* the target of the scan
    Now,              \* the time of the scan, in days
    MaxObservations   \* bound of the model: how many arrive

\* What a probe may report, as far as the rules look at it.
CnameHop == [from : Nat, to : Nat]
DnsSeen == [kind : {"dns"}, subject : Nat, chain : Seq(CnameHop), nxdomain : SUBSET CnameHop, wildcard : BOOLEAN,
            allowed : Nat, bogus : BOOLEAN, spf : Nat, dmarc : Seq({"none", "quarantine", "reject"})]
PortSeen == [kind : {"port"}, subject : Nat, address : Nat, tcp : BOOLEAN, open : BOOLEAN, database : BOOLEAN]
ServiceSeen == [kind : {"service"}, subject : Nat, address : Nat, service : {"ssh", "smtp", "https", "other"},
                tlsport : BOOLEAN, banner : Nat, complete : BOOLEAN, legacy : Nat, confident : BOOLEAN, ehlo : BOOLEAN,
                starttls : BOOLEAN]
HttpSeen == [kind : {"http"}, subject : Nat, url : Nat, status : Nat, https : BOOLEAN, endshttps : BOOLEAN,
             redirects : SUBSET {"http", "https"}, hsts : {"present", "missing", "not applicable"}, server : Nat,
             securitytxt : {"present", "absent", "not checked"}]
TlsSeen == [kind : {"tls"}, subject : Nat, address : Nat, handshake : BOOLEAN, error : Nat, from : Nat, until : Nat,
            rsa : Nat, sha1 : BOOLEAN, version : Nat]

ASSUME AssessmentAssumption ==
    /\ {Target, Now, MaxObservations} \subseteq Nat
    /\ Observations \subseteq DnsSeen \cup PortSeen \cup ServiceSeen \cup HttpSeen \cup TlsSeen

\* The rules in the order of their identifiers, and the severity of each.
Rules == <<"DNS-AXFR-ALLOWED", "DNS-CNAME-DANGLING-INDICATOR", "DNS-DNSSEC-BOGUS", "DNS-WILDCARD-DETECTED",
    "HTTP-HSTS-MISSING", "HTTP-HTTPS-DOWNGRADE", "HTTP-NO-HTTPS-REDIRECT", "HTTP-SECURITY-TXT-MISSING",
    "HTTP-VERSION-DISCLOSURE", "MAIL-DMARC-MONITORING", "MAIL-SMTP-STARTTLS-NOT-ADVERTISED", "MAIL-SPF-MULTIPLE",
    "NET-DATABASE-EXPOSED", "NET-SSH-LEGACY-ALGORITHM", "NET-SSH-REACHABLE", "TLS-CERT-EXPIRED", "TLS-CERT-EXPIRING",
    "TLS-CERT-NOT-YET-VALID", "TLS-CERT-SHA1-SIGNATURE", "TLS-CERT-WEAK-RSA-KEY", "TLS-OBSOLETE-PROTOCOL",
    "TLS-VALIDATION-FAILED">>

High == {"DNS-AXFR-ALLOWED", "DNS-DNSSEC-BOGUS", "HTTP-HTTPS-DOWNGRADE", "NET-DATABASE-EXPOSED", "TLS-CERT-EXPIRED",
         "TLS-CERT-NOT-YET-VALID", "TLS-VALIDATION-FAILED"}
Low == {"MAIL-DMARC-MONITORING", "TLS-CERT-EXPIRING"}
Informational == {"DNS-WILDCARD-DETECTED", "HTTP-SECURITY-TXT-MISSING", "HTTP-VERSION-DISCLOSURE", "NET-SSH-REACHABLE"}
Rank(id) == IF id \in High THEN 3 ELSE IF id \in Low THEN 1 ELSE IF id \in Informational THEN 0 ELSE 2
severity_points(rank) == <<0, 2, 7, 20, 35>>[rank + 1]

VARIABLE arrived    \* the observations, in the order they arrived

vars == <<arrived>>

Init == arrived = <<>>

Finding(id, target, location, value) == [id |-> id, target |-> target, evidence |-> <<location, value>>]
When(condition, found) == IF condition THEN <<found>> ELSE <<>>

-----------------------------------------------------------------------------
(* The rules, each over one observation; evidence is where and what.       *)

\* Per destination the first hop of the chain that leads there, at its place in the chain.
dangling_cname_findings(dns) ==
    [i \in {n \in DOMAIN dns.chain : /\ \E x \in dns.nxdomain \cap ToSet(dns.chain) : x.to = dns.chain[n].to
                                     /\ \A j \in 1 .. n - 1 : dns.chain[j].to # dns.chain[n].to} |->
        Finding("DNS-CNAME-DANGLING-INDICATOR", Target, dns.chain[i].from, dns.chain[i].to)]

\* dns_findings after the dangling names, and mail_findings; the first DMARC record is the one looked at.
dns_findings(dns) ==
    When(dns.wildcard, Finding("DNS-WILDCARD-DETECTED", Target, 0, 0))
    \o When(dns.allowed # 0, Finding("DNS-AXFR-ALLOWED", Target, 0, dns.allowed))
    \o When(dns.bogus, Finding("DNS-DNSSEC-BOGUS", Target, 0, 0))
    \o When(dns.spf > 1, Finding("MAIL-SPF-MULTIPLE", Target, 0, dns.spf))
    \o When(dns.dmarc # <<>> /\ Head(dns.dmarc) = "none", Finding("MAIL-DMARC-MONITORING", Target, 0, 0))

database_findings(port) ==
    When(port.tcp /\ port.open /\ port.database, Finding("NET-DATABASE-EXPOSED", port.address, 0, 0))

\* A banner is 0 when none came; a posture lists the legacy selections of a complete exchange.
ssh_findings(service) ==
    IF service.service # "ssh" THEN <<>>
    ELSE <<Finding("NET-SSH-REACHABLE", service.address, 0, service.banner)>>
         \o When(service.complete /\ service.legacy # 0, Finding("NET-SSH-LEGACY-ALGORITHM", service.address, 1, service.legacy))

smtp_findings(service) ==
    When(service.service = "smtp" /\ service.confident /\ service.ehlo /\ ~service.starttls,
         Finding("MAIL-SMTP-STARTTLS-NOT-ADVERTISED", service.address, 0, service.banner))

\* Only an observation with a status; redirects and the final URL by their scheme.
http_findings(o) ==
    IF o.status = 0 THEN <<>>
    ELSE When(~o.https /\ ~o.endshttps /\ "https" \notin o.redirects,
              Finding("HTTP-NO-HTTPS-REDIRECT", Target, o.url, o.status))
         \o When(o.hsts = "missing", Finding("HTTP-HSTS-MISSING", Target, o.url, o.status))
         \o When(o.https /\ "http" \in o.redirects, Finding("HTTP-HTTPS-DOWNGRADE", Target, o.url, 0))
         \o When(o.server # 0, Finding("HTTP-VERSION-DISCLOSURE", Target, o.url, o.server))
         \o When(o.securitytxt = "absent", Finding("HTTP-SECURITY-TXT-MISSING", Target, 0, 0))

\* A failed handshake counts where TLS was to be expected.
expected_tls(o, observed) ==
    \E i \in DOMAIN observed : /\ observed[i].kind = "service" /\ observed[i].address = o.address
                               /\ observed[i].service = "https" \/ observed[i].tlsport

\* valid_from and valid_until are 0 when the certificate was not read.
validity_findings(o) ==
    IF o.from > Now THEN <<Finding("TLS-CERT-NOT-YET-VALID", Target, o.address, o.from)>>
    ELSE IF o.until = 0 THEN <<>>
    ELSE IF o.until < Now THEN <<Finding("TLS-CERT-EXPIRED", Target, o.address, o.until)>>
    ELSE When(o.handshake /\ o.until - Now < 30, Finding("TLS-CERT-EXPIRING", Target, o.address, o.until - Now))

tls_weakness_findings(o) ==
    When(o.rsa # 0 /\ o.rsa < 2048, Finding("TLS-CERT-WEAK-RSA-KEY", Target, o.address, o.rsa))
    \o When(o.sha1, Finding("TLS-CERT-SHA1-SIGNATURE", Target, o.address, 0))
    \o When(o.version \in {10, 11}, Finding("TLS-OBSOLETE-PROTOCOL", Target, o.address, o.version))

expected_tls_findings_Bug(o, observed) ==   \* a service found to be something else excuses the handshake
    When(~o.handshake /\ \A i \in DOMAIN observed :
             observed[i].kind = "service" /\ observed[i].address = o.address => observed[i].service = "https" \/ observed[i].tlsport,
         Finding("TLS-VALIDATION-FAILED", Target, o.address, o.error))

expected_tls_findings(o, observed) ==
    When(expected_tls(o, observed) /\ ~o.handshake, Finding("TLS-VALIDATION-FAILED", Target, o.address, o.error))

-----------------------------------------------------------------------------
(* generate_findings                                                       *)

\* The loops over observations in the order they run, with the kind each goes
\* through, and what a loop pushes for an observation.
Loops == <<"dns", "dns", "port", "service", "service", "http", "tls">>
Pushed(loop, o, observed) ==
    CASE loop = 1 -> dangling_cname_findings(o)
      [] loop = 2 -> dns_findings(o)
      [] loop = 3 -> database_findings(o)
      [] loop = 4 -> ssh_findings(o)
      [] loop = 5 -> smtp_findings(o)
      [] loop = 6 -> http_findings(o)
      [] loop = 7 -> expected_tls_findings(o, observed) \o tls_weakness_findings(o) \o validity_findings(o)

\* A finding is known by where it is pushed: the loop, the observation, and its
\* place in what the loop pushes for it.  Places are in the order of the pushes.
Smaller(k, l) == \E i \in DOMAIN k : k[i] < l[i] /\ \A j \in 1 .. i - 1 : k[j] = l[j]
Visits(observed) == {x \in (DOMAIN Loops) \X (DOMAIN observed) : observed[x[2]].kind = Loops[x[1]]}
Places(observed) ==
    UNION {{x[1]} \X {x[2]} \X (DOMAIN Pushed(x[1], observed[x[2]], observed)) : x \in Visits(observed)}
PushedAt(observed) == [p \in Places(observed) |-> Pushed(p[1], observed[p[2]], observed)[p[3]]]

\* The first of the findings with the same rule, target and evidence stays.
Retained_Bug(found) ==   \* the first of a rule and target stays
    {p \in DOMAIN found : \A q \in DOMAIN found :
        Smaller(q, p) => found[q].id # found[p].id \/ found[q].target # found[p].target}

Retained(found) == {p \in DOMAIN found : \A q \in DOMAIN found : Smaller(q, p) => found[q] # found[p]}

\* The key of the sort: severity, rule, target and evidence.
Index == [id \in ToSet(Rules) |-> CHOOSE i \in DOMAIN Rules : Rules[i] = id]
SortKey(f) == <<4 - Rank(f.id), Index[f.id], f.target, f.evidence[1], f.evidence[2]>>

\* sort_by, which is stable: of two with the same key the one pushed first stays first.
Sorted(found, kept) ==
    LET key == [p \in kept |-> SortKey(found[p])]
        Sooner(p, q) == Smaller(key[p], key[q]) \/ (key[p] = key[q] /\ Smaller(p, q))
        ahead == [p \in kept |-> Cardinality({q \in kept : Sooner(q, p)})]
    IN  [n \in 1 .. Cardinality(kept) |-> found[CHOOSE p \in kept : ahead[p] = n - 1]]

generate_findings(observed) ==
    LET found == PushedAt(observed)
    IN  Sorted(found, Retained(found))

\* calculate_exposure: a rule is deducted once for a target, and information never.
deductions(found) ==
    {[id |-> f.id, target |-> f.target, points |-> severity_points(Rank(f.id))] :
        f \in {g \in ToSet(found) : severity_points(Rank(g.id)) > 0}}
\* The points of the deductions, one by one, are counted, to 100 at most.
Points(ds) == UNION {{d} \X (1 .. d.points) : d \in ds}
value(found) == 100 - Min({100, Cardinality(Points(deductions(found)))})
classification(score) ==
    IF score >= 85 THEN "favorable" ELSE IF score >= 65 THEN "review" ELSE IF score >= 35 THEN "elevated" ELSE "critical"

\* A host is scanned, a service, a page or a certificate probed once; DNS is analyzed once.
Arrive(o) == /\ Len(arrived) < MaxObservations /\ o \notin ToSet(arrived)
             /\ \A i \in DOMAIN arrived : arrived[i].kind # o.kind \/ arrived[i].subject # o.subject
             /\ arrived' = Append(arrived, o)

Next == \E o \in Observations : Arrive(o)
Spec == Init /\ [][Next]_vars

-----------------------------------------------------------------------------

\* Two scans that saw the same things report the same findings in the same
\* order, and so come to the same score, whichever probe ended first (the
\* module is the "deterministic interpretation of observations").
SameInAnyOrder ==
    LET findings == generate_findings(arrived)
    IN  \A other \in [DOMAIN arrived -> ToSet(arrived)] :
            ToSet(other) = ToSet(arrived) => generate_findings(other) = findings

\* Seeing more never makes the target look better: no observation takes away a
\* finding that others gave rise to, and none raises the score or its class.
SeeingMoreNeverHelps ==
    [][LET found == generate_findings(arrived)
           more  == generate_findings(arrived')
       IN  /\ ToSet(found) \subseteq ToSet(more)
           /\ value(more) <= value(found)
           /\ classification(value(found)) = "critical" => classification(value(more)) = "critical"]_vars
=============================================================================
