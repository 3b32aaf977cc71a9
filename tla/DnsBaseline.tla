---------------------------- MODULE DnsBaseline ----------------------------
(***************************************************************************)
(* dns.rs: the lookups every scan of a name begins with, and what is kept  *)
(* of their answers.  Names, addresses and texts are numbers, whose order  *)
(* is the one the code sorts by.  The evidence of the zone (the lookup     *)
(* after the texts) is in ZoneTransfer.                                    *)
(***************************************************************************)
EXTENDS DnsLimits, Sequences, FiniteSetsExt, SequencesExt

CONSTANTS
    Hostname,            \* the queried name
    Replies,             \* what a lookup of a type may answer: sequences of records
    Texts,               \* what a lookup of a special name may answer: sets of texts
    Spf,                 \* the texts that are SPF records
    MaxResolvedHosts, MaxSpecialTxtRecords

query_types == <<"A", "AAAA", "CNAME", "NS", "MX", "TXT", "CAA">>
SpecialNames == <<"_dmarc", "_mta-sts", "_smtp._tls">>

ASSUME BaselineAssumption ==
    /\ MaxResolvedHosts \in Nat \ {0} /\ MaxSpecialTxtRecords \in Nat
    /\ Hostname \in Nat /\ Spf \subseteq Nat /\ \A t \in Texts : t \subseteq Nat
    /\ \A type \in ToSet(query_types) :
          Replies[type] \subseteq Seq([type : ToSet(query_types) \cup {"SOA"}, owner : Nat, value : Nat])

VARIABLES
    target,      \* a name or an address, and the family filters
    queries,     \* the lookups still to make
    answered,    \* all records answered so far, in order
    observed,    \* [records, hosts, edges, errors]: what the loop collects, the records by their places in answered
    special,     \* the texts of the special names
    dns          \* the observation

baselineVars == <<target, queries, answered, observed, special, dns>>

Nothing == [records |-> {}, hosts |-> {}, edges |-> {}, errors |-> {}]

BaselineTypeOK ==
    /\ target \in [explicit : BOOLEAN, only : {"any", "4", "6"}, fetch : BOOLEAN]
    /\ queries = <<>> \/ queries \in {SubSeq(query_types \o SpecialNames, i, 10) : i \in 1 .. 10}
    /\ observed.errors \subseteq {"dns", "timeout", "truncated"}
    /\ \A host \in observed.hosts : host.source \in {"A", "AAAA"}
    /\ dns.state \in {"none", "explicit", "observed"}
    /\ Cardinality(dns.records) <= MaxDnsRecords /\ Len(dns.chain) <= MaxCnameChainHops
    /\ Cardinality(dns.hosts) <= MaxResolvedHosts /\ dns.policy \in {"unasked", "unknown", "available", "absent"}

-----------------------------------------------------------------------------

Kept(records, type) == {r \in ToSet(records) : r.type = type}

\* lookup: addresses and aliases are taken from the answer to any type, and
\* every record that can be shown is.
Collect(reply) ==
    [observed EXCEPT
        !.records = @ \cup {Len(answered) + i : i \in {j \in DOMAIN reply : reply[j].type # "SOA"}},
        !.hosts = @ \cup {[owner |-> r.owner, ip |-> r.value, source |-> r.type] : r \in Kept(reply, "A") \cup Kept(reply, "AAAA")},
        !.edges = @ \cup {[from |-> r.owner, to |-> r.value] : r \in Kept(reply, "CNAME")}]

Skips(type) == (target.only = "4" /\ type = "AAAA") \/ (target.only = "6" /\ type = "A")

LookupType ==
    /\ Len(queries) > Len(SpecialNames) /\ queries' = Tail(queries) /\ UNCHANGED <<target, special, dns>>
    /\ IF Skips(Head(queries)) THEN UNCHANGED <<answered, observed>>
       ELSE \/ \E reply \in Replies[Head(queries)] : observed' = Collect(reply) /\ answered' = answered \o reply
            \/ UNCHANGED <<answered, observed>>   \* no such record, no such name
            \/ /\ \E error \in {"dns", "timeout"} : observed' = [observed EXCEPT !.errors = @ \cup {error}]
               /\ UNCHANGED answered

\* The record limit counts the records as they came, before copies are dropped.
Cut == IF Cardinality(observed.records) <= MaxDnsRecords THEN observed
       ELSE [observed EXCEPT !.records = Least(MaxDnsRecords, @), !.errors = @ \cup {"truncated"}]

\* lookup_txt_values: sorted and cut; a lookup that fails says nothing.
LookupText ==
    /\ queries # <<>> /\ Len(queries) <= Len(SpecialNames)
    /\ queries' = Tail(queries) /\ UNCHANGED <<target, answered, dns>>
    /\ observed' = IF Len(queries) = Len(SpecialNames) THEN Cut ELSE observed
    /\ \E texts \in Texts \cup {{}} : special' = Append(special, Least(MaxSpecialTxtRecords, texts))

\* The first of the aliases of a name.
LeastEdge(edges) == CHOOSE e \in edges : \A other \in edges : e.to <= other.to

Current(chain) == IF chain = <<>> THEN Hostname ELSE Last(chain).to
Aliases(name, edges) == {e \in edges : e.from = name}

Follow_Bug(chain, edges) ==   \* a name met before is followed again
    LET next == Aliases(Current(chain), edges) IN IF next = {} THEN chain ELSE Append(chain, LeastEdge(next))

\* One alias further, unless the name has none or was followed before.
Follow(chain, edges) ==
    LET next == Aliases(Current(chain), edges)
    IN  IF next = {} \/ \E hop \in ToSet(chain) : hop.from = Current(chain) THEN chain ELSE Append(chain, LeastEdge(next))

\* From the queried name, an alias at a time.
ordered_cname_chain(edges) ==
    LET chain[i \in 0 .. MaxCnameChainHops] == IF i = 0 THEN <<>> ELSE Follow(chain[i - 1], edges)
    IN  chain[MaxCnameChainHops]

\* The order of ResolvedHost: the name, then the address, then where it is from.
Before(h, g) == \/ h.owner < g.owner
                \/ h.owner = g.owner /\ h.ip < g.ip
                \/ h.owner = g.owner /\ h.ip = g.ip /\ h.source = "A" /\ g.source = "AAAA"

Assemble ==
    /\ queries = <<>> /\ dns.state = "none" /\ ~target.explicit /\ UNCHANGED <<target, queries, answered, observed, special>>
    /\ LET records == {[type |-> r.type, value |-> r.value] : r \in {answered[i] : i \in observed.records}}
           hosts == {h \in observed.hosts : Cardinality({g \in observed.hosts : Before(g, h)}) < MaxResolvedHosts}
           spf == {r.value : r \in {x \in records : x.type = "TXT"}} \cap Spf
       IN  \E policy \in IF target.fetch /\ special[2] # {} THEN {"unknown", "available", "absent"} ELSE {"unasked"} :
              dns' = [state |-> "observed", records |-> records, hosts |-> hosts,
                      chain |-> ordered_cname_chain(observed.edges), spf |-> spf,
                      mx |-> \E r \in records : r.type = "MX", dmarc |-> special[1], policy |-> policy,
                      errors |-> observed.errors]

NoObservation == [state |-> "none", records |-> {}, hosts |-> {}, chain |-> <<>>, spf |-> {}, mx |-> FALSE,
                  dmarc |-> {}, policy |-> "unasked", errors |-> {}]

\* An address is its own observation: no lookup.
explicit_ip_observation ==
    /\ target.explicit /\ dns.state = "none" /\ UNCHANGED <<target, queries, answered, observed, special>>
    /\ dns' = [NoObservation EXCEPT !.state = "explicit",
                                    !.hosts = {[owner |-> Hostname, ip |-> Hostname, source |-> "explicit"]}]

BaselineInit ==
    /\ target \in [explicit : BOOLEAN, only : {"any", "4", "6"}, fetch : BOOLEAN]
    /\ queries = (IF target.explicit THEN <<>> ELSE query_types \o SpecialNames)
    /\ answered = <<>> /\ observed = Nothing /\ special = <<>> /\ dns = NoObservation

BaselineNext == LookupType \/ LookupText \/ Assemble \/ explicit_ip_observation

-----------------------------------------------------------------------------

Hops == {[from |-> r.owner, to |-> r.value] : r \in Kept(answered, "CNAME")}

\* The chain is a path of answered aliases from the queried name on which no
\* name is followed twice, and it ends for a reason: the limit, a name with no
\* alias, or a name that was followed before (ordered_cname_chain).
ChainIsPath ==
    dns.state = "observed" =>
        LET chain == dns.chain
            n == Len(chain)
            followed == {chain[i].from : i \in 1 .. n}
            end == IF n = 0 THEN Hostname ELSE chain[n].to
        IN  /\ n > 0 => chain[1].from = Hostname
            /\ \A i \in 2 .. n : chain[i].from = chain[i - 1].to
            /\ Cardinality(followed) = n /\ ToSet(chain) \subseteq Hops
            /\ n = MaxCnameChainHops \/ end \in followed \/ \A hop \in Hops : hop.from # end

\* No record that was answered is missing from the observation without a word:
\* it is there, or the observation says that records were cut.  In particular
\* no SPF record is lost in silence, of which a finding would follow.
CutIsTold ==
    dns.state = "observed" =>
        \/ "truncated" \in dns.errors
        \/ /\ dns.records = {[type |-> r.type, value |-> r.value] : r \in {x \in ToSet(answered) : x.type # "SOA"}}
           /\ dns.spf = {r.value : r \in Kept(answered, "TXT")} \cap Spf
           /\ dns.mx <=> Kept(answered, "MX") # {}
=============================================================================
