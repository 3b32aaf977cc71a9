-------------------------- MODULE AssessmentProofs --------------------------
(***************************************************************************)
(* What a report says of a set of observations does not depend on the      *)
(* order they arrived in, and never looks better for one more of them:     *)
(* for every set of observations, every target and every time of the scan. *)
(***************************************************************************)
EXTENDS Assessment, TLAPS, FiniteSetTheorems, WellFoundedInduction

-----------------------------------------------------------------------------
(* Sets in an order: ahead[x] is what comes before x.                      *)

LEMMA LeastNatural ==
    ASSUME NEW S, S \subseteq Nat, S # {}
    PROVE  Min(S) \in S /\ \A m \in S : Min(S) <= m
<1>1. PICK x \in S : \A y \in S : ~ (<<y, x>> \in OpToRel(<, Nat))
  BY NatLessThanWellFounded, WFMin
<1>2. ASSUME NEW y \in S PROVE x <= y
  <2>1. ~(y < x)
    BY <1>1 DEF OpToRel
  <2> QED
    BY <2>1
<1> QED
  BY <1>2 DEF Min

\* Nothing comes before itself, and what comes before comes before all that follows.
Strict(S, ahead) ==
    /\ \A x \in S : ahead[x] \subseteq S /\ x \notin ahead[x]
    /\ \A x, y, z \in S : x \in ahead[y] /\ y \in ahead[z] => x \in ahead[z]

Total(S, ahead) == \A x, y \in S : x = y \/ x \in ahead[y] \/ y \in ahead[x]

\* The later has more before it than the earlier.
LEMMA LaterHasMore ==
    ASSUME NEW S, IsFiniteSet(S), NEW ahead, Strict(S, ahead), NEW y \in S
    PROVE  /\ IsFiniteSet(ahead[y]) /\ Cardinality(ahead[y]) \in Nat
           /\ Cardinality(S) \in Nat /\ Cardinality(ahead[y]) < Cardinality(S)
           /\ \A x \in ahead[y] : Cardinality(ahead[x]) < Cardinality(ahead[y])
<1>1. \A T \in SUBSET S : IsFiniteSet(T) /\ Cardinality(T) \in Nat /\ Cardinality(T) <= Cardinality(S)
  BY FS_Subset, FS_CardinalityType
<1>2. ahead[y] \in SUBSET S /\ y \notin ahead[y] /\ Cardinality(S) \in Nat
  BY FS_CardinalityType DEF Strict
<1>3. Cardinality(ahead[y]) # Cardinality(S)
  BY <1>2, FS_Subset
<1>4. ASSUME NEW x \in ahead[y] PROVE Cardinality(ahead[x]) < Cardinality(ahead[y])
  <2>1. x \in S /\ ahead[x] \in SUBSET S /\ x \notin ahead[x]
    BY <1>2 DEF Strict
  <2>2. ahead[x] \in SUBSET ahead[y]
    BY <2>1 DEF Strict
  <2>3. Cardinality(ahead[x]) <= Cardinality(ahead[y]) /\ Cardinality(ahead[x]) # Cardinality(ahead[y])
    BY <1>1, <1>2, <2>1, <2>2, FS_Subset
  <2> QED
    BY <1>1, <1>2, <2>1, <2>3
<1> QED
  BY <1>1, <1>2, <1>3, <1>4

\* A finite set with a member has one that nothing of it comes before.
LEMMA SomethingIsFirst ==
    ASSUME NEW S, IsFiniteSet(S), S # {}, NEW ahead, Strict(S, ahead)
    PROVE  \E x \in S : ahead[x] = {}
<1> DEFINE counts == {Cardinality(ahead[x]) : x \in S}
<1>1. counts \subseteq Nat /\ counts # {}
  BY LaterHasMore
<1>2. PICK m \in counts : \A n \in counts : m <= n
  <2> HIDE DEF counts
  <2> QED
    BY <1>1, LeastNatural
<1>3. PICK x \in S : m = Cardinality(ahead[x])
  OBVIOUS
<1>4. ASSUME NEW y \in ahead[x] PROVE FALSE
  <2>1. y \in S /\ Cardinality(ahead[y]) < Cardinality(ahead[x])
    BY <1>3, <1>4, LaterHasMore DEF Strict
  <2>2. Cardinality(ahead[x]) <= Cardinality(ahead[y])
    BY <1>2, <1>3, <2>1
  <2>3. Cardinality(ahead[x]) \in Nat /\ Cardinality(ahead[y]) \in Nat
    BY <2>1, LaterHasMore
  <2> QED
    BY <2>1, <2>2, <2>3
<1> QED
  BY <1>4

\* In a total order exactly one member has a given number of others before it.
LEMMA EachPlaceIsTaken ==
    ASSUME NEW S, IsFiniteSet(S), NEW ahead, Strict(S, ahead), Total(S, ahead)
    PROVE  /\ \A x, y \in S : Cardinality(ahead[x]) = Cardinality(ahead[y]) => x = y
           /\ \A n \in 1 .. Cardinality(S) : \E x \in S : Cardinality(ahead[x]) = n - 1
<1>1. ASSUME NEW x \in S, NEW y \in S, Cardinality(ahead[x]) = Cardinality(ahead[y]) PROVE x = y
  <2>1. x \notin ahead[y] /\ y \notin ahead[x]
    BY <1>1, LaterHasMore
  <2> QED
    BY <2>1 DEF Total
<1>2. ASSUME NEW n \in 1 .. Cardinality(S), \A x \in S : Cardinality(ahead[x]) # n - 1 PROVE FALSE
  <2> DEFINE c == Cardinality(S)
             free == (0 .. c - 1) \ {n - 1}
             count == [x \in S |-> Cardinality(ahead[x])]
  <2>1. c \in Nat
    BY FS_CardinalityType
  <2>2. IsFiniteSet(0 .. c - 1) /\ Cardinality(0 .. c - 1) = c
    <3>1. 0 \in Int /\ c - 1 \in Int /\ (0 > c - 1 => c = 0) /\ c - 1 - 0 + 1 = c
      BY <2>1
    <3> HIDE DEF c
    <3>2. IsFiniteSet(0 .. c - 1) /\ Cardinality(0 .. c - 1) = IF 0 > c - 1 THEN 0 ELSE c - 1 - 0 + 1
      BY <3>1, FS_Interval
    <3> QED
      BY <3>1, <3>2
  <2>3. n - 1 \in 0 .. c - 1
    BY <2>1
  <2>4. IsFiniteSet(free) /\ Cardinality(free) = c - 1
    <3> DEFINE all == 0 .. c - 1
    <3> HIDE DEF all
    <3>1. IsFiniteSet(all \ {n - 1}) /\ Cardinality(all \ {n - 1}) = Cardinality(all) - 1
      BY <2>2, <2>3, FS_RemoveElement DEF all
    <3> QED
      BY <2>2, <3>1 DEF all
  <2>5. \A x \in S : Cardinality(ahead[x]) \in Nat /\ Cardinality(ahead[x]) < c
    BY LaterHasMore
  <2>6. count \in [S -> free]
    BY <1>2, <2>1, <2>5
  <2> HIDE DEF free
  <2>7. Cardinality(free) < Cardinality(S)
    BY <2>1, <2>4
  <2>8. PICK x, y \in S : x # y /\ count[x] = count[y]
    <3> HIDE DEF count
    <3> QED
      BY <2>4, <2>6, <2>7, FS_PigeonHole
  <2> QED
    BY <1>1, <2>8
<1> QED
  BY <1>1, <1>2

\* An image has as many members as the set, when no two have the same image.
LEMMA ImageIsAsLarge ==
    ASSUME NEW f, NEW S, S \subseteq DOMAIN f, IsFiniteSet(S)
    PROVE  /\ IsFiniteSet({f[x] : x \in S})
           /\ (\A x, y \in S : f[x] = f[y] => x = y) => Cardinality({f[x] : x \in S}) = Cardinality(S)
<1> DEFINE T == {f[x] : x \in S}
           g == [x \in S |-> f[x]]
<1>1. g \in Surjection(S, T)
  BY DEF Surjection
<1>2. (\A x, y \in S : f[x] = f[y] => x = y) => g \in Injection(S, T)
  BY DEF Injection, IsInjective
<1> HIDE DEF g, T
<1> QED
  BY <1>1, <1>2, FS_Surjection DEF T

\* A union of finitely many finite sets is finite.
LEMMA UnionIsFinite ==
    ASSUME NEW I, IsFiniteSet(I), NEW f, \A i \in I : IsFiniteSet(f[i])
    PROVE  IsFiniteSet(UNION {f[i] : i \in I})
<1> DEFINE bad == {T \in SUBSET I : ~IsFiniteSet(UNION {f[i] : i \in T})}
           sizes == {Cardinality(T) : T \in bad}
<1> SUFFICES ASSUME bad # {} PROVE FALSE
  OBVIOUS
<1>1. \A T \in SUBSET I : IsFiniteSet(T) /\ Cardinality(T) \in Nat
  BY FS_Subset, FS_CardinalityType
<1>2. PICK m \in sizes : \A n \in sizes : m <= n
  <2>1. sizes \subseteq Nat /\ sizes # {}
    BY <1>1
  <2> HIDE DEF sizes
  <2> QED
    BY <2>1, LeastNatural
<1>3. PICK T \in bad : m = Cardinality(T)
  OBVIOUS
<1>4. T # {}
  <2>1. UNION {f[i] : i \in {}} = {}
    OBVIOUS
  <2> QED
    BY <1>3, <2>1, FS_EmptySet
<1>5. PICK i \in T : TRUE
  BY <1>4
<1>6. T \ {i} \in SUBSET I /\ Cardinality(T \ {i}) = m - 1 /\ m \in Nat
  BY <1>1, <1>3, FS_RemoveElement
<1>7. T \ {i} \notin bad
  <2>1. ASSUME T \ {i} \in bad PROVE m <= m - 1
    <3>1. Cardinality(T \ {i}) \in sizes
      BY <2>1
    <3> QED
      BY <1>2, <1>6, <3>1
  <2> QED
    BY <1>6, <2>1
<1>8. IsFiniteSet(UNION {f[j] : j \in T \ {i}}) /\ IsFiniteSet(f[i])
  BY <1>3, <1>6, <1>7
<1>9. UNION {f[j] : j \in T} = (UNION {f[j] : j \in T \ {i}}) \cup f[i]
  OBVIOUS
<1>10. IsFiniteSet((UNION {f[j] : j \in T \ {i}}) \cup f[i])
  BY <1>8, FS_Union
<1>11. IsFiniteSet(UNION {f[j] : j \in T})
  BY <1>9, <1>10
<1> QED
  BY <1>3, <1>11

-----------------------------------------------------------------------------
(* Keys and places are compared from the left.                             *)

LEMMA SmallerIsAnOrder ==
    ASSUME NEW n \in Nat, NEW k \in [1 .. n -> Nat], NEW l \in [1 .. n -> Nat]
    PROVE  /\ ~Smaller(k, k)
           /\ k = l \/ Smaller(k, l) \/ Smaller(l, k)
           /\ \A m \in [1 .. n -> Nat] : Smaller(k, l) /\ Smaller(l, m) => Smaller(k, m)
<1>1. ~Smaller(k, k)
  BY DEF Smaller
<1>2. k = l \/ Smaller(k, l) \/ Smaller(l, k)
  <2> DEFINE differ == {i \in 1 .. n : k[i] # l[i]}
  <2>1. CASE differ = {}
    BY <2>1
  <2>2. CASE differ # {}
    <3>1. differ \subseteq Nat
      OBVIOUS
    <3>2. PICK i \in differ : \A j \in differ : i <= j
      <4> HIDE DEF differ
      <4> QED
        BY <2>2, <3>1, LeastNatural
    <3>3. \A j \in 1 .. i - 1 : j \in 1 .. n /\ j \notin differ
      <4>1. i \in 1 .. n
        BY <3>2
      <4>2. \A j \in 1 .. i - 1 : j \in 1 .. n /\ ~(i <= j)
        BY <4>1
      <4> QED
        BY <3>2, <4>2
    <3>4. \A j \in 1 .. i - 1 : k[j] = l[j]
      BY <3>3
    <3>5. i \in 1 .. n /\ (k[i] < l[i] \/ l[i] < k[i])
      <4>1. i \in 1 .. n /\ k[i] # l[i]
        BY <3>2
      <4>2. k[i] \in Nat /\ l[i] \in Nat
        BY <4>1
      <4> QED
        BY <4>1, <4>2
    <3>6. DOMAIN k = 1 .. n /\ DOMAIN l = 1 .. n
      OBVIOUS
    <3> HIDE DEF differ
    <3> QED
      BY <3>4, <3>5, <3>6 DEF Smaller
  <2> QED
    BY <2>1, <2>2
<1>3. ASSUME NEW m \in [1 .. n -> Nat], Smaller(k, l), Smaller(l, m) PROVE Smaller(k, m)
  <2>1. PICK i \in 1 .. n : k[i] < l[i] /\ \A j \in 1 .. i - 1 : k[j] = l[j]
    BY <1>3 DEF Smaller
  <2>2. PICK h \in 1 .. n : l[h] < m[h] /\ \A j \in 1 .. h - 1 : l[j] = m[j]
    BY <1>3 DEF Smaller
  <2>3. /\ k[i] \in Nat /\ l[i] \in Nat /\ m[i] \in Nat /\ k[h] \in Nat /\ l[h] \in Nat /\ m[h] \in Nat
    BY <2>1, <2>2
  <2>4. CASE i < h
    <3>1. i \in 1 .. h - 1 /\ \A j \in 1 .. i - 1 : j \in 1 .. h - 1
      BY <2>1, <2>2, <2>4
    <3>2. k[i] < m[i] /\ \A j \in 1 .. i - 1 : k[j] = m[j]
      BY <2>1, <2>2, <3>1
    <3> QED
      BY <2>1, <3>2 DEF Smaller
  <2>5. CASE h < i
    <3>1. h \in 1 .. i - 1 /\ \A j \in 1 .. h - 1 : j \in 1 .. i - 1
      BY <2>1, <2>2, <2>5
    <3>2. k[h] < m[h] /\ \A j \in 1 .. h - 1 : k[j] = m[j]
      BY <2>1, <2>2, <3>1
    <3> QED
      BY <2>2, <3>2 DEF Smaller
  <2>6. CASE h = i
    <3>1. k[i] < m[i] /\ \A j \in 1 .. i - 1 : k[j] = m[j]
      BY <2>1, <2>2, <2>3, <2>6
    <3> QED
      BY <2>1, <3>1 DEF Smaller
  <2> QED
    BY <2>1, <2>2, <2>4, <2>5, <2>6
<1> QED
  BY <1>1, <1>2, <1>3

\* A finding, as the rules push it.
Findings == [id : ToSet(Rules), target : Nat, evidence : Nat \X Nat]

LEMMA IndexFacts ==
    \A id \in ToSet(Rules) : Index[id] \in Nat /\ Rules[Index[id]] = id
<1> SUFFICES ASSUME NEW id \in ToSet(Rules) PROVE Index[id] \in Nat /\ Rules[Index[id]] = id
  OBVIOUS
<1>1. DOMAIN Rules \subseteq Nat
  BY DEF Rules
<1> HIDE DEF Rules
<1>2. \E i \in DOMAIN Rules : Rules[i] = id
  BY DEF ToSet
<1>3. Index[id] \in DOMAIN Rules /\ Rules[Index[id]] = id
  BY <1>2 DEF Index
<1> QED
  BY <1>1, <1>3

\* The key of the sort tells two findings apart.
LEMMA KeyFacts ==
    ASSUME NEW f \in Findings, NEW g \in Findings
    PROVE  /\ SortKey(f) \in [1 .. 5 -> Nat]
           /\ SortKey(f) = SortKey(g) => f = g
<1>1. /\ f.id \in ToSet(Rules) /\ f.target \in Nat /\ f.evidence[1] \in Nat /\ f.evidence[2] \in Nat
      /\ f = [id |-> f.id, target |-> f.target, evidence |-> <<f.evidence[1], f.evidence[2]>>]
  BY DEF Findings
<1>2. /\ g.id \in ToSet(Rules)
      /\ g = [id |-> g.id, target |-> g.target, evidence |-> <<g.evidence[1], g.evidence[2]>>]
  BY DEF Findings
<1>3. Index[f.id] \in Nat /\ Rules[Index[f.id]] = f.id /\ Rules[Index[g.id]] = g.id
  BY <1>1, <1>2, IndexFacts
<1>4. 4 - Rank(f.id) \in Nat
  BY DEF Rank
<1>5. SortKey(f) \in [1 .. 5 -> Nat]
  <2> DEFINE a == 4 - Rank(f.id)
             b == Index[f.id]
  <2>1. SortKey(f) = <<a, b, f.target, f.evidence[1], f.evidence[2]>> /\ a \in Nat /\ b \in Nat
    BY <1>3, <1>4 DEF SortKey
  <2> HIDE DEF a, b
  <2>2. <<a, b, f.target, f.evidence[1], f.evidence[2]>> \in [1 .. 5 -> Nat]
    BY <1>1, <2>1
  <2> QED
    BY <2>1, <2>2
<1>6. ASSUME SortKey(f) = SortKey(g) PROVE f = g
  <2>1. /\ Index[f.id] = Index[g.id] /\ f.target = g.target
        /\ f.evidence[1] = g.evidence[1] /\ f.evidence[2] = g.evidence[2]
    BY <1>6 DEF SortKey
  <2>2. f.id = g.id
    BY <1>3, <2>1
  <2> QED
    BY <1>1, <1>2, <2>1, <2>2
<1> QED
  BY <1>5, <1>6

-----------------------------------------------------------------------------
(* What the rules push                                                     *)

LEMMA RuleNames ==
    ToSet(Rules) =
        {"DNS-AXFR-ALLOWED", "DNS-CNAME-DANGLING-INDICATOR", "DNS-DNSSEC-BOGUS", "DNS-WILDCARD-DETECTED",
         "HTTP-HSTS-MISSING", "HTTP-HTTPS-DOWNGRADE", "HTTP-NO-HTTPS-REDIRECT", "HTTP-SECURITY-TXT-MISSING",
         "HTTP-VERSION-DISCLOSURE", "MAIL-DMARC-MONITORING", "MAIL-SMTP-STARTTLS-NOT-ADVERTISED", "MAIL-SPF-MULTIPLE",
         "NET-DATABASE-EXPOSED", "NET-SSH-LEGACY-ALGORITHM", "NET-SSH-REACHABLE", "TLS-CERT-EXPIRED", "TLS-CERT-EXPIRING",
         "TLS-CERT-NOT-YET-VALID", "TLS-CERT-SHA1-SIGNATURE", "TLS-CERT-WEAK-RSA-KEY", "TLS-OBSOLETE-PROTOCOL",
         "TLS-VALIDATION-FAILED"}
BY DEF Rules, ToSet

LEMMA FindingType ==
    ASSUME NEW id \in ToSet(Rules), NEW target \in Nat, NEW location \in Nat, NEW said \in Nat
    PROVE  Finding(id, target, location, said) \in Findings
BY DEF Finding, Findings

LEMMA WhenType ==
    ASSUME NEW condition, NEW found, condition => found \in Findings
    PROVE  When(condition, found) \in Seq(Findings)
BY DEF When

LEMMA JoinedType == \A s, t \in Seq(Findings) : s \o t \in Seq(Findings)
OBVIOUS

LEMMA ConstantFacts == Target \in Nat /\ Now \in Nat
BY AssessmentAssumption

\* An observation has the fields of its kind.
LEMMA OfItsKind ==
    ASSUME NEW o \in Observations
    PROVE  /\ o.kind = "dns" => o \in DnsSeen
           /\ o.kind = "port" => o \in PortSeen
           /\ o.kind = "service" => o \in ServiceSeen
           /\ o.kind = "http" => o \in HttpSeen
           /\ o.kind = "tls" => o \in TlsSeen
<1>1. o \in DnsSeen \cup PortSeen \cup ServiceSeen \cup HttpSeen \cup TlsSeen
  BY AssessmentAssumption
<1>2. o \in DnsSeen => o.kind = "dns"
  BY DEF DnsSeen
<1>3. o \in PortSeen => o.kind = "port"
  BY DEF PortSeen
<1>4. o \in ServiceSeen => o.kind = "service"
  BY DEF ServiceSeen
<1>5. o \in HttpSeen => o.kind = "http"
  BY DEF HttpSeen
<1>6. o \in TlsSeen => o.kind = "tls"
  BY DEF TlsSeen
<1> QED
  BY <1>1, <1>2, <1>3, <1>4, <1>5, <1>6

LEMMA DnsFindingsType == ASSUME NEW o \in DnsSeen PROVE dns_findings(o) \in Seq(Findings)
<1>1. o.allowed \in Nat /\ o.spf \in Nat /\ 0 \in Nat
  BY DEF DnsSeen
<1>2. /\ Finding("DNS-WILDCARD-DETECTED", Target, 0, 0) \in Findings
      /\ Finding("DNS-AXFR-ALLOWED", Target, 0, o.allowed) \in Findings
      /\ Finding("DNS-DNSSEC-BOGUS", Target, 0, 0) \in Findings
      /\ Finding("MAIL-SPF-MULTIPLE", Target, 0, o.spf) \in Findings
      /\ Finding("MAIL-DMARC-MONITORING", Target, 0, 0) \in Findings
  BY <1>1, ConstantFacts, RuleNames, FindingType
<1>3. /\ When(o.wildcard, Finding("DNS-WILDCARD-DETECTED", Target, 0, 0)) \in Seq(Findings)
      /\ When(o.allowed # 0, Finding("DNS-AXFR-ALLOWED", Target, 0, o.allowed)) \in Seq(Findings)
      /\ When(o.bogus, Finding("DNS-DNSSEC-BOGUS", Target, 0, 0)) \in Seq(Findings)
      /\ When(o.spf > 1, Finding("MAIL-SPF-MULTIPLE", Target, 0, o.spf)) \in Seq(Findings)
      /\ When(o.dmarc # <<>> /\ Head(o.dmarc) = "none", Finding("MAIL-DMARC-MONITORING", Target, 0, 0)) \in Seq(Findings)
  BY <1>2, WhenType
<1> QED
  BY <1>3, JoinedType DEF dns_findings

LEMMA PortFindingsType == ASSUME NEW o \in PortSeen PROVE database_findings(o) \in Seq(Findings)
<1>1. o.address \in Nat /\ 0 \in Nat
  BY DEF PortSeen
<1>2. Finding("NET-DATABASE-EXPOSED", o.address, 0, 0) \in Findings
  BY <1>1, RuleNames, FindingType
<1> QED
  BY <1>2, WhenType DEF database_findings

LEMMA ServiceFindingsType ==
    ASSUME NEW o \in ServiceSeen PROVE ssh_findings(o) \in Seq(Findings) /\ smtp_findings(o) \in Seq(Findings)
<1>1. o.address \in Nat /\ o.banner \in Nat /\ o.legacy \in Nat /\ 0 \in Nat /\ 1 \in Nat
  BY DEF ServiceSeen
<1>2. /\ Finding("NET-SSH-REACHABLE", o.address, 0, o.banner) \in Findings
      /\ Finding("NET-SSH-LEGACY-ALGORITHM", o.address, 1, o.legacy) \in Findings
      /\ Finding("MAIL-SMTP-STARTTLS-NOT-ADVERTISED", o.address, 0, o.banner) \in Findings
  BY <1>1, RuleNames, FindingType
<1>3. /\ <<Finding("NET-SSH-REACHABLE", o.address, 0, o.banner)>> \in Seq(Findings)
      /\ When(o.complete /\ o.legacy # 0, Finding("NET-SSH-LEGACY-ALGORITHM", o.address, 1, o.legacy)) \in Seq(Findings)
      /\ <<>> \in Seq(Findings)
  BY <1>2, WhenType
<1>4. smtp_findings(o) \in Seq(Findings)
  BY <1>2, WhenType DEF smtp_findings
<1> QED
  BY <1>3, <1>4, JoinedType DEF ssh_findings

LEMMA HttpFindingsType == ASSUME NEW o \in HttpSeen PROVE http_findings(o) \in Seq(Findings)
<1>1. o.url \in Nat /\ o.status \in Nat /\ o.server \in Nat /\ 0 \in Nat
  BY DEF HttpSeen
<1>2. /\ Finding("HTTP-NO-HTTPS-REDIRECT", Target, o.url, o.status) \in Findings
      /\ Finding("HTTP-HSTS-MISSING", Target, o.url, o.status) \in Findings
      /\ Finding("HTTP-HTTPS-DOWNGRADE", Target, o.url, 0) \in Findings
      /\ Finding("HTTP-VERSION-DISCLOSURE", Target, o.url, o.server) \in Findings
      /\ Finding("HTTP-SECURITY-TXT-MISSING", Target, 0, 0) \in Findings
  BY <1>1, ConstantFacts, RuleNames, FindingType
<1>3. /\ When(~o.https /\ ~o.endshttps /\ "https" \notin o.redirects,
              Finding("HTTP-NO-HTTPS-REDIRECT", Target, o.url, o.status)) \in Seq(Findings)
      /\ When(o.hsts = "missing", Finding("HTTP-HSTS-MISSING", Target, o.url, o.status)) \in Seq(Findings)
      /\ When(o.https /\ "http" \in o.redirects, Finding("HTTP-HTTPS-DOWNGRADE", Target, o.url, 0)) \in Seq(Findings)
      /\ When(o.server # 0, Finding("HTTP-VERSION-DISCLOSURE", Target, o.url, o.server)) \in Seq(Findings)
      /\ When(o.securitytxt = "absent", Finding("HTTP-SECURITY-TXT-MISSING", Target, 0, 0)) \in Seq(Findings)
      /\ <<>> \in Seq(Findings)
  BY <1>2, WhenType
<1> QED
  BY <1>3, JoinedType DEF http_findings

LEMMA TlsFindingsType ==
    ASSUME NEW o \in TlsSeen, NEW observed
    PROVE  /\ expected_tls_findings(o, observed) \in Seq(Findings)
           /\ tls_weakness_findings(o) \in Seq(Findings)
           /\ validity_findings(o) \in Seq(Findings)
<1>1. o.address \in Nat /\ o.error \in Nat /\ o.from \in Nat /\ o.until \in Nat /\ o.rsa \in Nat /\ o.version \in Nat /\ 0 \in Nat
  BY DEF TlsSeen
<1>2. /\ Finding("TLS-VALIDATION-FAILED", Target, o.address, o.error) \in Findings
      /\ Finding("TLS-CERT-WEAK-RSA-KEY", Target, o.address, o.rsa) \in Findings
      /\ Finding("TLS-CERT-SHA1-SIGNATURE", Target, o.address, 0) \in Findings
      /\ Finding("TLS-OBSOLETE-PROTOCOL", Target, o.address, o.version) \in Findings
      /\ Finding("TLS-CERT-NOT-YET-VALID", Target, o.address, o.from) \in Findings
      /\ Finding("TLS-CERT-EXPIRED", Target, o.address, o.until) \in Findings
  BY <1>1, ConstantFacts, RuleNames, FindingType
<1>3. expected_tls_findings(o, observed) \in Seq(Findings)
  BY <1>2, WhenType DEF expected_tls_findings
<1>4. tls_weakness_findings(o) \in Seq(Findings)
  <2>1. /\ When(o.rsa # 0 /\ o.rsa < 2048, Finding("TLS-CERT-WEAK-RSA-KEY", Target, o.address, o.rsa)) \in Seq(Findings)
        /\ When(o.sha1, Finding("TLS-CERT-SHA1-SIGNATURE", Target, o.address, 0)) \in Seq(Findings)
        /\ When(o.version \in {10, 11}, Finding("TLS-OBSOLETE-PROTOCOL", Target, o.address, o.version)) \in Seq(Findings)
    BY <1>2, WhenType
  <2> QED
    BY <2>1, JoinedType DEF tls_weakness_findings
<1>5. validity_findings(o) \in Seq(Findings)
  <2>1. /\ <<Finding("TLS-CERT-NOT-YET-VALID", Target, o.address, o.from)>> \in Seq(Findings)
        /\ <<Finding("TLS-CERT-EXPIRED", Target, o.address, o.until)>> \in Seq(Findings)
        /\ <<>> \in Seq(Findings)
    BY <1>2
  <2>2. ASSUME ~(o.until < Now)
        PROVE  When(o.handshake /\ o.until - Now < 30, Finding("TLS-CERT-EXPIRING", Target, o.address, o.until - Now))
                   \in Seq(Findings)
    <3>1. o.until - Now \in Nat
      BY <1>1, <2>2, ConstantFacts
    <3>2. Finding("TLS-CERT-EXPIRING", Target, o.address, o.until - Now) \in Findings
      BY <1>1, <3>1, ConstantFacts, RuleNames, FindingType
    <3> QED
      BY <3>2, WhenType
  <2> QED
    BY <2>1, <2>2 DEF validity_findings
<1> QED
  BY <1>3, <1>4, <1>5

LEMMA RowIsFinite == ASSUME NEW n \in Nat PROVE IsFiniteSet(1 .. n)
BY FS_Interval

\* What a loop pushes is finite, and findings.
Listed(s) == IsFiniteSet(DOMAIN s) /\ DOMAIN s \subseteq Nat /\ \A n \in DOMAIN s : s[n] \in Findings

LEMMA SequencesAreListed == ASSUME NEW s \in Seq(Findings) PROVE Listed(s)
<1>1. Len(s) \in Nat /\ DOMAIN s = 1 .. Len(s) /\ \A n \in 1 .. Len(s) : s[n] \in Findings
  OBVIOUS
<1>2. IsFiniteSet(1 .. Len(s)) /\ 1 .. Len(s) \subseteq Nat
  BY <1>1, FS_Interval
<1> QED
  BY <1>1, <1>2 DEF Listed

LEMMA DanglingAreListed == ASSUME NEW o \in DnsSeen PROVE Listed(dangling_cname_findings(o))
<1> DEFINE P == dangling_cname_findings(o)
<1>1. o.chain \in Seq(CnameHop)
  BY DEF DnsSeen
<1>2. Len(o.chain) \in Nat /\ DOMAIN o.chain = 1 .. Len(o.chain) /\ \A n \in 1 .. Len(o.chain) : o.chain[n] \in CnameHop
  BY <1>1
<1>3. IsFiniteSet(1 .. Len(o.chain)) /\ 1 .. Len(o.chain) \subseteq Nat
  BY <1>2, FS_Interval
<1>4. DOMAIN P \in SUBSET (1 .. Len(o.chain))
  BY <1>2 DEF dangling_cname_findings
<1>5. IsFiniteSet(DOMAIN P) /\ DOMAIN P \subseteq Nat
  BY <1>3, <1>4, FS_Subset
<1>6. ASSUME NEW n \in DOMAIN P PROVE P[n] \in Findings
  <2>1. P[n] = Finding("DNS-CNAME-DANGLING-INDICATOR", Target, o.chain[n].from, o.chain[n].to)
    BY <1>6 DEF dangling_cname_findings
  <2>2. o.chain[n].from \in Nat /\ o.chain[n].to \in Nat
    BY <1>2, <1>4, <1>6 DEF CnameHop
  <2> QED
    BY <2>1, <2>2, ConstantFacts, RuleNames, FindingType
<1> QED
  BY <1>5, <1>6 DEF Listed

LEMMA LoopNames ==
    /\ DOMAIN Loops = 1 .. 7 /\ Loops[1] = "dns" /\ Loops[2] = "dns" /\ Loops[3] = "port" /\ Loops[4] = "service"
    /\ Loops[5] = "service" /\ Loops[6] = "http" /\ Loops[7] = "tls"
BY DEF Loops

LEMMA PushedByLoop ==
    ASSUME NEW o, NEW observed
    PROVE  /\ Pushed(1, o, observed) = dangling_cname_findings(o)
           /\ Pushed(2, o, observed) = dns_findings(o)
           /\ Pushed(3, o, observed) = database_findings(o)
           /\ Pushed(4, o, observed) = ssh_findings(o)
           /\ Pushed(5, o, observed) = smtp_findings(o)
           /\ Pushed(6, o, observed) = http_findings(o)
           /\ Pushed(7, o, observed) =
                  expected_tls_findings(o, observed) \o tls_weakness_findings(o) \o validity_findings(o)
BY DEF Pushed

LEMMA PushedIsListed ==
    ASSUME NEW loop \in DOMAIN Loops, NEW o \in Observations, o.kind = Loops[loop], NEW observed
    PROVE  Listed(Pushed(loop, o, observed))
<1>1. loop \in 1 .. 7
  BY LoopNames
<1>2. CASE loop = 1
  BY <1>2, LoopNames, OfItsKind, PushedByLoop, DanglingAreListed
<1>3. CASE loop = 2
  BY <1>3, LoopNames, OfItsKind, PushedByLoop, DnsFindingsType, SequencesAreListed
<1>4. CASE loop = 3
  BY <1>4, LoopNames, OfItsKind, PushedByLoop, PortFindingsType, SequencesAreListed
<1>5. CASE loop \in {4, 5}
  BY <1>5, LoopNames, OfItsKind, PushedByLoop, ServiceFindingsType, SequencesAreListed
<1>6. CASE loop = 6
  BY <1>6, LoopNames, OfItsKind, PushedByLoop, HttpFindingsType, SequencesAreListed
<1>7. CASE loop = 7
  <2>1. o \in TlsSeen
    BY <1>7, LoopNames, OfItsKind
  <2>2. expected_tls_findings(o, observed) \o tls_weakness_findings(o) \o validity_findings(o) \in Seq(Findings)
    BY <2>1, TlsFindingsType, JoinedType
  <2> QED
    BY <1>7, <2>2, PushedByLoop, SequencesAreListed
<1> QED
  BY <1>1, <1>2, <1>3, <1>4, <1>5, <1>6, <1>7

-----------------------------------------------------------------------------
(* The places the findings are pushed at                                   *)

LEMMA MemberOfPlaces ==
    ASSUME NEW observed \in Seq(Observations)
    PROVE  \A p : p \in Places(observed) <=>
               \E x \in Visits(observed) : \E n \in DOMAIN Pushed(x[1], observed[x[2]], observed) : p = <<x[1], x[2], n>>
BY DEF Places

LEMMA VisitFacts ==
    ASSUME NEW observed \in Seq(Observations), NEW x \in Visits(observed)
    PROVE  /\ x[1] \in DOMAIN Loops /\ x[2] \in DOMAIN observed /\ x[1] \in Nat /\ x[2] \in Nat
           /\ observed[x[2]] \in Observations /\ Listed(Pushed(x[1], observed[x[2]], observed))
<1>1. x[1] \in DOMAIN Loops /\ x[2] \in DOMAIN observed /\ observed[x[2]].kind = Loops[x[1]]
  BY DEF Visits
<1>2. x[1] \in Nat /\ x[2] \in Nat /\ observed[x[2]] \in Observations
  BY <1>1, LoopNames
<1> QED
  BY <1>1, <1>2, PushedIsListed

\* The places are finitely many, and at each a finding is pushed.
LEMMA PlaceFacts ==
    ASSUME NEW observed \in Seq(Observations)
    PROVE  /\ IsFiniteSet(Places(observed)) /\ Places(observed) \subseteq [1 .. 3 -> Nat]
           /\ PushedAt(observed) \in [Places(observed) -> Findings]
<1> DEFINE at == [x \in Visits(observed) |-> {x[1]} \X {x[2]} \X (DOMAIN Pushed(x[1], observed[x[2]], observed))]
<1>1. IsFiniteSet(Visits(observed))
  <2>1. IsFiniteSet(DOMAIN Loops) /\ IsFiniteSet(DOMAIN observed)
    <3>1. DOMAIN Loops = 1 .. 7 /\ DOMAIN observed = 1 .. Len(observed) /\ Len(observed) \in Nat
      BY LoopNames
    <3>2. IsFiniteSet(1 .. 7) /\ IsFiniteSet(1 .. Len(observed))
      BY <3>1, RowIsFinite
    <3> QED
      BY <3>1, <3>2
  <2>2. IsFiniteSet((DOMAIN Loops) \X (DOMAIN observed))
    BY <2>1, FS_Product
  <2>3. Visits(observed) \in SUBSET ((DOMAIN Loops) \X (DOMAIN observed))
    BY DEF Visits
  <2> QED
    BY <2>2, <2>3, FS_Subset
<1>2. ASSUME NEW x \in Visits(observed) PROVE IsFiniteSet(at[x])
  <2> DEFINE D == DOMAIN Pushed(x[1], observed[x[2]], observed)
             place == [n \in D |-> <<x[1], x[2], n>>]
  <2>1. IsFiniteSet(D)
    BY VisitFacts DEF Listed
  <2>2. at[x] = {place[n] : n \in D}
    OBVIOUS
  <2>3. DOMAIN place = D
    OBVIOUS
  <2> HIDE DEF place, at, D
  <2> QED
    BY <2>1, <2>2, <2>3, ImageIsAsLarge
<1>3. Places(observed) = UNION {at[x] : x \in Visits(observed)}
  BY DEF Places
<1> HIDE DEF at
<1>4. IsFiniteSet(Places(observed))
  BY <1>1, <1>2, <1>3, UnionIsFinite
<1>5. ASSUME NEW p \in Places(observed)
      PROVE  p \in [1 .. 3 -> Nat] /\ Pushed(p[1], observed[p[2]], observed)[p[3]] \in Findings
  <2>1. PICK x \in Visits(observed) : \E n \in DOMAIN Pushed(x[1], observed[x[2]], observed) : p = <<x[1], x[2], n>>
    BY <1>5, MemberOfPlaces
  <2>2. PICK n \in DOMAIN Pushed(x[1], observed[x[2]], observed) : p = <<x[1], x[2], n>>
    BY <2>1
  <2>3. x[1] \in Nat /\ x[2] \in Nat /\ Listed(Pushed(x[1], observed[x[2]], observed))
    BY VisitFacts
  <2>4. n \in Nat /\ Pushed(x[1], observed[x[2]], observed)[n] \in Findings
    BY <2>2, <2>3 DEF Listed
  <2>5. p[1] = x[1] /\ p[2] = x[2] /\ p[3] = n
    BY <2>2
  <2>6. <<x[1], x[2], n>> \in [1 .. 3 -> Nat]
    BY <2>3, <2>4
  <2> QED
    BY <2>2, <2>4, <2>5, <2>6
<1>6. PushedAt(observed) \in [Places(observed) -> Findings]
  BY <1>5 DEF PushedAt
<1> QED
  BY <1>4, <1>5, <1>6

-----------------------------------------------------------------------------
(* What is found                                                           *)

\* The findings pushed for a set of observations.
Found(observed) == {PushedAt(observed)[p] : p \in Places(observed)}

LEMMA MemberOfFound ==
    ASSUME NEW observed \in Seq(Observations)
    PROVE  /\ \A x \in Visits(observed) : \A n \in DOMAIN Pushed(x[1], observed[x[2]], observed) :
                  Pushed(x[1], observed[x[2]], observed)[n] \in Found(observed)
           /\ \A f \in Found(observed) : \E x \in Visits(observed) : \E n \in DOMAIN Pushed(x[1], observed[x[2]], observed) :
                  f = Pushed(x[1], observed[x[2]], observed)[n]
<1>1. ASSUME NEW x \in Visits(observed), NEW n \in DOMAIN Pushed(x[1], observed[x[2]], observed)
      PROVE  /\ <<x[1], x[2], n>> \in Places(observed)
             /\ PushedAt(observed)[<<x[1], x[2], n>>] = Pushed(x[1], observed[x[2]], observed)[n]
  <2> DEFINE p == <<x[1], x[2], n>>
  <2>1. p \in Places(observed)
    BY <1>1, MemberOfPlaces
  <2>2. p[1] = x[1] /\ p[2] = x[2] /\ p[3] = n
    OBVIOUS
  <2>3. PushedAt(observed)[p] = Pushed(p[1], observed[p[2]], observed)[p[3]]
    <3> HIDE DEF p
    <3> QED
      BY <2>1 DEF PushedAt
  <2> QED
    BY <2>1, <2>2, <2>3
<1>2. ASSUME NEW f \in Found(observed)
      PROVE  \E x \in Visits(observed) : \E n \in DOMAIN Pushed(x[1], observed[x[2]], observed) :
                 f = Pushed(x[1], observed[x[2]], observed)[n]
  <2>1. PICK p \in Places(observed) : f = PushedAt(observed)[p]
    BY <1>2 DEF Found
  <2>2. PICK x \in Visits(observed) : \E n \in DOMAIN Pushed(x[1], observed[x[2]], observed) : p = <<x[1], x[2], n>>
    BY MemberOfPlaces
  <2>3. PICK n \in DOMAIN Pushed(x[1], observed[x[2]], observed) : p = <<x[1], x[2], n>>
    BY <2>2
  <2> QED
    BY <1>1, <2>1, <2>3
<1>3. ASSUME NEW x \in Visits(observed), NEW n \in DOMAIN Pushed(x[1], observed[x[2]], observed)
      PROVE  Pushed(x[1], observed[x[2]], observed)[n] \in Found(observed)
  BY <1>1, <1>3 DEF Found
<1> QED
  BY <1>2, <1>3

LEMMA FoundIsFinite ==
    ASSUME NEW observed \in Seq(Observations)
    PROVE  IsFiniteSet(Found(observed)) /\ Found(observed) \subseteq Findings
<1> DEFINE found == PushedAt(observed)
           P == Places(observed)
<1>1. IsFiniteSet(P) /\ found \in [P -> Findings]
  BY PlaceFacts
<1>2. Found(observed) = {found[p] : p \in P}
  BY DEF Found
<1> HIDE DEF found, P
<1>3. P \subseteq DOMAIN found /\ {found[p] : p \in P} \subseteq Findings
  BY <1>1
<1>4. IsFiniteSet({found[p] : p \in P})
  BY <1>1, <1>3, ImageIsAsLarge
<1> QED
  BY <1>2, <1>3, <1>4

LEMMA MembersOfJoined ==
    ASSUME NEW S, NEW s \in Seq(S), NEW t \in Seq(S)
    PROVE  /\ \A n \in DOMAIN s : n \in DOMAIN (s \o t) /\ (s \o t)[n] = s[n]
           /\ \A n \in DOMAIN t : Len(s) + n \in DOMAIN (s \o t) /\ (s \o t)[Len(s) + n] = t[n]
           /\ \A n \in DOMAIN (s \o t) : \/ n \in DOMAIN s /\ (s \o t)[n] = s[n]
                                         \/ n - Len(s) \in DOMAIN t /\ (s \o t)[n] = t[n - Len(s)]
OBVIOUS

Member(f, s) == \E n \in DOMAIN s : f = s[n]

LEMMA MemberOfJoined ==
    ASSUME NEW s \in Seq(Findings), NEW t \in Seq(Findings), NEW f
    PROVE  Member(f, s \o t) <=> Member(f, s) \/ Member(f, t)
<1>1. /\ \A n \in DOMAIN s : n \in DOMAIN (s \o t) /\ (s \o t)[n] = s[n]
      /\ \A n \in DOMAIN t : Len(s) + n \in DOMAIN (s \o t) /\ (s \o t)[Len(s) + n] = t[n]
      /\ \A n \in DOMAIN (s \o t) : \/ n \in DOMAIN s /\ (s \o t)[n] = s[n]
                                    \/ n - Len(s) \in DOMAIN t /\ (s \o t)[n] = t[n - Len(s)]
  BY MembersOfJoined
<1> DEFINE st == s \o t
<1>2. /\ \A n \in DOMAIN s : n \in DOMAIN st /\ st[n] = s[n]
      /\ \A n \in DOMAIN t : Len(s) + n \in DOMAIN st /\ st[Len(s) + n] = t[n]
      /\ \A n \in DOMAIN st : \/ n \in DOMAIN s /\ st[n] = s[n]
                              \/ n - Len(s) \in DOMAIN t /\ st[n] = t[n - Len(s)]
  BY <1>1
<1> HIDE DEF st
<1>3. Member(f, st) <=> Member(f, s) \/ Member(f, t)
  BY <1>2, Zenon DEF Member
<1> QED
  BY <1>3 DEF st

\* More to be seen is more to expect TLS of.
LEMMA ExpectedMore ==
    ASSUME NEW a \in Seq(Observations), NEW b \in Seq(Observations), ToSet(a) \subseteq ToSet(b), NEW o, NEW f,
           Member(f, expected_tls_findings(o, a))
    PROVE  Member(f, expected_tls_findings(o, b))
<1> DEFINE failed == Finding("TLS-VALIDATION-FAILED", Target, o.address, o.error)
<1>1. \A i \in DOMAIN a : \E j \in DOMAIN b : b[j] = a[i]
  BY DEF ToSet
<1>2. expected_tls(o, a) => expected_tls(o, b)
  BY <1>1 DEF expected_tls
<1>3. expected_tls(o, a) /\ ~o.handshake /\ f = failed
  BY DEF expected_tls_findings, When, Member
<1>4. expected_tls_findings(o, b) = <<failed>>
  BY <1>2, <1>3 DEF expected_tls_findings, When
<1> HIDE DEF failed
<1>5. Member(failed, <<failed>>)
  BY DEF Member
<1> QED
  BY <1>3, <1>4, <1>5

LEMMA PushedMore ==
    ASSUME NEW a \in Seq(Observations), NEW b \in Seq(Observations), ToSet(a) \subseteq ToSet(b),
           NEW loop \in DOMAIN Loops, NEW o \in Observations, o.kind = Loops[loop], NEW f, Member(f, Pushed(loop, o, a))
    PROVE  Member(f, Pushed(loop, o, b))
<1>1. CASE loop # 7
  <2>1. loop \in 1 .. 6
    BY <1>1, LoopNames
  <2>2. Pushed(loop, o, a) = Pushed(loop, o, b)
    BY <2>1, PushedByLoop
  <2> QED
    BY <2>2
<1>2. CASE loop = 7
  <2> DEFINE ta == expected_tls_findings(o, a)
             tb == expected_tls_findings(o, b)
             w == tls_weakness_findings(o)
             v == validity_findings(o)
  <2>1. o \in TlsSeen
    BY <1>2, LoopNames, OfItsKind
  <2>2. ta \in Seq(Findings) /\ tb \in Seq(Findings) /\ w \in Seq(Findings) /\ v \in Seq(Findings)
    BY <2>1, TlsFindingsType
  <2>3. Pushed(loop, o, a) = ta \o w \o v /\ Pushed(loop, o, b) = tb \o w \o v
    BY <1>2, PushedByLoop
  <2>4. Member(f, ta) => Member(f, tb)
    BY ExpectedMore
  <2> HIDE DEF ta, tb, w, v
  <2>5. ta \o w \in Seq(Findings) /\ tb \o w \in Seq(Findings)
    BY <2>2, JoinedType
  <2>6. Member(f, ta \o w \o v)
    BY <2>3
  <2>7. Member(f, ta \o w) \/ Member(f, v)
    BY <2>2, <2>5, <2>6, MemberOfJoined
  <2>8. Member(f, tb \o w) \/ Member(f, v)
    BY <2>2, <2>4, <2>7, MemberOfJoined
  <2>9. Member(f, tb \o w \o v)
    BY <2>2, <2>5, <2>8, MemberOfJoined
  <2> QED
    BY <2>3, <2>9
<1> QED
  BY <1>1, <1>2

\* Whatever is seen besides, what some observations give rise to is found.
LEMMA FoundGrows ==
    ASSUME NEW a \in Seq(Observations), NEW b \in Seq(Observations), ToSet(a) \subseteq ToSet(b)
    PROVE  Found(a) \subseteq Found(b)
<1> SUFFICES ASSUME NEW f \in Found(a) PROVE f \in Found(b)
  OBVIOUS
<1>1. PICK x \in Visits(a) : \E n \in DOMAIN Pushed(x[1], a[x[2]], a) : f = Pushed(x[1], a[x[2]], a)[n]
  BY MemberOfFound
<1> DEFINE loop == x[1]
           o == a[x[2]]
<1>2. loop \in DOMAIN Loops /\ x[2] \in DOMAIN a /\ o \in Observations /\ o.kind = Loops[loop]
  BY VisitFacts DEF Visits
<1>3. PICK j \in DOMAIN b : b[j] = o
  BY <1>2 DEF ToSet
<1>4. Member(f, Pushed(loop, o, a))
  BY <1>1 DEF Member
<1> HIDE DEF loop, o
<1>5. Member(f, Pushed(loop, o, b))
  BY <1>2, <1>4, PushedMore
<1> DEFINE y == <<loop, j>>
<1>6. y \in Visits(b) /\ y[1] = loop /\ b[y[2]] = o
  BY <1>2, <1>3 DEF Visits
<1> HIDE DEF y
<1>7. PICK n \in DOMAIN Pushed(y[1], b[y[2]], b) : f = Pushed(y[1], b[y[2]], b)[n]
  BY <1>5, <1>6 DEF Member
<1> QED
  BY <1>6, <1>7, MemberOfFound

-----------------------------------------------------------------------------
(* What is retained, and how it is sorted                                  *)

\* Of each finding exactly one push is retained.
LEMMA RetainedFacts ==
    ASSUME NEW P, IsFiniteSet(P), P \subseteq [1 .. 3 -> Nat], NEW found \in [P -> Findings]
    PROVE  /\ Retained(found) \subseteq P
           /\ \A p, q \in Retained(found) : found[p] = found[q] => p = q
           /\ \A p \in P : \E q \in Retained(found) : found[q] = found[p]
<1>1. Retained(found) \subseteq P
  BY DEF Retained
<1>2. ASSUME NEW p \in Retained(found), NEW q \in Retained(found), found[p] = found[q] PROVE p = q
  <2>1. p \in [1 .. 3 -> Nat] /\ q \in [1 .. 3 -> Nat] /\ p \in DOMAIN found /\ q \in DOMAIN found
    BY <1>1
  <2>2. ~Smaller(p, q) /\ ~Smaller(q, p)
    BY <1>2, <2>1 DEF Retained
  <2> QED
    BY <2>1, <2>2, SmallerIsAnOrder
<1>3. ASSUME NEW p \in P PROVE \E q \in Retained(found) : found[q] = found[p]
  <2> DEFINE S == {q \in P : found[q] = found[p]}
             ahead == [q \in S |-> {r \in S : Smaller(r, q)}]
  <2>1. IsFiniteSet(S) /\ S # {}
    BY FS_Subset
  <2>2. Strict(S, ahead)
    <3>1. \A x \in S : ahead[x] \subseteq S /\ x \notin ahead[x]
      BY SmallerIsAnOrder
    <3>2. ASSUME NEW x \in S, NEW y \in S, NEW z \in S, x \in ahead[y], y \in ahead[z] PROVE x \in ahead[z]
      <4>1. Smaller(x, y) /\ Smaller(y, z)
        BY <3>2
      <4>2. x \in [1 .. 3 -> Nat] /\ y \in [1 .. 3 -> Nat] /\ z \in [1 .. 3 -> Nat]
        OBVIOUS
      <4>3. Smaller(x, z)
        BY <4>1, <4>2, SmallerIsAnOrder
      <4> QED
        BY <4>3
    <3> QED
      BY <3>1, <3>2 DEF Strict
  <2>3. PICK q \in S : ahead[q] = {}
    <3> HIDE DEF S, ahead
    <3> QED
      BY <2>1, <2>2, SomethingIsFirst
  <2>4. \A r \in P : Smaller(r, q) => found[r] # found[q]
    BY <2>3
  <2>5. q \in Retained(found)
    BY <2>4 DEF Retained
  <2> QED
    BY <2>5
<1> QED
  BY <1>1, <1>2, <1>3

\* The findings of a set that a sort puts before one of them.
Before(F) == [f \in F |-> {g \in F : Smaller(SortKey(g), SortKey(f))}]

LEMMA KeysAreAnOrder ==
    ASSUME NEW F, F \subseteq Findings
    PROVE  Strict(F, Before(F)) /\ Total(F, Before(F))
<1>1. \A f \in F : SortKey(f) \in [1 .. 5 -> Nat]
  BY KeyFacts
<1>2. \A f, g \in F : g \in Before(F)[f] <=> Smaller(SortKey(g), SortKey(f))
  BY DEF Before
<1>3. \A f \in F : Before(F)[f] \subseteq F
  BY DEF Before
<1>4. \A f \in F : f \notin Before(F)[f]
  BY <1>1, <1>2, SmallerIsAnOrder
<1>5. ASSUME NEW f \in F, NEW g \in F, NEW h \in F, f \in Before(F)[g], g \in Before(F)[h] PROVE f \in Before(F)[h]
  <2>1. Smaller(SortKey(f), SortKey(g)) /\ Smaller(SortKey(g), SortKey(h))
    BY <1>2, <1>5
  <2>2. Smaller(SortKey(f), SortKey(h))
    BY <1>1, <2>1, SmallerIsAnOrder
  <2> QED
    BY <1>2, <2>2
<1>6. ASSUME NEW f \in F, NEW g \in F PROVE f = g \/ f \in Before(F)[g] \/ g \in Before(F)[f]
  <2>1. SortKey(f) = SortKey(g) \/ Smaller(SortKey(f), SortKey(g)) \/ Smaller(SortKey(g), SortKey(f))
    BY <1>1, SmallerIsAnOrder
  <2>2. SortKey(f) = SortKey(g) => f = g
    BY KeyFacts
  <2> QED
    BY <1>2, <2>1, <2>2
<1>7. Strict(F, Before(F))
  BY <1>3, <1>4, <1>5 DEF Strict
<1>8. Total(F, Before(F))
  BY <1>6 DEF Total
<1> QED
  BY <1>7, <1>8

\* The n-th finding of a set, and the set in order.
Nth(F, n) == CHOOSE f \in F : Cardinality(Before(F)[f]) = n - 1
InOrder(F) == [n \in 1 .. Cardinality(F) |-> Nth(F, n)]

LEMMA NthFacts ==
    ASSUME NEW F, IsFiniteSet(F), F \subseteq Findings
    PROVE  /\ \A n \in 1 .. Cardinality(F) : Nth(F, n) \in F /\ Cardinality(Before(F)[Nth(F, n)]) = n - 1
           /\ \A f \in F : \E n \in 1 .. Cardinality(F) : f = Nth(F, n)
           /\ \A f \in F, n \in 1 .. Cardinality(F) : Cardinality(Before(F)[f]) = n - 1 => f = Nth(F, n)
<1>1. Strict(F, Before(F)) /\ Total(F, Before(F)) /\ Cardinality(F) \in Nat
  BY KeysAreAnOrder, FS_CardinalityType
<1>2. /\ \A f, g \in F : Cardinality(Before(F)[f]) = Cardinality(Before(F)[g]) => f = g
      /\ \A n \in 1 .. Cardinality(F) : \E f \in F : Cardinality(Before(F)[f]) = n - 1
  BY <1>1, EachPlaceIsTaken
<1>3. \A n \in 1 .. Cardinality(F) : Nth(F, n) \in F /\ Cardinality(Before(F)[Nth(F, n)]) = n - 1
  BY <1>2 DEF Nth
<1>4. \A f \in F, n \in 1 .. Cardinality(F) : Cardinality(Before(F)[f]) = n - 1 => f = Nth(F, n)
  BY <1>2, <1>3
<1>5. ASSUME NEW f \in F PROVE \E n \in 1 .. Cardinality(F) : f = Nth(F, n)
  <2> DEFINE c == Cardinality(Before(F)[f])
  <2>1. c \in Nat /\ c < Cardinality(F)
    BY <1>1, LaterHasMore
  <2>2. c + 1 \in 1 .. Cardinality(F) /\ c = (c + 1) - 1
    <3> HIDE DEF c
    <3> QED
      BY <1>1, <2>1
  <2>3. f = Nth(F, c + 1)
    BY <1>4, <2>2
  <2> QED
    BY <2>2, <2>3
<1> QED
  BY <1>3, <1>4, <1>5

\* Sorting what is retained puts the findings in order: no two have the same key.
LEMMA SortedFacts ==
    ASSUME NEW P, IsFiniteSet(P), P \subseteq [1 .. 3 -> Nat], NEW found \in [P -> Findings]
    PROVE  Sorted(found, Retained(found)) = InOrder({found[p] : p \in P})
<1> DEFINE kept == Retained(found)
           F == {found[p] : p \in P}
           key == [p \in kept |-> SortKey(found[p])]
           Sooner(p, q) == Smaller(key[p], key[q]) \/ (key[p] = key[q] /\ Smaller(p, q))
           ahead == [p \in kept |-> Cardinality({q \in kept : Sooner(q, p)})]
<1>1. /\ kept \subseteq P /\ \A p \in P : \E q \in kept : found[q] = found[p]
      /\ \A p, q \in kept : found[p] = found[q] => p = q
  BY RetainedFacts
<1>2. Sorted(found, kept) = [n \in 1 .. Cardinality(kept) |-> found[CHOOSE p \in kept : ahead[p] = n - 1]]
  BY DEF Sorted
<1>3. F = {found[p] : p \in kept}
  <2> HIDE DEF kept
  <2> QED
    BY <1>1
<1>4. IsFiniteSet(kept) /\ kept \subseteq DOMAIN found
  <2> HIDE DEF kept
  <2>1. kept \in SUBSET P /\ DOMAIN found = P
    BY <1>1
  <2> QED
    BY <2>1, FS_Subset
<1>5. IsFiniteSet(F) /\ Cardinality(F) = Cardinality(kept) /\ F \subseteq Findings
  <2> HIDE DEF kept
  <2>1. IsFiniteSet({found[p] : p \in kept}) /\ Cardinality({found[p] : p \in kept}) = Cardinality(kept)
    BY <1>1, <1>4, ImageIsAsLarge
  <2>2. F \subseteq Findings
    OBVIOUS
  <2> QED
    BY <1>3, <2>1, <2>2
<1>6. \A p \in kept : found[p] \in F /\ found[p] \in Findings
  BY <1>1
<1>7. ASSUME NEW p \in kept PROVE ahead[p] = Cardinality(Before(F)[found[p]])
  <2> DEFINE A == {q \in kept : Sooner(q, p)}
             B == {q \in kept : Smaller(SortKey(found[q]), SortKey(found[p]))}
  <2>1. ASSUME NEW q \in kept PROVE Sooner(q, p) <=> Smaller(SortKey(found[q]), SortKey(found[p]))
    <3>1. key[q] = SortKey(found[q]) /\ key[p] = SortKey(found[p])
      OBVIOUS
    <3>2. SortKey(found[q]) = SortKey(found[p]) => q = p
      BY <1>1, <1>6, KeyFacts
    <3>3. ~Smaller(p, p)
      <4>1. p \in [1 .. 3 -> Nat]
        BY <1>1
      <4> QED
        BY <4>1, SmallerIsAnOrder
    <3> HIDE DEF key, kept
    <3> QED
      BY <3>1, <3>2, <3>3
  <2>2. A = B
    <3> HIDE DEF Sooner, kept
    <3> QED
      BY <2>1
  <2>3. ahead[p] = Cardinality(A)
    OBVIOUS
  <2> HIDE DEF A, ahead, kept, F, key, Sooner
  <2>4. Before(F)[found[p]] = {found[q] : q \in B}
    <3>1. Before(F)[found[p]] = {g \in F : Smaller(SortKey(g), SortKey(found[p]))}
      BY <1>6 DEF Before
    <3>2. {g \in F : Smaller(SortKey(g), SortKey(found[p]))} = {found[q] : q \in B}
      BY <1>3
    <3> QED
      BY <3>1, <3>2
  <2>5. B \subseteq DOMAIN found /\ IsFiniteSet(B) /\ B \subseteq kept
    BY <1>4, FS_Subset
  <2>6. Cardinality({found[q] : q \in B}) = Cardinality(B)
    <3>1. \A x, y \in B : found[x] = found[y] => x = y
      BY <1>1, <2>5
    <3> HIDE DEF B
    <3> QED
      BY <2>5, <3>1, ImageIsAsLarge
  <2> QED
    BY <2>2, <2>3, <2>4, <2>6
<1> HIDE DEF kept, F, key, Sooner, ahead
<1>8. ASSUME NEW n \in 1 .. Cardinality(kept)
      PROVE  found[CHOOSE p \in kept : ahead[p] = n - 1] = Nth(F, n)
  <2>1. n \in 1 .. Cardinality(F)
    BY <1>5
  <2>2. Nth(F, n) \in F /\ Cardinality(Before(F)[Nth(F, n)]) = n - 1
    BY <1>5, <2>1, NthFacts
  <2>3. PICK q \in kept : found[q] = Nth(F, n)
    BY <1>3, <2>2
  <2>4. ahead[q] = n - 1
    BY <1>7, <2>2, <2>3
  <2> DEFINE p == CHOOSE p \in kept : ahead[p] = n - 1
  <2>5. p \in kept /\ ahead[p] = n - 1
    BY <2>4
  <2> HIDE DEF p
  <2>6. found[p] \in F /\ Cardinality(Before(F)[found[p]]) = n - 1
    BY <1>6, <1>7, <2>5
  <2>7. found[p] = Nth(F, n)
    BY <1>5, <2>1, <2>6, NthFacts
  <2> QED
    BY <2>7 DEF p
<1>9. Sorted(found, kept) = [n \in 1 .. Cardinality(F) |-> Nth(F, n)]
  BY <1>2, <1>5, <1>8
<1> QED
  BY <1>9 DEF InOrder, kept, F

\* The report has the findings, each once, in the order of their keys.
LEMMA GeneratedFacts ==
    ASSUME NEW observed \in Seq(Observations)
    PROVE  /\ generate_findings(observed) = InOrder(Found(observed))
           /\ ToSet(generate_findings(observed)) = Found(observed)
<1> DEFINE found == PushedAt(observed)
           F == Found(observed)
<1>1. IsFiniteSet(Places(observed)) /\ Places(observed) \subseteq [1 .. 3 -> Nat] /\ found \in [Places(observed) -> Findings]
  BY PlaceFacts
<1>2. generate_findings(observed) = InOrder(F)
  <2> HIDE DEF found
  <2>1. Sorted(found, Retained(found)) = InOrder({found[p] : p \in Places(observed)})
    BY <1>1, SortedFacts
  <2> QED
    BY <2>1 DEF generate_findings, Found, found
<1>3. IsFiniteSet(F) /\ F \subseteq Findings
  BY FoundIsFinite
<1> HIDE DEF F
<1>4. ToSet(InOrder(F)) = F
  <2>1. DOMAIN InOrder(F) = 1 .. Cardinality(F) /\ \A n \in 1 .. Cardinality(F) : InOrder(F)[n] = Nth(F, n)
    BY DEF InOrder
  <2>2. /\ \A n \in 1 .. Cardinality(F) : Nth(F, n) \in F
        /\ \A f \in F : \E n \in 1 .. Cardinality(F) : f = Nth(F, n)
    BY <1>3, NthFacts
  <2> QED
    BY <2>1, <2>2 DEF ToSet
<1> QED
  BY <1>2, <1>4 DEF F

-----------------------------------------------------------------------------
(* The score                                                               *)

LEMMA PointsFacts ==
    ASSUME NEW ds, IsFiniteSet(ds), \A d \in ds : d.points \in Nat
    PROVE  IsFiniteSet(Points(ds)) /\ Cardinality(Points(ds)) \in Nat
<1> DEFINE of == [d \in ds |-> {d} \X (1 .. d.points)]
<1>1. ASSUME NEW d \in ds PROVE IsFiniteSet(of[d])
  <2>1. IsFiniteSet({d}) /\ IsFiniteSet(1 .. d.points)
    BY RowIsFinite, FS_Singleton
  <2>2. IsFiniteSet({d} \X (1 .. d.points))
    BY <2>1, FS_Product
  <2> QED
    BY <2>2
<1>2. Points(ds) = UNION {of[d] : d \in ds}
  BY DEF Points
<1> HIDE DEF of
<1>3. IsFiniteSet(Points(ds))
  BY <1>1, <1>2, UnionIsFinite
<1> QED
  BY <1>3, FS_CardinalityType

LEMMA SeverityFacts == \A id : severity_points(Rank(id)) \in Nat
<1>1. severity_points(0) = 0 /\ severity_points(1) = 2 /\ severity_points(2) = 7 /\ severity_points(3) = 20
  BY DEF severity_points
<1>2. \A id : Rank(id) \in {0, 1, 2, 3}
  BY DEF Rank
<1> HIDE DEF severity_points, Rank
<1> QED
  BY <1>1, <1>2

LEMMA DeductionsFacts ==
    ASSUME NEW found, IsFiniteSet(ToSet(found))
    PROVE  IsFiniteSet(deductions(found)) /\ \A d \in deductions(found) : d.points \in Nat
<1> DEFINE S == {g \in ToSet(found) : severity_points(Rank(g.id)) > 0}
           of == [f \in S |-> [id |-> f.id, target |-> f.target, points |-> severity_points(Rank(f.id))]]
<1>1. deductions(found) = {of[f] : f \in S}
  BY DEF deductions
<1>2. \A f \in S : of[f].points \in Nat
  <2> SUFFICES ASSUME NEW f \in S PROVE of[f].points \in Nat
    OBVIOUS
  <2>1. of[f].points = severity_points(Rank(f.id))
    OBVIOUS
  <2> QED
    BY <2>1, SeverityFacts
<1>3. IsFiniteSet(S) /\ DOMAIN of = S
  BY FS_Subset
<1> HIDE DEF of, S
<1>4. IsFiniteSet({of[f] : f \in S})
  BY <1>3, ImageIsAsLarge
<1> QED
  BY <1>1, <1>2, <1>4

\* The score of more findings is no higher.
LEMMA ValueFalls ==
    ASSUME NEW found, NEW more, ToSet(found) \subseteq ToSet(more), IsFiniteSet(ToSet(more))
    PROVE  value(more) \in Nat /\ value(found) \in Nat /\ value(more) <= value(found)
<1> DEFINE a == Cardinality(Points(deductions(found)))
           b == Cardinality(Points(deductions(more)))
<1>1. IsFiniteSet(ToSet(found))
  BY FS_Subset
<1>2. a \in Nat /\ b \in Nat /\ IsFiniteSet(Points(deductions(more)))
  BY <1>1, DeductionsFacts, PointsFacts
<1>3. deductions(found) \subseteq deductions(more)
  BY DEF deductions
<1>4. Points(deductions(found)) \in SUBSET Points(deductions(more))
  BY <1>3 DEF Points
<1>5. a <= b
  BY <1>2, <1>4, FS_Subset
<1> HIDE DEF a, b
<1>6. \A n \in Nat : /\ Min({100, n}) \in {100, n} /\ Min({100, n}) <= 100 /\ Min({100, n}) <= n
  <2> SUFFICES ASSUME NEW n \in Nat PROVE Min({100, n}) \in {100, n} /\ Min({100, n}) <= 100 /\ Min({100, n}) <= n
    OBVIOUS
  <2> DEFINE S == {100, n}
  <2>1. S \subseteq Nat /\ S # {} /\ 100 \in S /\ n \in S
    OBVIOUS
  <2> HIDE DEF S
  <2>2. Min(S) \in S /\ \A m \in S : Min(S) <= m
    BY <2>1, LeastNatural
  <2> QED
    BY <2>1, <2>2 DEF S
<1> DEFINE x == Min({100, a})
           y == Min({100, b})
<1>7. /\ x \in {100, a} /\ x <= 100 /\ x <= a
      /\ y \in {100, b} /\ y <= 100 /\ y <= b
  BY <1>2, <1>6
<1>8. value(found) = 100 - x /\ value(more) = 100 - y
  BY DEF value, a, b
<1> HIDE DEF x, y
<1>9. x \in Nat /\ y \in Nat /\ x <= y
  BY <1>2, <1>5, <1>7
<1> QED
  BY <1>7, <1>8, <1>9

-----------------------------------------------------------------------------
(* The theorems                                                            *)

\* What arrived are observations.
TypeOK == arrived \in Seq(Observations)

\* Only observations arrive, one after the other (run_scan_inner).
THEOREM TypeCorrect == Spec => []TypeOK
<1>1. Init => TypeOK
  BY DEF Init, TypeOK
<1>2. TypeOK /\ [Next]_vars => TypeOK'
  BY DEF Next, Arrive, vars, TypeOK
<1> QED
  BY <1>1, <1>2, PTL DEF Spec

\* Two scans that saw the same things report the same findings in the same
\* order, whichever probe ended first (generate_findings).
THEOREM OrderDoesNotMatter == Spec => []SameInAnyOrder
<1>1. ASSUME TypeOK PROVE SameInAnyOrder
  <2>0. arrived \in Seq(Observations)
    BY <1>1 DEF TypeOK
  <2> SUFFICES ASSUME NEW other \in [DOMAIN arrived -> ToSet(arrived)], ToSet(other) = ToSet(arrived)
               PROVE  generate_findings(other) = generate_findings(arrived)
    BY DEF SameInAnyOrder
  <2>1. other \in Seq(Observations)
    <3>1. DOMAIN arrived = 1 .. Len(arrived) /\ Len(arrived) \in Nat /\ \A i \in 1 .. Len(arrived) : arrived[i] \in Observations
      BY <2>0
    <3>2. ToSet(arrived) \subseteq Observations
      BY <3>1 DEF ToSet
    <3>3. other \in [1 .. Len(arrived) -> Observations]
      BY <3>1, <3>2
    <3> QED
      BY <3>1, <3>3
  <2>2. Found(other) = Found(arrived)
    BY <2>0, <2>1, FoundGrows
  <2> QED
    BY <2>0, <2>1, <2>2, GeneratedFacts
<1> QED
  BY <1>1, TypeCorrect, PTL

\* No observation takes away a finding others gave rise to, raises the score or
\* lifts its class (generate_findings, calculate_exposure).
THEOREM MoreNeverHelps == Spec => SeeingMoreNeverHelps
<1> DEFINE found == generate_findings(arrived)
           more  == generate_findings(arrived')
           NoBetter == /\ ToSet(found) \subseteq ToSet(more)
                       /\ value(more) <= value(found)
                       /\ classification(value(found)) = "critical" => classification(value(more)) = "critical"
<1>1. ASSUME TypeOK, TypeOK', [Next]_vars PROVE [NoBetter]_vars
  <2>0. arrived \in Seq(Observations) /\ arrived' \in Seq(Observations)
    BY <1>1 DEF TypeOK
  <2>1. ToSet(arrived) \subseteq ToSet(arrived')
    <3>1. CASE UNCHANGED vars
      BY <3>1 DEF vars
    <3>2. ASSUME NEW o \in Observations, Arrive(o) PROVE ToSet(arrived) \subseteq ToSet(arrived')
      <4>1. arrived' = Append(arrived, o)
        BY <3>2 DEF Arrive
      <4>2. \A i \in DOMAIN arrived : i \in DOMAIN arrived' /\ arrived'[i] = arrived[i]
        BY <2>0, <4>1
      <4> QED
        BY <4>2 DEF ToSet
    <3> QED
      BY <1>1, <3>1, <3>2 DEF Next
  <2>2. ToSet(found) = Found(arrived) /\ ToSet(more) = Found(arrived') /\ IsFiniteSet(Found(arrived'))
    BY <2>0, GeneratedFacts, FoundIsFinite
  <2>3. ToSet(found) \subseteq ToSet(more)
    BY <2>0, <2>1, <2>2, FoundGrows
  <2> HIDE DEF found, more
  <2>4. value(more) \in Nat /\ value(found) \in Nat /\ value(more) <= value(found)
    BY <2>2, <2>3, ValueFalls
  <2>5. classification(value(found)) = "critical" => classification(value(more)) = "critical"
    <3> DEFINE v == value(found)
               w == value(more)
    <3>1. v \in Nat /\ w \in Nat /\ w <= v
      BY <2>4
    <3> HIDE DEF v, w
    <3>2. classification(v) = "critical" => v < 35
      BY <3>1 DEF classification
    <3>3. w < 35 => classification(w) = "critical"
      BY <3>1 DEF classification
    <3>4. v < 35 => w < 35
      BY <3>1
    <3> QED
      BY <3>2, <3>3, <3>4 DEF v, w
  <2> QED
    BY <2>3, <2>4, <2>5
<1>2. ASSUME TypeOK, TypeOK', [Next]_vars
      PROVE  [LET f == generate_findings(arrived)
                  m == generate_findings(arrived')
              IN  /\ ToSet(f) \subseteq ToSet(m)
                  /\ value(m) <= value(f)
                  /\ classification(value(f)) = "critical" => classification(value(m)) = "critical"]_vars
  BY <1>1, <1>2
<1> QED
  BY <1>2, TypeCorrect, PTL DEF Spec, SeeingMoreNeverHelps

\* A report has every finding once, the more severe before the less, and those
\* of a severity by rule, target and evidence.
EachOnceInOrder ==
    LET findings == generate_findings(arrived)
    IN  \A i, j \in DOMAIN findings : i < j => Smaller(SortKey(findings[i]), SortKey(findings[j]))

\* generate_findings de-duplicates and sorts: nothing that stays is left in the
\* order it was pushed in, and nothing is there twice.
THEOREM ReportedInOrder == Spec => []EachOnceInOrder
<1>1. ASSUME TypeOK PROVE EachOnceInOrder
  <2> DEFINE F == Found(arrived)
             findings == generate_findings(arrived)
  <2>0. arrived \in Seq(Observations)
    BY <1>1 DEF TypeOK
  <2>1. IsFiniteSet(F) /\ F \subseteq Findings /\ Strict(F, Before(F)) /\ Total(F, Before(F))
    BY <2>0, FoundIsFinite, KeysAreAnOrder
  <2>2. findings = InOrder(F)
    BY <2>0, GeneratedFacts
  <2> HIDE DEF F, findings
  <2>3. DOMAIN findings = 1 .. Cardinality(F) /\ \A n \in 1 .. Cardinality(F) : findings[n] = Nth(F, n)
    BY <2>2 DEF InOrder
  <2> SUFFICES ASSUME NEW i \in DOMAIN findings, NEW j \in DOMAIN findings, i < j
               PROVE  Smaller(SortKey(findings[i]), SortKey(findings[j]))
    BY DEF EachOnceInOrder, findings
  <2> DEFINE f == findings[i]
             g == findings[j]
  <2>4. /\ f \in F /\ Cardinality(Before(F)[f]) = i - 1 /\ g \in F /\ Cardinality(Before(F)[g]) = j - 1
        /\ i \in Nat /\ j \in Nat
    BY <2>1, <2>3, NthFacts
  <2> HIDE DEF f, g
  <2>5. f # g
    BY <2>4
  <2>6. g \notin Before(F)[f]
    <3>1. ASSUME g \in Before(F)[f] PROVE Cardinality(Before(F)[g]) < Cardinality(Before(F)[f])
      BY <2>1, <2>4, <3>1, LaterHasMore
    <3> QED
      BY <2>4, <3>1
  <2>7. f \in Before(F)[g]
    BY <2>1, <2>4, <2>5, <2>6 DEF Total
  <2> QED
    BY <2>4, <2>7 DEF Before, f, g
<1> QED
  BY <1>1, TypeCorrect, PTL
=============================================================================
