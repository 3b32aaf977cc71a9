------------------------------ MODULE DnsProofs ------------------------------
(***************************************************************************)
(* What the parts of the DNS analysis keep, whatever servers and resolvers *)
(* answer and whenever they are stopped, for every value of the limits.    *)
(***************************************************************************)
EXTENDS DnsAnalysis, TLAPS, SequenceTheorems, FiniteSetTheorems, WellFoundedInduction

-----------------------------------------------------------------------------
(* The least, the greatest, and the first few.                             *)

\* A set of naturals with a member has a least one.
LEMMA LeastNatural ==
    ASSUME NEW S, S \subseteq Nat, S # {}
    PROVE  Min(S) \in S /\ \A m \in S : Min(S) <= m
<1>1. IsWellFoundedOn(OpToRel(<, Nat), Nat)
  BY NatLessThanWellFounded
<1>2. PICK x \in S : \A y \in S : ~ (<<y, x>> \in OpToRel(<, Nat))
  BY <1>1, WFMin
<1>3. ASSUME NEW y \in S PROVE x <= y
  <2>1. ~(y < x)
    BY <1>2 DEF OpToRel
  <2> QED
    BY <2>1
<1> QED
  BY <1>3 DEF Min

\* The place of an element in an order: ahead[x] is what comes before it.
Ordered(S, ahead) ==
    /\ \A x, y \in S : x # y => x \in ahead[y] \/ y \in ahead[x]
    /\ \A x \in S : ahead[x] \subseteq S /\ x \notin ahead[x]
    /\ \A x, y, z \in S : x \in ahead[y] /\ y \in ahead[z] => x \in ahead[z]

LEMMA RanksDiffer ==
    ASSUME NEW S, IsFiniteSet(S), NEW ahead, Ordered(S, ahead), NEW x \in S
    PROVE  /\ Cardinality(ahead[x]) \in Nat /\ Cardinality(ahead[x]) < Cardinality(S)
           /\ IsFiniteSet(ahead[x]) /\ Cardinality(S) \in Nat
           /\ \A y \in S : x \in ahead[y] => Cardinality(ahead[x]) < Cardinality(ahead[y])
<1>1. \A T \in SUBSET S : /\ IsFiniteSet(T) /\ Cardinality(T) \in Nat /\ Cardinality(T) <= Cardinality(S)
  BY FS_Subset, FS_CardinalityType
<1>2. ahead[x] \in SUBSET S /\ x \notin ahead[x] /\ Cardinality(S) \in Nat
  BY FS_CardinalityType DEF Ordered
<1>3. ASSUME NEW T \in SUBSET S, ahead[x] \subseteq T, x \in T
      PROVE  Cardinality(ahead[x]) < Cardinality(T)
  <2>1. IsFiniteSet(T) /\ ahead[x] \in SUBSET T /\ ahead[x] # T
    BY <1>1, <1>2, <1>3
  <2>2. /\ Cardinality(ahead[x]) <= Cardinality(T)
        /\ Cardinality(ahead[x]) # Cardinality(T)
    BY <2>1, FS_Subset
  <2> QED
    BY <1>1, <1>2, <2>2
<1>4. Cardinality(ahead[x]) < Cardinality(S)
  BY <1>2, <1>3
<1>5. ASSUME NEW y \in S, x \in ahead[y] PROVE Cardinality(ahead[x]) < Cardinality(ahead[y])
  <2>1. ahead[y] \in SUBSET S /\ ahead[x] \subseteq ahead[y]
    BY <1>5 DEF Ordered
  <2> QED
    BY <1>3, <1>5, <2>1
<1> QED
  BY <1>1, <1>2, <1>4, <1>5

\* The first n of an order are n at most.
LEMMA FirstsAreFew ==
    ASSUME NEW S, IsFiniteSet(S), NEW ahead, Ordered(S, ahead), NEW n \in Nat
    PROVE  /\ IsFiniteSet({x \in S : Cardinality(ahead[x]) < n})
           /\ Cardinality({x \in S : Cardinality(ahead[x]) < n}) <= n
<1> DEFINE T == {x \in S : Cardinality(ahead[x]) < n}
           f == [x \in T |-> Cardinality(ahead[x]) + 1]
<1>1. f \in [T -> 1 .. n]
  BY RanksDiffer
<1>2. \A x, y \in T : f[x] = f[y] => x = y
  <2> SUFFICES ASSUME NEW x \in T, NEW y \in T, f[x] = f[y], x # y PROVE FALSE
    OBVIOUS
  <2>1. x \in ahead[y] \/ y \in ahead[x]
    BY DEF Ordered
  <2>2. Cardinality(ahead[x]) = Cardinality(ahead[y]) /\ Cardinality(ahead[x]) \in Nat
    BY RanksDiffer
  <2>3. x \in ahead[y] => Cardinality(ahead[x]) < Cardinality(ahead[y])
    BY RanksDiffer
  <2>4. y \in ahead[x] => Cardinality(ahead[y]) < Cardinality(ahead[x])
    BY RanksDiffer
  <2> QED
    BY <2>1, <2>2, <2>3, <2>4
<1>3. f \in Injection(T, 1 .. n)
  BY <1>1, <1>2 DEF Injection, IsInjective
<1>4. IsFiniteSet(1 .. n) /\ Cardinality(1 .. n) = n
  BY FS_Interval
<1> HIDE DEF f, T
<1>5. IsFiniteSet(T) /\ Cardinality(T) <= Cardinality(1 .. n)
  BY <1>3, <1>4, FS_Injection
<1> QED
  BY <1>4, <1>5 DEF T

\* What a function makes of a finite set is no more.
LEMMA ImageIsFinite ==
    ASSUME NEW f, IsFiniteSet(DOMAIN f)
    PROVE  /\ IsFiniteSet({f[x] : x \in DOMAIN f})
           /\ Cardinality({f[x] : x \in DOMAIN f}) <= Cardinality(DOMAIN f)
<1> DEFINE S == DOMAIN f
           T == {f[x] : x \in S}
           g == [x \in S |-> f[x]]
<1>1. g \in Surjection(S, T)
  BY DEF Surjection
<1> HIDE DEF g
<1> QED
  BY <1>1, FS_Surjection

\* The first n of a finite set of numbers.
LEMMA LeastFacts ==
    ASSUME NEW S, S \subseteq Nat, IsFiniteSet(S), NEW n \in Nat
    PROVE  /\ Least(n, S) \subseteq S /\ IsFiniteSet(Least(n, S))
           /\ Cardinality(Least(n, S)) \in Nat /\ Cardinality(Least(n, S)) <= n
<1> DEFINE ahead == [x \in S |-> {y \in S : y < x}]
<1>1. Ordered(S, ahead)
  BY DEF Ordered
<1>2. Least(n, S) = {x \in S : Cardinality(ahead[x]) < n}
  BY DEF Least
<1> HIDE DEF ahead
<1>3. IsFiniteSet(Least(n, S)) /\ Cardinality(Least(n, S)) <= n
  BY <1>1, <1>2, FirstsAreFew
<1> QED
  BY <1>3, FS_CardinalityType DEF Least

-----------------------------------------------------------------------------
(* The chain of aliases                                                    *)

\* The chain after i hops at most.
Walk(walk, edges, n) ==
    walk = [i \in 0 .. n |-> IF i = 0 THEN <<>> ELSE Follow(walk[i - 1], edges)]

LEMMA WalksExist ==
    ASSUME NEW edges, NEW n \in Nat
    PROVE  \E walk : Walk(walk, edges, n)
<1> DEFINE Walks(m) == \E walk : Walk(walk, edges, m)
           Missing == {m \in Nat : ~Walks(m)}
<1>1. Walks(0)
  <2> DEFINE walk == [i \in 0 .. 0 |-> <<>>]
  <2>1. walk = [i \in 0 .. 0 |-> IF i = 0 THEN <<>> ELSE Follow(walk[i - 1], edges)]
    OBVIOUS
  <2> QED
    BY <2>1 DEF Walk
<1>2. ASSUME NEW m \in Nat, Walks(m) PROVE Walks(m + 1)
  <2>1. PICK walk : walk = [i \in 0 .. m |-> IF i = 0 THEN <<>> ELSE Follow(walk[i - 1], edges)]
    BY <1>2 DEF Walk
  <2> DEFINE further == [i \in 0 .. m + 1 |-> IF i = m + 1 THEN Follow(walk[m], edges) ELSE walk[i]]
  <2>2. ASSUME NEW i \in 0 .. m + 1
        PROVE  further[i] = IF i = 0 THEN <<>> ELSE Follow(further[i - 1], edges)
    <3>1. CASE i = m + 1
      <4>1. i # 0 /\ i - 1 = m /\ m \in 0 .. m + 1 /\ m # m + 1
        BY <3>1
      <4>2. further[i - 1] = walk[m] /\ further[i] = Follow(walk[m], edges)
        BY <3>1, <4>1
      <4> QED
        BY <4>1, <4>2
    <3>2. CASE i \in 1 .. m
      <4>1. i # 0 /\ i - 1 \in 0 .. m + 1 /\ i - 1 # m + 1 /\ i # m + 1 /\ i \in 0 .. m
        BY <3>2
      <4>2. further[i - 1] = walk[i - 1] /\ further[i] = walk[i]
        BY <4>1
      <4>3. walk[i] = Follow(walk[i - 1], edges)
        BY <2>1, <4>1
      <4> QED
        BY <4>1, <4>2, <4>3
    <3>3. CASE i = 0
      <4>1. i \in 0 .. m /\ i # m + 1
        BY <3>3
      <4>2. walk[i] = <<>>
        BY <2>1, <3>3, <4>1
      <4> QED
        BY <3>3, <4>1, <4>2
    <3> QED
      BY <3>1, <3>2, <3>3
  <2>3. further = [i \in 0 .. m + 1 |-> further[i]]
    OBVIOUS
  <2> HIDE DEF further
  <2>4. further = [i \in 0 .. m + 1 |-> IF i = 0 THEN <<>> ELSE Follow(further[i - 1], edges)]
    BY <2>2, <2>3
  <2> QED
    BY <2>4 DEF Walk
<1> HIDE DEF Walks
<1>3. Missing = {}
  <2> SUFFICES ASSUME Missing # {} PROVE FALSE
    OBVIOUS
  <2>1. Min(Missing) \in Missing /\ \A m \in Missing : Min(Missing) <= m
    BY LeastNatural
  <2> DEFINE least == Min(Missing)
  <2>2. least \in Nat /\ ~Walks(least) /\ \A m \in Nat : ~Walks(m) => least <= m
    BY <2>1
  <2> HIDE DEF least, Missing
  <2>3. least # 0
    BY <1>1, <2>2
  <2>4. least - 1 \in Nat /\ Walks(least - 1) /\ least - 1 + 1 = least
    BY <2>2, <2>3
  <2> QED
    BY <1>2, <2>2, <2>4
<1> QED
  BY <1>3 DEF Walks

LEMMA ChainOfWalk ==
    ASSUME NEW edges
    PROVE  \E walk : /\ Walk(walk, edges, MaxCnameChainHops)
                     /\ ordered_cname_chain(edges) = walk[MaxCnameChainHops]
<1>1. MaxCnameChainHops \in Nat
  BY DnsLimitsAssumption
<1>2. \E walk : Walk(walk, edges, MaxCnameChainHops)
  BY <1>1, WalksExist
<1> DEFINE walk == CHOOSE w : w = [i \in 0 .. MaxCnameChainHops |-> IF i = 0 THEN <<>> ELSE Follow(w[i - 1], edges)]
<1>3. walk = [i \in 0 .. MaxCnameChainHops |-> IF i = 0 THEN <<>> ELSE Follow(walk[i - 1], edges)]
  BY <1>2 DEF Walk
<1>4. ordered_cname_chain(edges) = walk[MaxCnameChainHops]
  BY DEF ordered_cname_chain
<1> HIDE DEF walk
<1> QED
  BY <1>3, <1>4 DEF Walk

Hop == [from : Nat, to : Nat]

\* A path of aliases from the queried name; it may go on from its end.
Path(chain, edges) ==
    /\ chain \in Seq(Hop) /\ \A i \in 1 .. Len(chain) : chain[i] \in edges
    /\ Len(chain) > 0 => chain[1].from = Hostname
    /\ \A i \in 2 .. Len(chain) : chain[i].from = chain[i - 1].to
    /\ \A i, j \in 1 .. Len(chain) : i < j => chain[i].from # chain[j].from

Ended(chain, edges) ==
    \/ \A edge \in edges : edge.from # Current(chain)
    \/ \E i \in 1 .. Len(chain) : chain[i].from = Current(chain)

LEMMA LeastEdgeFacts ==
    ASSUME NEW edges, edges \subseteq Hop, edges # {}
    PROVE  LeastEdge(edges) \in edges
<1> DEFINE targets == {edge.to : edge \in edges}
<1>1. targets \subseteq Nat /\ targets # {}
  BY DEF Hop
<1>2. Min(targets) \in targets /\ \A m \in targets : Min(targets) <= m
  <2> HIDE DEF targets
  <2> QED
    BY <1>1, LeastNatural
<1>3. PICK least \in edges : least.to = Min(targets)
  BY <1>2
<1>4. \A other \in edges : least.to <= other.to
  BY <1>2, <1>3
<1> QED
  BY <1>4 DEF LeastEdge

LEMMA FollowFacts ==
    ASSUME NEW edges, edges \subseteq Hop, NEW chain, Path(chain, edges)
    PROVE  /\ Path(Follow(chain, edges), edges)
           /\ \/ Follow(chain, edges) = chain /\ Ended(chain, edges)
              \/ Len(Follow(chain, edges)) = Len(chain) + 1
<1> DEFINE current == Current(chain)
           next == Aliases(current, edges)
           n == Len(chain)
<1>1. n \in Nat /\ chain \in Seq(Hop)
  BY DEF Path
<1>2. ToSet(chain) = {chain[i] : i \in 1 .. n}
  BY <1>1 DEF ToSet
<1>3. CASE next = {} \/ \E hop \in ToSet(chain) : hop.from = current
  <2>1. Follow(chain, edges) = chain
    BY <1>3 DEF Follow
  <2>2. next = {} => \A edge \in edges : edge.from # current
    BY DEF Aliases
  <2>3. (\E hop \in ToSet(chain) : hop.from = current) => \E i \in 1 .. n : chain[i].from = current
    BY <1>2
  <2> QED
    BY <1>3, <2>1, <2>2, <2>3 DEF Ended
<1>4. CASE next # {} /\ ~ \E hop \in ToSet(chain) : hop.from = current
  <2> DEFINE hop == LeastEdge(next)
             longer == Append(chain, hop)
  <2>1. Follow(chain, edges) = longer
    BY <1>4 DEF Follow
  <2>2. next \subseteq edges /\ \A edge \in next : edge.from = current
    BY DEF Aliases
  <2>3. hop \in next
    BY <1>4, <2>2, LeastEdgeFacts
  <2>4. hop \in edges /\ hop \in Hop /\ hop.from = current
    BY <2>2, <2>3
  <2>5. \A i \in 1 .. n : chain[i].from # current
    BY <1>2, <1>4
  <2>6. n > 0 => current = chain[n].to
    BY <1>1 DEF Current, Last
  <2>7. n = 0 => current = Hostname
    BY <1>1 DEF Current
  <2> HIDE DEF hop, current, n
  <2>8. longer \in Seq(Hop) /\ Len(longer) = n + 1 /\ longer[n + 1] = hop /\ \A i \in 1 .. n : longer[i] = chain[i]
    BY <1>1, <2>4 DEF n
  <2> HIDE DEF longer
  <2>9. \A i \in 1 .. n + 1 : longer[i] \in edges
    BY <1>1, <2>4, <2>8 DEF Path, n
  <2>10. longer[1].from = Hostname
    BY <1>1, <2>4, <2>7, <2>8 DEF Path, n
  <2>11. \A i \in 2 .. n + 1 : longer[i].from = longer[i - 1].to
    <3> SUFFICES ASSUME NEW i \in 2 .. n + 1 PROVE longer[i].from = longer[i - 1].to
      OBVIOUS
    <3>1. CASE i = n + 1
      <4>1. n > 0 /\ i - 1 = n /\ longer[i - 1] = chain[n]
        BY <1>1, <2>8, <3>1
      <4> QED
        BY <2>4, <2>6, <2>8, <3>1, <4>1
    <3>2. CASE i \in 2 .. n
      <4>1. longer[i] = chain[i] /\ longer[i - 1] = chain[i - 1]
        BY <1>1, <2>8, <3>2
      <4> QED
        BY <3>2, <4>1 DEF Path, n
    <3> QED
      BY <1>1, <3>1, <3>2
  <2>12. \A i, j \in 1 .. n + 1 : i < j => longer[i].from # longer[j].from
    <3> SUFFICES ASSUME NEW i \in 1 .. n + 1, NEW j \in 1 .. n + 1, i < j PROVE longer[i].from # longer[j].from
      OBVIOUS
    <3>1. n \in Nat
      BY <1>1 DEF n
    <3>2. i \in 1 .. n /\ longer[i] = chain[i]
      BY <2>8, <3>1
    <3>3. CASE j = n + 1
      BY <2>4, <2>5, <2>8, <3>2, <3>3
    <3>4. CASE j \in 1 .. n
      <4>1. chain[i].from # chain[j].from
        BY <3>2, <3>4 DEF Path, n
      <4> QED
        BY <2>8, <3>2, <3>4, <4>1
    <3> QED
      BY <3>1, <3>3, <3>4
  <2>13. Path(longer, edges)
    BY <1>1, <2>8, <2>9, <2>10, <2>11, <2>12 DEF Path
  <2> QED
    BY <2>1, <2>8, <2>13 DEF n
<1> QED
  BY <1>3, <1>4

\* The chain is a path, as long as it may be, or it ended.
LEMMA ChainIsAPath ==
    ASSUME NEW edges, edges \subseteq Hop
    PROVE  LET chain == ordered_cname_chain(edges)
           IN  /\ Path(chain, edges) /\ Len(chain) <= MaxCnameChainHops
               /\ Len(chain) = MaxCnameChainHops \/ Ended(chain, edges)
<1>1. MaxCnameChainHops \in Nat
  BY DnsLimitsAssumption
<1>2. PICK walk : /\ Walk(walk, edges, MaxCnameChainHops)
                  /\ ordered_cname_chain(edges) = walk[MaxCnameChainHops]
  BY ChainOfWalk
<1> DEFINE Good(i) == /\ Path(walk[i], edges) /\ Len(walk[i]) <= i
                      /\ Len(walk[i]) = i \/ Ended(walk[i], edges)
           Bad == {i \in 0 .. MaxCnameChainHops : ~Good(i)}
<1>3. walk[0] = <<>> /\ \A i \in 1 .. MaxCnameChainHops : walk[i] = Follow(walk[i - 1], edges)
  BY <1>1, <1>2 DEF Walk
<1>4. Good(0)
  BY <1>3 DEF Path
<1>5. ASSUME NEW i \in 1 .. MaxCnameChainHops, Good(i - 1) PROVE Good(i)
  <2> DEFINE chain == walk[i - 1]
  <2>1. walk[i] = Follow(chain, edges) /\ i - 1 \in Nat
    BY <1>1, <1>3
  <2>2. Path(chain, edges) /\ Len(chain) <= i - 1 /\ (Len(chain) = i - 1 \/ Ended(chain, edges)) /\ Len(chain) \in Nat
    BY <1>5 DEF Path
  <2> HIDE DEF chain
  <2>3. /\ Path(walk[i], edges)
        /\ (walk[i] = chain /\ Ended(chain, edges)) \/ Len(walk[i]) = Len(chain) + 1
    BY <2>1, <2>2, FollowFacts
  <2>4. CASE walk[i] = chain /\ Ended(chain, edges)
    BY <2>1, <2>2, <2>3, <2>4
  <2>5. CASE Len(walk[i]) = Len(chain) + 1 /\ ~Ended(chain, edges)
    BY <2>1, <2>2, <2>3, <2>5
  <2>6. Ended(chain, edges) => walk[i] = chain
    <3> SUFFICES ASSUME Ended(chain, edges) PROVE Follow(chain, edges) = chain
      BY <2>1
    <3>1. chain \in Seq(Hop)
      BY <2>2 DEF Path
    <3>2. ToSet(chain) = {chain[j] : j \in 1 .. Len(chain)}
      BY <3>1 DEF ToSet
    <3> QED
      BY <3>2 DEF Follow, Ended, Aliases
  <2> QED
    BY <2>3, <2>4, <2>5, <2>6
<1> HIDE DEF Good
<1>6. Bad = {}
  <2> SUFFICES ASSUME Bad # {} PROVE FALSE
    OBVIOUS
  <2>1. Bad \subseteq Nat
    BY <1>1
  <2> DEFINE least == Min(Bad)
  <2>2. least \in Bad /\ \A m \in Bad : least <= m
    BY <2>1, LeastNatural
  <2>3. least \in 0 .. MaxCnameChainHops /\ ~Good(least) /\ \A m \in 0 .. MaxCnameChainHops : ~Good(m) => least <= m
    BY <2>2
  <2> HIDE DEF least, Bad
  <2>4. least # 0
    BY <1>4, <2>3
  <2>5. least \in 1 .. MaxCnameChainHops /\ Good(least - 1)
    BY <1>1, <2>3, <2>4
  <2> QED
    BY <1>5, <2>3, <2>5
<1>7. Good(MaxCnameChainHops)
  BY <1>1, <1>6
<1> QED
  BY <1>1, <1>2, <1>7 DEF Good

-----------------------------------------------------------------------------
(* The baseline                                                            *)

Lookups == query_types \o SpecialNames
DnsRecord == [type : ToSet(query_types) \cup {"SOA"}, owner : Nat, value : Nat]
Host == [owner : Nat, ip : Nat, source : {"A", "AAAA"}]
Shown == {i \in DOMAIN answered : answered[i].type # "SOA"}

BaselineParts ==
    /\ target \in [explicit : BOOLEAN, only : {"any", "4", "6"}, fetch : BOOLEAN]
    /\ target.explicit => queries = <<>>
    /\ Len(queries) \in 0 .. 10 /\ queries = SubSeq(Lookups, 11 - Len(queries), 10)
    /\ answered \in Seq(DnsRecord)
    /\ observed \in [records : SUBSET Nat, hosts : SUBSET Host, edges : SUBSET Hop,
                     errors : SUBSET {"dns", "timeout", "truncated"}]
    /\ IsFiniteSet(observed.hosts) /\ observed.records \subseteq Shown

\* What the loop keeps of the answers: every alias, and every record unless it says that it cut some.
Collected ==
    /\ observed.edges = Hops
    /\ "truncated" \in observed.errors \/ observed.records = Shown
    /\ Len(queries) < Len(SpecialNames) => Cardinality(observed.records) <= MaxDnsRecords

Settled ==
    /\ dns.state \in {"none", "explicit", "observed"} /\ (dns.state # "none" => queries = <<>>)
    /\ Cardinality(dns.records) <= MaxDnsRecords /\ Len(dns.chain) <= MaxCnameChainHops
    /\ Cardinality(dns.hosts) <= MaxResolvedHosts /\ dns.policy \in {"unasked", "unknown", "available", "absent"}

BaselineSafe == BaselineParts /\ Collected /\ Settled /\ ChainIsPath /\ CutIsTold

LEMMA MemberOfRow == ASSUME NEW S, NEW row \in Seq(S), NEW i \in DOMAIN row PROVE row[i] \in S
OBVIOUS

LEMMA LookupNames ==
    /\ Lookups \in Seq(ToSet(query_types) \cup ToSet(SpecialNames)) /\ Len(Lookups) = 10
    /\ Len(query_types) = 7 /\ Len(SpecialNames) = 3
    /\ \A i \in 1 .. 7 : Lookups[i] = query_types[i] /\ query_types[i] \in ToSet(query_types)
<1> DEFINE owners == ToSet(query_types) \cup ToSet(SpecialNames)
<1>1. query_types \in Seq(ToSet(query_types)) /\ Len(query_types) = 7
  BY DEF query_types, ToSet
<1>2. SpecialNames \in Seq(ToSet(SpecialNames)) /\ Len(SpecialNames) = 3
  BY DEF SpecialNames, ToSet
<1> HIDE DEF query_types, SpecialNames
<1>3. query_types \in Seq(owners) /\ SpecialNames \in Seq(owners)
  BY <1>1, <1>2
<1> HIDE DEF owners
<1>4. Lookups \in Seq(owners) /\ Len(Lookups) = 10 /\ \A i \in 1 .. 7 : Lookups[i] = query_types[i]
  <2>1. /\ Lookups \in Seq(owners) /\ Len(Lookups) = Len(query_types) + Len(SpecialNames)
        /\ \A i \in 1 .. Len(query_types) + Len(SpecialNames) :
              Lookups[i] = IF i <= Len(query_types) THEN query_types[i] ELSE SpecialNames[i - Len(query_types)]
    BY <1>3, ConcatProperties DEF Lookups
  <2> HIDE DEF Lookups
  <2> QED
    BY <1>1, <1>2, <2>1
<1>5. \A i \in 1 .. 7 : query_types[i] \in ToSet(query_types)
  <2>1. \A i \in DOMAIN query_types : query_types[i] \in ToSet(query_types)
    BY <1>1, MemberOfRow
  <2>2. DOMAIN query_types = 1 .. 7
    BY <1>1
  <2> QED
    BY <2>1, <2>2
<1> QED
  BY <1>1, <1>2, <1>4, <1>5 DEF owners

\* The lookups still to make are the last of them.
LEMMA NextLookup ==
    ASSUME BaselineParts, queries # <<>>
    PROVE  /\ Len(Tail(queries)) = Len(queries) - 1 /\ Len(queries) \in 1 .. 10
           /\ Tail(queries) = SubSeq(Lookups, 11 - Len(Tail(queries)), 10)
           /\ Len(queries) > Len(SpecialNames) => Head(queries) \in ToSet(query_types)
<1> DEFINE owners == ToSet(query_types) \cup ToSet(SpecialNames)
           n == Len(queries)
<1>1. Lookups \in Seq(owners) /\ Len(Lookups) = 10
  BY LookupNames
<1>2. n \in 0 .. 10 /\ queries = SubSeq(Lookups, 11 - n, 10)
  BY DEF BaselineParts
<1> HIDE DEF owners, n
<1>3. n # 0
  <2> SUFFICES ASSUME n = 0 PROVE FALSE
    OBVIOUS
  <2>1. SubSeq(Lookups, 11, 10) = <<>>
    BY SubSeqEmpty
  <2> QED
    BY <1>2, <2>1
<1>4. 11 - n \in 1 .. 10 /\ n \in 1 .. 10
  BY <1>2, <1>3
<1>5. Head(queries) = Lookups[11 - n] /\ Tail(queries) = SubSeq(Lookups, 11 - n + 1, 10)
  BY <1>1, <1>2, <1>4, HeadTailOfSubSeq
<1>6. \A i \in 11 - n .. 10 : Lookups[i] \in owners
  <2>1. \A i \in 1 .. 10 : Lookups[i] \in owners
    BY <1>1, LenProperties
  <2>2. 11 - n .. 10 \subseteq 1 .. 10
    BY <1>4
  <2> QED
    BY <2>1, <2>2
<1>7. queries \in Seq(owners)
  BY <1>2, <1>4, <1>6, SubSeqProperties
<1>8. Len(Tail(queries)) = n - 1
  BY <1>7, HeadTailProperties DEF n
<1>9. 11 - n + 1 = 11 - (n - 1)
  BY <1>4
<1>10. n > 3 => 11 - n \in 1 .. 7
  BY <1>4
<1> QED
  BY <1>4, <1>5, <1>8, <1>9, <1>10, LookupNames DEF n

\* The aliases that were answered.
LEMMA HopsOf ==
    ASSUME BaselineParts
    PROVE  /\ Hops = {[from |-> answered[i].owner, to |-> answered[i].value] : i \in {j \in DOMAIN answered : answered[j].type = "CNAME"}}
           /\ Hops \subseteq Hop
<1>1. ToSet(answered) = {answered[i] : i \in DOMAIN answered}
  BY DEF ToSet
<1>2. Hops = {[from |-> answered[i].owner, to |-> answered[i].value] : i \in {j \in DOMAIN answered : answered[j].type = "CNAME"}}
  BY <1>1 DEF Hops, Kept
<1>3. answered \in Seq(DnsRecord)
  BY DEF BaselineParts
<1>4. \A i \in DOMAIN answered : answered[i].owner \in Nat /\ answered[i].value \in Nat
  <2>1. \A i \in DOMAIN answered : answered[i] \in DnsRecord
    BY <1>3, LenProperties
  <2>2. \A r \in DnsRecord : r.owner \in Nat /\ r.value \in Nat
    BY DEF DnsRecord
  <2> QED
    BY <2>1, <2>2
<1> QED
  BY <1>2, <1>4 DEF Hop

LEMMA ReplyFacts ==
    ASSUME NEW type \in ToSet(query_types), NEW reply \in Replies[type]
    PROVE  reply \in Seq(DnsRecord)
BY BaselineAssumption DEF DnsRecord

LEMMA FewPlaces == ASSUME NEW m \in Nat PROVE IsFiniteSet(1 .. m)
<1>1. 1 \in Int /\ m \in Int
  OBVIOUS
<1> QED
  BY <1>1, FS_Interval

LEMMA CollectIsSafe ==
    ASSUME BaselineParts, Collected, Len(queries) > Len(SpecialNames),
           NEW type \in ToSet(query_types), NEW reply \in Replies[type],
           observed' = Collect(reply), answered' = answered \o reply
    PROVE  /\ answered' \in Seq(DnsRecord)
           /\ observed' \in [records : SUBSET Nat, hosts : SUBSET Host, edges : SUBSET Hop,
                             errors : SUBSET {"dns", "timeout", "truncated"}]
           /\ IsFiniteSet(observed'.hosts) /\ observed'.records \subseteq Shown'
           /\ observed'.edges = Hops'
           /\ "truncated" \in observed'.errors \/ observed'.records = Shown'
<1> DEFINE n == Len(answered)
           added == {n + i : i \in {j \in DOMAIN reply : reply[j].type # "SOA"}}
           hosts == {[owner |-> r.owner, ip |-> r.value, source |-> r.type] : r \in Kept(reply, "A") \cup Kept(reply, "AAAA")}
           edges == {[from |-> r.owner, to |-> r.value] : r \in Kept(reply, "CNAME")}
<1>1. /\ reply \in Seq(DnsRecord) /\ answered \in Seq(DnsRecord) /\ n \in Nat /\ Len(reply) \in Nat
      /\ DOMAIN reply = 1 .. Len(reply) /\ DOMAIN answered = 1 .. n
  BY ReplyFacts DEF BaselineParts
<1>2. /\ answered' \in Seq(DnsRecord) /\ Len(answered') = n + Len(reply) /\ DOMAIN answered' = 1 .. n + Len(reply)
      /\ \A i \in 1 .. n + Len(reply) : answered'[i] = IF i <= n THEN answered[i] ELSE reply[i - n]
  <2>1. /\ answered \o reply \in Seq(DnsRecord) /\ Len(answered \o reply) = n + Len(reply)
        /\ \A i \in 1 .. n + Len(reply) : (answered \o reply)[i] = IF i <= n THEN answered[i] ELSE reply[i - n]
    BY <1>1, ConcatProperties
  <2> QED
    BY <2>1
<1>3. /\ \A i \in 1 .. n : answered'[i] = answered[i]
      /\ \A j \in 1 .. Len(reply) : answered'[n + j] = reply[j]
      /\ \A i \in 1 .. n + Len(reply) : i \in 1 .. n \/ \E j \in 1 .. Len(reply) : i = n + j
  <2>1. ASSUME NEW j \in 1 .. Len(reply) PROVE answered'[n + j] = reply[j]
    <3>1. n + j \in 1 .. n + Len(reply) /\ ~(n + j <= n) /\ n + j - n = j
      BY <1>1
    <3> QED
      BY <1>2, <3>1
  <2>2. ASSUME NEW i \in 1 .. n + Len(reply), i \notin 1 .. n PROVE \E j \in 1 .. Len(reply) : i = n + j
    <3>1. i - n \in 1 .. Len(reply) /\ i = n + (i - n)
      BY <1>1, <2>2
    <3> QED
      BY <3>1
  <2>3. ASSUME NEW i \in 1 .. n PROVE answered'[i] = answered[i]
    BY <1>1, <1>2
  <2> QED
    BY <2>1, <2>2, <2>3
<1>4. /\ observed \in [records : SUBSET Nat, hosts : SUBSET Host, edges : SUBSET Hop, errors : SUBSET {"dns", "timeout", "truncated"}]
      /\ IsFiniteSet(observed.hosts)
      /\ observed.records \subseteq Shown /\ observed.edges = Hops
      /\ "truncated" \in observed.errors \/ observed.records = Shown
  BY DEF BaselineParts, Collected
<1> HIDE DEF n, added, hosts, edges
<1>5. observed' = [observed EXCEPT !.records = @ \cup added, !.hosts = @ \cup hosts, !.edges = @ \cup edges]
  BY DEF Collect, added, hosts, edges, n
<1>6. /\ observed'.records = observed.records \cup added /\ observed'.hosts = observed.hosts \cup hosts
      /\ observed'.edges = observed.edges \cup edges /\ observed'.errors = observed.errors
  BY <1>4, <1>5
<1>7. \A type2 : Kept(reply, type2) = {reply[j] : j \in {k \in 1 .. Len(reply) : reply[k].type = type2}}
  BY <1>1 DEF Kept, ToSet
<1>8. \A j \in 1 .. Len(reply) : reply[j].owner \in Nat /\ reply[j].value \in Nat
  <2>1. \A j \in 1 .. Len(reply) : reply[j] \in DnsRecord
    BY <1>1, LenProperties
  <2>2. \A r \in DnsRecord : r.owner \in Nat /\ r.value \in Nat
    BY DEF DnsRecord
  <2> QED
    BY <2>1, <2>2
<1>9. added \subseteq Nat
  BY <1>1 DEF added
<1>10. Shown' = Shown \cup added
  <2>1. Shown' = {i \in 1 .. n + Len(reply) : answered'[i].type # "SOA"}
    BY <1>2 DEF Shown
  <2>2. Shown = {i \in 1 .. n : answered[i].type # "SOA"}
    BY <1>1 DEF Shown
  <2>3. added = {n + j : j \in {k \in 1 .. Len(reply) : reply[k].type # "SOA"}}
    BY <1>1 DEF added
  <2>4. Shown \subseteq Shown'
    BY <1>1, <1>3, <2>1, <2>2
  <2>5. added \subseteq Shown'
    BY <1>1, <1>3, <2>1, <2>3
  <2>6. Shown' \subseteq Shown \cup added
    BY <1>1, <1>3, <2>1, <2>2, <2>3
  <2> QED
    BY <2>4, <2>5, <2>6
<1>11. Hops' = Hops \cup edges
  <2>1. ToSet(answered') = ToSet(answered) \cup ToSet(reply)
    <3>1. \A x : x \in ToSet(answered') <=> \E i \in 1 .. n + Len(reply) : x = answered'[i]
      BY <1>2 DEF ToSet
    <3>2. \A x : x \in ToSet(answered) <=> \E i \in 1 .. n : x = answered[i]
      BY <1>1 DEF ToSet
    <3>3. \A x : x \in ToSet(reply) <=> \E i \in 1 .. Len(reply) : x = reply[i]
      BY <1>1 DEF ToSet
    <3>4. \A i \in 1 .. n : i \in 1 .. n + Len(reply)
      BY <1>1
    <3>5. \A j \in 1 .. Len(reply) : n + j \in 1 .. n + Len(reply)
      BY <1>1
    <3>6. ASSUME NEW x \in ToSet(answered) PROVE x \in ToSet(answered')
      <4>1. PICK i \in 1 .. n : x = answered[i]
        BY <3>2
      <4>2. x = answered'[i]
        BY <1>3, <4>1
      <4> QED
        BY <3>1, <3>4, <4>2
    <3>7. ASSUME NEW x \in ToSet(reply) PROVE x \in ToSet(answered')
      <4>1. PICK j \in 1 .. Len(reply) : x = reply[j]
        BY <3>3
      <4>2. n + j \in 1 .. n + Len(reply)
        BY <3>5
      <4>3. answered'[n + j] = reply[j]
        BY <1>3
      <4> QED
        BY <3>1, <4>1, <4>2, <4>3
    <3>8. ASSUME NEW x \in ToSet(answered') PROVE x \in ToSet(answered) \cup ToSet(reply)
      <4>1. PICK i \in 1 .. n + Len(reply) : x = answered'[i]
        BY <3>1
      <4>2. CASE i \in 1 .. n
        <5>1. x = answered[i]
          BY <1>3, <4>1, <4>2
        <5> QED
          BY <3>2, <4>2, <5>1
      <4>3. ASSUME NEW j \in 1 .. Len(reply), i = n + j PROVE x \in ToSet(reply)
        <5>1. x = reply[j]
          BY <1>3, <4>1, <4>3
        <5> QED
          BY <3>3, <5>1
      <4> QED
        BY <1>3, <4>2, <4>3
    <3> QED
      BY <3>6, <3>7, <3>8
  <2>2. /\ Hops = {[from |-> r.owner, to |-> r.value] : r \in Kept(answered, "CNAME")}
        /\ Hops' = {[from |-> r.owner, to |-> r.value] : r \in Kept(answered', "CNAME")}
    BY DEF Hops
  <2>3. Kept(answered', "CNAME") = Kept(answered, "CNAME") \cup Kept(reply, "CNAME")
    BY <2>1 DEF Kept
  <2> QED
    BY <2>2, <2>3 DEF edges
<1>12. hosts \subseteq Host /\ IsFiniteSet(hosts)
  <2>0. \A r \in Kept(reply, "A") \cup Kept(reply, "AAAA") :
            r.owner \in Nat /\ r.value \in Nat /\ r.type \in {"A", "AAAA"}
    <3>1. \A r \in Kept(reply, "A") : r.owner \in Nat /\ r.value \in Nat /\ r.type = "A"
      BY <1>7, <1>8
    <3>2. \A r \in Kept(reply, "AAAA") : r.owner \in Nat /\ r.value \in Nat /\ r.type = "AAAA"
      BY <1>7, <1>8
    <3> QED
      BY <3>1, <3>2
  <2>1. hosts \subseteq Host
    <3> SUFFICES ASSUME NEW h \in hosts PROVE h \in Host
      OBVIOUS
    <3>1. PICK r \in Kept(reply, "A") \cup Kept(reply, "AAAA") : h = [owner |-> r.owner, ip |-> r.value, source |-> r.type]
      BY DEF hosts
    <3> QED
      BY <2>0, <3>1 DEF Host
  <2>2. IsFiniteSet(1 .. Len(reply))
    <3>1. Len(reply) \in Nat
      BY <1>1
    <3> QED
      BY <3>1, FewPlaces
  <2> DEFINE f == [j \in 1 .. Len(reply) |-> [owner |-> reply[j].owner, ip |-> reply[j].value, source |-> reply[j].type]]
  <2>3. hosts \subseteq {f[j] : j \in 1 .. Len(reply)}
    BY <1>7 DEF hosts
  <2>4. DOMAIN f = 1 .. Len(reply)
    OBVIOUS
  <2>5. IsFiniteSet({f[j] : j \in 1 .. Len(reply)})
    <3> HIDE DEF f
    <3> QED
      BY <2>2, <2>4, ImageIsFinite
  <2> QED
    BY <2>1, <2>3, <2>5, FS_Subset
<1>13. edges \subseteq Hop
  BY <1>7, <1>8 DEF edges, Hop
<1>14. IsFiniteSet(observed'.hosts)
  <2>1. IsFiniteSet(observed.hosts \cup hosts)
    BY <1>4, <1>12, FS_Union
  <2> QED
    BY <1>6, <2>1
<1> QED
  BY <1>2, <1>4, <1>5, <1>6, <1>9, <1>10, <1>11, <1>12, <1>13, <1>14

LEMMA BaselineConstants == MaxDnsRecords \in Nat /\ MaxResolvedHosts \in Nat /\ MaxCnameChainHops \in Nat
BY BaselineAssumption, DnsLimitsAssumption

\* Before the observation is put together, nothing is said of it.
LEMMA UnobservedIsSafe ==
    ASSUME BaselineParts', Collected', dns' = dns, Settled, queries # <<>>
    PROVE  BaselineSafe'
<1>1. dns.state = "none"
  BY DEF Settled
<1> QED
  BY <1>1 DEF BaselineSafe, Settled, ChainIsPath, CutIsTold

LEMMA BaselineInitIsSafe == ASSUME BaselineInit PROVE BaselineSafe
<1>1. /\ answered = <<>> /\ observed = Nothing /\ dns = NoObservation
      /\ target \in [explicit : BOOLEAN, only : {"any", "4", "6"}, fetch : BOOLEAN]
      /\ queries = <<>> \/ queries = Lookups
      /\ target.explicit => queries = <<>>
  BY DEF BaselineInit, Lookups
<1>2. Len(queries) \in 0 .. 10 /\ queries = SubSeq(Lookups, 11 - Len(queries), 10)
  <2>1. Lookups \in Seq(ToSet(query_types) \cup ToSet(SpecialNames)) /\ Len(Lookups) = 10
    BY LookupNames
  <2>2. SubSeq(Lookups, 1, 10) = Lookups
    BY <2>1, SubSeqFull
  <2>3. SubSeq(Lookups, 11, 10) = <<>>
    BY SubSeqEmpty
  <2>4. CASE queries = <<>>
    BY <2>3, <2>4
  <2>5. CASE queries = Lookups
    <3>1. Len(queries) = 10
      BY <2>1, <2>5
    <3>2. 11 - Len(queries) = 1 /\ Len(queries) \in 0 .. 10
      BY <3>1
    <3> QED
      BY <2>2, <2>5, <3>2
  <2> QED
    BY <1>1, <2>4, <2>5
<1>3. IsFiniteSet({}) /\ Cardinality({}) = 0
  BY FS_EmptySet
<1>4. Shown = {} /\ Hops = {}
  BY <1>1 DEF Shown, Hops, Kept, ToSet
<1>5. BaselineParts
  <2>1. observed \in [records : SUBSET Nat, hosts : SUBSET Host, edges : SUBSET Hop, errors : SUBSET {"dns", "timeout", "truncated"}]
    BY <1>1 DEF Nothing
  <2>2. IsFiniteSet(observed.hosts) /\ observed.records \subseteq Shown
    BY <1>1, <1>3 DEF Nothing
  <2>3. answered \in Seq(DnsRecord)
    BY <1>1
  <2> QED
    BY <1>1, <1>2, <2>1, <2>2, <2>3 DEF BaselineParts
<1>6. Collected
  BY <1>1, <1>3, <1>4, BaselineConstants DEF Collected, Nothing
<1>7. Settled /\ ChainIsPath /\ CutIsTold
  BY <1>1, <1>3, BaselineConstants DEF Settled, ChainIsPath, CutIsTold, NoObservation
<1> QED
  BY <1>5, <1>6, <1>7 DEF BaselineSafe

LEMMA LookupTypeIsSafe == ASSUME BaselineSafe, LookupType PROVE BaselineSafe'
<1>1. /\ Len(queries) > 3 /\ queries # <<>> /\ queries' = Tail(queries) /\ target' = target /\ dns' = dns
      /\ Len(queries) > Len(SpecialNames) /\ ~target.explicit
  <2>1. Len(queries) > Len(SpecialNames) /\ Len(SpecialNames) = 3 /\ Len(<<>>) = 0
    BY LookupNames DEF LookupType
  <2>2. queries # <<>>
    BY <2>1
  <2> QED
    BY <2>1, <2>2 DEF LookupType, BaselineSafe, BaselineParts
<1>2. BaselineParts /\ Collected /\ Settled
  BY DEF BaselineSafe
<1>3. /\ Len(queries') = Len(queries) - 1 /\ Len(queries) \in 1 .. 10
      /\ queries' = SubSeq(Lookups, 11 - Len(queries'), 10) /\ Head(queries) \in ToSet(query_types)
  BY <1>1, <1>2, NextLookup
<1>4. Len(queries') \in 0 .. 10 /\ ~(Len(queries') < Len(SpecialNames))
  <2>1. Len(SpecialNames) = 3
    BY LookupNames
  <2>2. \A n \in 1 .. 10 : n > 3 => n - 1 \in 0 .. 10 /\ ~(n - 1 < 3)
    OBVIOUS
  <2>3. Len(queries) \in 1 .. 10 /\ Len(queries) > 3
    BY <1>1, <1>3
  <2>4. Len(queries) - 1 \in 0 .. 10 /\ ~(Len(queries) - 1 < 3)
    BY <2>2, <2>3
  <2> QED
    BY <1>3, <2>1, <2>4, Zenon
<1> SUFFICES BaselineParts' /\ Collected'
  BY <1>1, <1>2, UnobservedIsSafe
<1>5. CASE UNCHANGED <<answered, observed>>
  BY <1>1, <1>2, <1>3, <1>4, <1>5 DEF BaselineParts, Collected, Shown, Hops, Kept
<1>6. ASSUME NEW reply \in Replies[Head(queries)], observed' = Collect(reply), answered' = answered \o reply
      PROVE  BaselineParts' /\ Collected'
  <2>1. /\ answered' \in Seq(DnsRecord)
        /\ observed' \in [records : SUBSET Nat, hosts : SUBSET Host, edges : SUBSET Hop,
                             errors : SUBSET {"dns", "timeout", "truncated"}]
        /\ IsFiniteSet(observed'.hosts) /\ observed'.records \subseteq Shown'
        /\ observed'.edges = Hops'
        /\ "truncated" \in observed'.errors \/ observed'.records = Shown'
    BY <1>1, <1>2, <1>3, <1>6, CollectIsSafe
  <2> QED
    BY <1>1, <1>2, <1>3, <1>4, <2>1 DEF BaselineParts, Collected
<1>7. ASSUME NEW error \in {"dns", "timeout"}, observed' = [observed EXCEPT !.errors = @ \cup {error}], UNCHANGED answered
      PROVE  BaselineParts' /\ Collected'
  <2>1. observed \in [records : SUBSET Nat, hosts : SUBSET Host, edges : SUBSET Hop, errors : SUBSET {"dns", "timeout", "truncated"}]
    BY <1>2 DEF BaselineParts
  <2>2. /\ observed' \in [records : SUBSET Nat, hosts : SUBSET Host, edges : SUBSET Hop, errors : SUBSET {"dns", "timeout", "truncated"}]
        /\ observed'.records = observed.records /\ observed'.hosts = observed.hosts /\ observed'.edges = observed.edges
        /\ observed'.errors = observed.errors \cup {error}
    BY <1>7, <2>1
  <2>3. Shown' = Shown /\ Hops' = Hops
    BY <1>7 DEF Shown, Hops, Kept
  <2> QED
    BY <1>1, <1>2, <1>3, <1>4, <1>7, <2>2, <2>3 DEF BaselineParts, Collected
<1> QED
  BY <1>5, <1>6, <1>7 DEF LookupType

LEMMA CutIsSafe ==
    ASSUME BaselineParts, observed.edges = Hops, "truncated" \in observed.errors \/ observed.records = Shown
    PROVE  /\ Cut \in [records : SUBSET Nat, hosts : SUBSET Host, edges : SUBSET Hop, errors : SUBSET {"dns", "timeout", "truncated"}]
           /\ Cut.hosts = observed.hosts /\ Cut.edges = Hops /\ Cut.records \subseteq Shown
           /\ "truncated" \in Cut.errors \/ Cut.records = Shown
           /\ Cardinality(Cut.records) <= MaxDnsRecords
<1>1. /\ observed \in [records : SUBSET Nat, hosts : SUBSET Host, edges : SUBSET Hop, errors : SUBSET {"dns", "timeout", "truncated"}]
      /\ observed.records \subseteq Shown /\ answered \in Seq(DnsRecord)
  BY DEF BaselineParts
<1>2. IsFiniteSet(observed.records) /\ Cardinality(observed.records) \in Nat
  <2>1. DOMAIN answered = 1 .. Len(answered) /\ Len(answered) \in Nat
    BY <1>1
  <2>2. IsFiniteSet(DOMAIN answered)
    BY <2>1, FS_Interval
  <2>3. observed.records \subseteq DOMAIN answered
    BY <1>1 DEF Shown
  <2> QED
    BY <2>2, <2>3, FS_Subset, FS_CardinalityType
<1>3. CASE Cardinality(observed.records) <= MaxDnsRecords
  BY <1>1, <1>3 DEF Cut
<1>4. CASE ~(Cardinality(observed.records) <= MaxDnsRecords)
  <2> DEFINE least == Least(MaxDnsRecords, observed.records)
  <2>1. least \subseteq observed.records /\ Cardinality(least) <= MaxDnsRecords
    BY <1>1, <1>2, BaselineConstants, LeastFacts
  <2>2. Cut = [observed EXCEPT !.records = least, !.errors = @ \cup {"truncated"}]
    BY <1>4 DEF Cut
  <2> HIDE DEF least
  <2> QED
    BY <1>1, <2>1, <2>2
<1> QED
  BY <1>3, <1>4

LEMMA LookupTextIsSafe == ASSUME BaselineSafe, LookupText PROVE BaselineSafe'
<1>1. /\ queries # <<>> /\ queries' = Tail(queries) /\ target' = target /\ dns' = dns /\ answered' = answered
      /\ Len(queries) <= 3 /\ observed' = IF Len(queries) = 3 THEN Cut ELSE observed
  BY LookupNames DEF LookupText
<1>2. BaselineParts /\ Collected /\ Settled /\ ~target.explicit
  BY <1>1 DEF BaselineSafe, BaselineParts
<1>3. /\ Len(queries') = Len(queries) - 1 /\ Len(queries) \in 1 .. 10
      /\ queries' = SubSeq(Lookups, 11 - Len(queries'), 10)
  BY <1>1, <1>2, NextLookup
<1>4. Shown' = Shown /\ Hops' = Hops
  BY <1>1 DEF Shown, Hops, Kept
<1> SUFFICES BaselineParts' /\ Collected'
  BY <1>1, <1>2, UnobservedIsSafe
<1>5. Len(SpecialNames) = 3 /\ Len(queries') \in 0 .. 10
  <2>1. \A n \in 1 .. 10 : n - 1 \in 0 .. 10
    OBVIOUS
  <2>2. Len(queries) - 1 \in 0 .. 10
    BY <1>3, <2>1
  <2> QED
    BY <1>3, <2>2, LookupNames, Zenon
<1>6. CASE Len(queries) = 3
  <2>1. observed' = Cut
    BY <1>1, <1>6
  <2>2. observed.edges = Hops /\ ("truncated" \in observed.errors \/ observed.records = Shown)
    BY <1>2 DEF Collected
  <2>3. /\ observed' \in [records : SUBSET Nat, hosts : SUBSET Host, edges : SUBSET Hop, errors : SUBSET {"dns", "timeout", "truncated"}]
        /\ observed'.hosts = observed.hosts /\ observed'.edges = Hops /\ observed'.records \subseteq Shown
        /\ "truncated" \in observed'.errors \/ observed'.records = Shown
        /\ Cardinality(observed'.records) <= MaxDnsRecords
    BY <1>2, <2>1, <2>2, CutIsSafe
  <2>4. BaselineParts'
    BY <1>1, <1>2, <1>3, <1>4, <1>5, <2>3 DEF BaselineParts
  <2>5. Collected'
    BY <1>4, <2>3 DEF Collected
  <2> QED
    BY <2>4, <2>5
<1>7. CASE Len(queries) < 3
  <2>1. observed' = observed
    BY <1>1, <1>7
  <2>2. Cardinality(observed.records) <= MaxDnsRecords
    BY <1>2, <1>5, <1>7 DEF Collected
  <2>3. BaselineParts'
    BY <1>1, <1>2, <1>3, <1>4, <1>5, <2>1 DEF BaselineParts
  <2>4. Collected'
    BY <1>2, <1>4, <2>1, <2>2 DEF Collected
  <2> QED
    BY <2>3, <2>4
<1> QED
  BY <1>1, <1>3, <1>6, <1>7

\* The order of the hosts has no two in one place.
LEMMA HostsAreOrdered ==
    ASSUME NEW S, S \subseteq Host
    PROVE  Ordered(S, [h \in S |-> {g \in S : Before(g, h)}])
<1> DEFINE ahead == [h \in S |-> {g \in S : Before(g, h)}]
<1>1. \A h \in Host : h.owner \in Nat /\ h.ip \in Nat /\ h.source \in {"A", "AAAA"}
  BY DEF Host
<1>2. \A x, y \in Host : x # y => x.owner # y.owner \/ x.ip # y.ip \/ x.source # y.source
  BY DEF Host
<1>3. \A x, y \in S : x # y => Before(x, y) \/ Before(y, x)
  BY <1>1, <1>2 DEF Before
<1>4. \A x \in S : ~Before(x, x)
  BY <1>1 DEF Before
<1>5. \A x, y, z \in S : Before(x, y) /\ Before(y, z) => Before(x, z)
  BY <1>1 DEF Before
<1>6. \A x, y \in S : x \in ahead[y] <=> Before(x, y)
  OBVIOUS
<1>7. \A x \in S : ahead[x] \subseteq S
  OBVIOUS
<1> HIDE DEF ahead
<1> QED
  BY <1>3, <1>4, <1>5, <1>6, <1>7 DEF Ordered

LEMMA FewHosts ==
    ASSUME NEW S, S \subseteq Host, IsFiniteSet(S)
    PROVE  Cardinality({h \in S : Cardinality({g \in S : Before(g, h)}) < MaxResolvedHosts}) <= MaxResolvedHosts
<1> DEFINE ahead == [h \in S |-> {g \in S : Before(g, h)}]
<1>1. Ordered(S, ahead)
  BY HostsAreOrdered
<1>2. {h \in S : Cardinality({g \in S : Before(g, h)}) < MaxResolvedHosts} = {h \in S : Cardinality(ahead[h]) < MaxResolvedHosts}
  OBVIOUS
<1> HIDE DEF ahead
<1> QED
  BY <1>1, <1>2, BaselineConstants, FirstsAreFew

\* A path follows as many names as it has hops.
LEMMA NoNameTwice ==
    ASSUME NEW edges, NEW chain, Path(chain, edges)
    PROVE  Cardinality({chain[i].from : i \in 1 .. Len(chain)}) = Len(chain)
<1> DEFINE n == Len(chain)
           owners == {chain[i].from : i \in 1 .. n}
           f == [i \in 1 .. n |-> chain[i].from]
<1>1. n \in Nat
  BY DEF Path
<1>2. \A i, j \in 1 .. n : i # j => chain[i].from # chain[j].from
  <2> SUFFICES ASSUME NEW i \in 1 .. n, NEW j \in 1 .. n, i # j PROVE chain[i].from # chain[j].from
    OBVIOUS
  <2>1. i < j \/ j < i
    BY <1>1
  <2> QED
    BY <2>1 DEF Path
<1> HIDE DEF n
<1>3. f \in Surjection(1 .. n, owners)
  BY DEF Surjection, n
<1>4. f \in Injection(1 .. n, owners)
  BY <1>2 DEF Injection, IsInjective, n
<1>5. IsFiniteSet(1 .. n) /\ Cardinality(1 .. n) = n
  BY <1>1, FS_Interval
<1> HIDE DEF f, owners
<1>6. Cardinality(owners) = Cardinality(1 .. n)
  BY <1>3, <1>4, <1>5, FS_Surjection
<1> QED
  BY <1>5, <1>6 DEF owners, n

LEMMA AssembleIsSafe == ASSUME BaselineSafe, Assemble PROVE BaselineSafe'
<1> DEFINE shown == {answered[i] : i \in observed.records}
           records == {[type |-> r.type, value |-> r.value] : r \in shown}
           hosts == {h \in observed.hosts : Cardinality({g \in observed.hosts : Before(g, h)}) < MaxResolvedHosts}
           spf == {r.value : r \in {x \in records : x.type = "TXT"}} \cap Spf
           chain == ordered_cname_chain(observed.edges)
<1>1. /\ queries = <<>> /\ dns.state = "none" /\ UNCHANGED <<target, queries, answered, observed, special>>
      /\ \E policy \in {"unasked", "unknown", "available", "absent"} :
            dns' = [state |-> "observed", records |-> records, hosts |-> hosts, chain |-> chain, spf |-> spf,
                    mx |-> \E r \in records : r.type = "MX", dmarc |-> special[1], policy |-> policy,
                    errors |-> observed.errors]
  BY DEF Assemble
<1>2. BaselineParts /\ Collected
  BY DEF BaselineSafe
<1>3. /\ observed.records \subseteq Shown /\ observed.hosts \subseteq Host /\ IsFiniteSet(observed.hosts)
      /\ observed.edges = Hops /\ Hops \subseteq Hop /\ answered \in Seq(DnsRecord)
      /\ "truncated" \in observed.errors \/ observed.records = Shown
  BY <1>2, HopsOf DEF BaselineParts, Collected
<1> DEFINE mx == \E r \in records : r.type = "MX"
<1> HIDE DEF shown, records, hosts, spf, chain, mx
<1>4. /\ dns'.state = "observed" /\ dns'.records = records /\ dns'.hosts = hosts /\ dns'.chain = chain
      /\ dns'.spf = spf /\ dns'.errors = observed.errors /\ dns'.policy \in {"unasked", "unknown", "available", "absent"}
      /\ dns'.mx = mx
  BY <1>1 DEF mx
<1>5. Cardinality(records) <= MaxDnsRecords
  <2> DEFINE f == [i \in observed.records |-> [type |-> answered[i].type, value |-> answered[i].value]]
  <2>1. DOMAIN f = observed.records /\ records = {f[i] : i \in DOMAIN f}
    BY DEF records, shown
  <2>2. DOMAIN answered = 1 .. Len(answered) /\ Len(answered) \in Nat
    BY <1>3
  <2>3. IsFiniteSet(1 .. Len(answered))
    BY <2>2, FS_Interval
  <2>4. observed.records \subseteq 1 .. Len(answered)
    BY <1>3, <2>2 DEF Shown
  <2>5. IsFiniteSet(observed.records)
    BY <2>3, <2>4, FS_Subset
  <2>6. Len(<<>>) = 0 /\ Len(SpecialNames) = 3
    BY LookupNames
  <2>7. Cardinality(observed.records) <= MaxDnsRecords
    BY <1>1, <1>2, <2>6 DEF Collected
  <2> HIDE DEF f
  <2>8. IsFiniteSet(records) /\ Cardinality(records) <= Cardinality(observed.records)
    BY <2>1, <2>5, ImageIsFinite
  <2> QED
    BY <2>5, <2>7, <2>8, BaselineConstants, FS_CardinalityType
<1>6. Cardinality(hosts) <= MaxResolvedHosts
  BY <1>3, FewHosts DEF hosts
<1>7. /\ Path(chain, Hops) /\ Len(chain) <= MaxCnameChainHops
      /\ Len(chain) = MaxCnameChainHops \/ Ended(chain, Hops)
  BY <1>3, ChainIsAPath DEF chain
<1>8. Hops' = Hops /\ Shown' = Shown
  BY <1>1 DEF Hops, Kept, Shown
<1>9. Settled'
  BY <1>1, <1>4, <1>5, <1>6, <1>7 DEF Settled
<1>10. ChainIsPath'
  <2> DEFINE n == Len(chain)
             followed == {chain[i].from : i \in 1 .. n}
             end == IF n = 0 THEN Hostname ELSE chain[n].to
  <2>1. n \in Nat /\ DOMAIN chain = 1 .. n
    BY <1>7 DEF Path
  <2>2. n > 0 => chain[1].from = Hostname
    BY <1>7 DEF Path
  <2>3. \A i \in 2 .. n : chain[i].from = chain[i - 1].to
    BY <1>7 DEF Path
  <2>4. Cardinality(followed) = n
    BY <1>7, NoNameTwice
  <2>5. ToSet(chain) \subseteq Hops
    BY <1>7, <2>1 DEF Path, ToSet
  <2>6. Current(chain) = end
    BY <1>7 DEF Path, Current, Last
  <2>7. n = MaxCnameChainHops \/ end \in followed \/ \A hop \in Hops : hop.from # end
    <3> HIDE DEF end
    <3> QED
      BY <1>7, <2>6 DEF Ended
  <2> HIDE DEF end, followed, n
  <2>8. /\ n > 0 => chain[1].from = Hostname
        /\ \A i \in 2 .. n : chain[i].from = chain[i - 1].to
        /\ Cardinality(followed) = n /\ ToSet(chain) \subseteq Hops'
        /\ n = MaxCnameChainHops \/ end \in followed \/ \A hop \in Hops' : hop.from # end
    BY <1>8, <2>2, <2>3, <2>4, <2>5, <2>7
  <2> QED
    BY <1>4, <2>8 DEF ChainIsPath, n, followed, end
<1>11. CutIsTold'
  <2> SUFFICES ASSUME observed.records = Shown
               PROVE  /\ records = {[type |-> r.type, value |-> r.value] : r \in {x \in ToSet(answered) : x.type # "SOA"}}
                      /\ spf = {r.value : r \in Kept(answered, "TXT")} \cap Spf
                      /\ mx <=> Kept(answered, "MX") # {}
    BY <1>1, <1>3, <1>4 DEF CutIsTold, Kept
  <2>1. shown = {x \in ToSet(answered) : x.type # "SOA"}
    BY DEF shown, Shown, ToSet
  <2>2. records = {[type |-> r.type, value |-> r.value] : r \in {x \in ToSet(answered) : x.type # "SOA"}}
    BY <2>1 DEF records
  <2>3. ASSUME NEW type \in {"TXT", "MX"}
        PROVE  \A v : (\E r \in records : r.type = type /\ r.value = v) <=> \E r \in Kept(answered, type) : r.value = v
    <3>1. \A r \in records : r.type = type => \E x \in Kept(answered, type) : x.value = r.value
      BY <2>2 DEF Kept
    <3>2. ASSUME NEW x \in Kept(answered, type) PROVE \E r \in records : r.type = type /\ r.value = x.value
      <4>1. x \in ToSet(answered) /\ x.type = type /\ x.type # "SOA"
        BY <2>3 DEF Kept
      <4> DEFINE r == [type |-> x.type, value |-> x.value]
      <4>2. r \in records /\ r.type = type /\ r.value = x.value
        BY <2>2, <4>1
      <4> QED
        BY <4>2
    <3> QED
      BY <3>1, <3>2
  <2>4. spf = {r.value : r \in Kept(answered, "TXT")} \cap Spf
    BY <2>3 DEF spf
  <2>5. mx <=> Kept(answered, "MX") # {}
    BY <2>3 DEF mx
  <2> QED
    BY <2>2, <2>4, <2>5
<1>12. BaselineParts'
  BY <1>1, <1>2, <1>8 DEF BaselineParts
<1>13. Collected'
  BY <1>1, <1>2, <1>8 DEF Collected
<1> QED
  BY <1>9, <1>10, <1>11, <1>12, <1>13 DEF BaselineSafe

LEMMA ExplicitIsSafe ==
    ASSUME BaselineSafe, explicit_ip_observation PROVE BaselineSafe'
<1> DEFINE hosts == {[owner |-> Hostname, ip |-> Hostname, source |-> "explicit"]}
<1>1. UNCHANGED <<target, queries, answered, observed, special>> /\ dns' = [NoObservation EXCEPT !.state = "explicit", !.hosts = hosts]
  BY DEF explicit_ip_observation
<1> HIDE DEF hosts
<1>2. dns'.state = "explicit" /\ dns'.records = {} /\ dns'.chain = <<>> /\ dns'.hosts = hosts /\ dns'.policy = "unasked"
  BY <1>1 DEF NoObservation
<1>3. queries = <<>>
  BY DEF BaselineSafe, BaselineParts, explicit_ip_observation
<1>4. Cardinality({}) = 0 /\ Cardinality(hosts) = 1
  BY FS_EmptySet, FS_Singleton DEF hosts
<1>5. MaxResolvedHosts \in Nat \ {0} /\ Len(<<>>) = 0
  BY BaselineAssumption
<1>6. Settled'
  <2>1. queries' = <<>>
    BY <1>1, <1>3
  <2>2. Cardinality(dns'.hosts) <= MaxResolvedHosts
    BY <1>2, <1>4, <1>5
  <2>3. Cardinality(dns'.records) <= MaxDnsRecords /\ Len(dns'.chain) <= MaxCnameChainHops
    BY <1>2, <1>4, <1>5, BaselineConstants
  <2> QED
    BY <1>2, <2>1, <2>2, <2>3 DEF Settled
<1>7. ChainIsPath' /\ CutIsTold'
  BY <1>2 DEF ChainIsPath, CutIsTold
<1>8. BaselineParts' /\ Collected'
  BY <1>1 DEF BaselineSafe, BaselineParts, Collected, Shown, Hops, Kept
<1> QED
  BY <1>6, <1>7, <1>8 DEF BaselineSafe

LEMMA BaselineStepIsSafe == ASSUME BaselineSafe, BaselineNext PROVE BaselineSafe'
BY LookupTypeIsSafe, LookupTextIsSafe, AssembleIsSafe, ExplicitIsSafe DEF BaselineNext

LEMMA BaselineStaysSafe == ASSUME BaselineSafe, UNCHANGED baselineVars PROVE BaselineSafe'
<1>1. UNCHANGED <<target, queries, answered, observed, special, dns>>
  BY DEF baselineVars
<1>2. Hops' = Hops /\ Shown' = Shown
  BY <1>1 DEF Shown, Hops, Kept
<1>3. BaselineParts' /\ Collected' /\ Settled'
  BY <1>1, <1>2 DEF BaselineSafe, BaselineParts, Collected, Settled
<1>4. ChainIsPath'
  BY <1>1, <1>2 DEF BaselineSafe, ChainIsPath
<1>5. CutIsTold'
  BY <1>1 DEF BaselineSafe, CutIsTold, Kept
<1> QED
  BY <1>3, <1>4, <1>5 DEF BaselineSafe

\* What the parts say of the types is what the model says of them.
LEMMA BaselineTypes == ASSUME BaselineSafe PROVE BaselineTypeOK
<1>1. BaselineParts /\ Settled
  BY DEF BaselineSafe
<1>2. Len(queries) \in 0 .. 10 /\ queries = SubSeq(Lookups, 11 - Len(queries), 10)
  BY <1>1 DEF BaselineParts
<1>3. queries = <<>> \/ queries \in {SubSeq(query_types \o SpecialNames, i, 10) : i \in 1 .. 10}
  <2>1. CASE Len(queries) = 0
    <3>1. SubSeq(Lookups, 11, 10) = <<>>
      BY SubSeqEmpty
    <3> QED
      BY <1>2, <2>1, <3>1
  <2>2. CASE Len(queries) # 0
    <3>1. \A n \in 0 .. 10 : n # 0 => 11 - n \in 1 .. 10
      OBVIOUS
    <3>2. 11 - Len(queries) \in 1 .. 10
      BY <1>2, <2>2, <3>1
    <3> QED
      BY <1>2, <3>2, Zenon DEF Lookups
  <2> QED
    BY <2>1, <2>2
<1>4. /\ observed.errors \subseteq {"dns", "timeout", "truncated"}
      /\ \A host \in observed.hosts : host.source \in {"A", "AAAA"}
  BY <1>1 DEF BaselineParts, Host
<1> QED
  BY <1>1, <1>3, <1>4 DEF BaselineTypeOK, BaselineParts, Settled

-----------------------------------------------------------------------------
(* The frames of a transfer                                                *)

LEMMA MessageFacts ==
    ASSUME NEW m \in Messages
    PROVE  /\ m.answers \in Seq(STRING) /\ Len(m.answers) \in Nat /\ DOMAIN m.answers = 1 .. Len(m.answers)
           /\ m.size \in Nat /\ m.ours \in BOOLEAN /\ m.aa \in BOOLEAN /\ m.tc \in BOOLEAN
           /\ m.question \in {"expected", "empty", "other"}
<1>1. /\ m.answers \in Seq(STRING) /\ m.size \in Nat /\ m.ours \in BOOLEAN /\ m.aa \in BOOLEAN /\ m.tc \in BOOLEAN
      /\ m.question \in {"expected", "empty", "other"}
  BY TransferAssumption
<1>2. Len(m.answers) \in Nat /\ DOMAIN m.answers = 1 .. Len(m.answers)
  BY <1>1, LenProperties
<1> QED
  BY <1>1, <1>2

\* A row of cells after others.
LEMMA RowOfCells ==
    ASSUME NEW cells, IsFiniteSet(cells), NEW k \in Nat, NEW n \in Nat,
           \A i \in 1 .. n : <<k, i>> \notin cells
    PROVE  /\ IsFiniteSet(cells \cup {<<k, i>> : i \in 1 .. n})
           /\ Cardinality(cells \cup {<<k, i>> : i \in 1 .. n}) = Cardinality(cells) + n
<1> DEFINE row == {<<k, i>> : i \in 1 .. n}
           f == [i \in 1 .. n |-> <<k, i>>]
<1>1. IsFiniteSet(1 .. n) /\ Cardinality(1 .. n) = n
  BY FS_Interval
<1>2. f \in Surjection(1 .. n, row)
  BY DEF Surjection
<1>3. f \in Injection(1 .. n, row)
  BY DEF Injection, IsInjective
<1> HIDE DEF f
<1>4. IsFiniteSet(row) /\ Cardinality(row) = n
  <2> HIDE DEF row
  <2> QED
    BY <1>1, <1>2, <1>3, FS_Surjection
<1>5. cells \cap row = {}
  OBVIOUS
<1> HIDE DEF row
<1>6. /\ IsFiniteSet(cells \cup row)
      /\ Cardinality(cells \cup row) = Cardinality(cells) + Cardinality(row) - Cardinality(cells \cap row)
  BY <1>4, FS_Union
<1>7. Cardinality(cells \cap row) = 0 /\ Cardinality(cells) \in Nat
  BY <1>5, FS_EmptySet, FS_CardinalityType
<1> QED
  BY <1>4, <1>6, <1>7 DEF row

LEMMA PlaceFacts ==
    ASSUME NEW ms \in Seq(Messages)
    PROVE  /\ \A p : p \in Places(ms) <=> \E i \in 1 .. Len(ms) : \E j \in 1 .. Len(ms[i].answers) : p = <<i, j>>
           /\ \A p : p \in Octets(ms) <=> \E i \in 1 .. Len(ms) : \E j \in 1 .. ms[i].size : p = <<i, j>>
<1>1. DOMAIN ms = 1 .. Len(ms) /\ \A i \in 1 .. Len(ms) : ms[i] \in Messages
  BY LenProperties
<1>2. \A i \in 1 .. Len(ms) : DOMAIN ms[i].answers = 1 .. Len(ms[i].answers)
  BY <1>1, MessageFacts
<1>3. ASSUME NEW p PROVE p \in Places(ms) <=> \E i \in 1 .. Len(ms) : \E j \in 1 .. Len(ms[i].answers) : p = <<i, j>>
  <2>1. p \in Places(ms) <=> \E i \in 1 .. Len(ms) : p \in {i} \X DOMAIN ms[i].answers
    BY <1>1 DEF Places
  <2>2. \A i \in 1 .. Len(ms) : p \in {i} \X DOMAIN ms[i].answers <=> \E j \in 1 .. Len(ms[i].answers) : p = <<i, j>>
    BY <1>2
  <2> QED
    BY <2>1, <2>2
<1>4. ASSUME NEW p PROVE p \in Octets(ms) <=> \E i \in 1 .. Len(ms) : \E j \in 1 .. ms[i].size : p = <<i, j>>
  BY <1>1 DEF Octets
<1> QED
  BY <1>3, <1>4

\* A frame more: its records and its bytes come after those that were there.
LEMMA FrameMore ==
    ASSUME NEW ms \in Seq(Messages), NEW m \in Messages, IsFiniteSet(Places(ms)), IsFiniteSet(Octets(ms))
    PROVE  LET more == Append(ms, m)
               n == Len(ms)
           IN  /\ more \in Seq(Messages) /\ Len(more) = n + 1 /\ more[n + 1] = m /\ \A i \in 1 .. n : more[i] = ms[i]
               /\ Places(more) = Places(ms) \cup {<<n + 1, j>> : j \in 1 .. Len(m.answers)}
               /\ \A p \in Places(ms) : p[1] \in 1 .. n /\ p[2] \in Nat /\ p = <<p[1], p[2]>> /\ RecordAt(more, p) = RecordAt(ms, p)
               /\ \A j \in 1 .. Len(m.answers) : RecordAt(more, <<n + 1, j>>) = m.answers[j]
               /\ IsFiniteSet(Places(more)) /\ IsFiniteSet(Octets(more))
               /\ Cardinality(Places(more)) = Cardinality(Places(ms)) + Len(m.answers)
               /\ Cardinality(Octets(more)) = Cardinality(Octets(ms)) + m.size
<1> DEFINE more == Append(ms, m)
           n == Len(ms)
<1>1. n \in Nat
  BY LenProperties
<1>2. more \in Seq(Messages) /\ Len(more) = n + 1 /\ more[n + 1] = m /\ \A i \in 1 .. n : more[i] = ms[i]
  OBVIOUS
<1>3. Len(m.answers) \in Nat /\ m.size \in Nat /\ \A i \in 1 .. n : Len(ms[i].answers) \in Nat
  BY MessageFacts, LenProperties
<1> HIDE DEF more, n
<1>4. \A i \in 1 .. n + 1 : i \in 1 .. n \/ i = n + 1
  BY <1>1
<1>5. n + 1 \in 1 .. n + 1 /\ n + 1 \notin 1 .. n /\ 1 .. n \subseteq 1 .. n + 1
  BY <1>1
<1>6. Places(more) = Places(ms) \cup {<<n + 1, j>> : j \in 1 .. Len(m.answers)}
  <2>1. \A p : p \in Places(more) <=> \E i \in 1 .. n + 1 : \E j \in 1 .. Len(more[i].answers) : p = <<i, j>>
    BY <1>2, PlaceFacts
  <2>2. \A p : p \in Places(ms) <=> \E i \in 1 .. n : \E j \in 1 .. Len(ms[i].answers) : p = <<i, j>>
    BY PlaceFacts DEF n
  <2>3. ASSUME NEW p \in Places(more) PROVE p \in Places(ms) \cup {<<n + 1, j>> : j \in 1 .. Len(m.answers)}
    BY <1>2, <1>4, <2>1, <2>2
  <2>4. ASSUME NEW p \in Places(ms) PROVE p \in Places(more)
    BY <1>2, <1>5, <2>1, <2>2
  <2>5. ASSUME NEW j \in 1 .. Len(m.answers) PROVE <<n + 1, j>> \in Places(more)
    BY <1>2, <1>5, <2>1
  <2> QED
    BY <2>3, <2>4, <2>5
<1>7. Octets(more) = Octets(ms) \cup {<<n + 1, j>> : j \in 1 .. m.size}
  <2>1. \A p : p \in Octets(more) <=> \E i \in 1 .. n + 1 : \E j \in 1 .. more[i].size : p = <<i, j>>
    BY <1>2, PlaceFacts
  <2>2. \A p : p \in Octets(ms) <=> \E i \in 1 .. n : \E j \in 1 .. ms[i].size : p = <<i, j>>
    BY PlaceFacts DEF n
  <2>3. ASSUME NEW p \in Octets(more) PROVE p \in Octets(ms) \cup {<<n + 1, j>> : j \in 1 .. m.size}
    BY <1>2, <1>4, <2>1, <2>2
  <2>4. ASSUME NEW p \in Octets(ms) PROVE p \in Octets(more)
    BY <1>2, <1>5, <2>1, <2>2
  <2>5. ASSUME NEW j \in 1 .. m.size PROVE <<n + 1, j>> \in Octets(more)
    BY <1>2, <1>5, <2>1
  <2> QED
    BY <2>3, <2>4, <2>5
<1>8. \A p \in Places(ms) : p[1] \in 1 .. n /\ p[2] \in Nat /\ p = <<p[1], p[2]>> /\ RecordAt(more, p) = RecordAt(ms, p)
  <2> SUFFICES ASSUME NEW p \in Places(ms)
               PROVE  p[1] \in 1 .. n /\ p[2] \in Nat /\ p = <<p[1], p[2]>> /\ RecordAt(more, p) = RecordAt(ms, p)
    OBVIOUS
  <2>1. PICK i \in 1 .. n : \E j \in 1 .. Len(ms[i].answers) : p = <<i, j>>
    BY PlaceFacts DEF n
  <2>2. PICK j \in 1 .. Len(ms[i].answers) : p = <<i, j>>
    BY <2>1
  <2>3. j \in Nat
    BY <1>3
  <2> QED
    BY <1>2, <2>2, <2>3 DEF RecordAt
<1>9. \A j \in 1 .. Len(m.answers) : RecordAt(more, <<n + 1, j>>) = m.answers[j]
  BY <1>2 DEF RecordAt
<1>10. \A j : <<n + 1, j>> \notin Places(ms) /\ <<n + 1, j>> \notin Octets(ms)
  <2>1. \A p : p \in Places(ms) => \E i \in 1 .. n : \E j \in 1 .. Len(ms[i].answers) : p = <<i, j>>
    BY PlaceFacts DEF n
  <2>2. \A p : p \in Octets(ms) => \E i \in 1 .. n : \E j \in 1 .. ms[i].size : p = <<i, j>>
    BY PlaceFacts DEF n
  <2> QED
    BY <1>5, <2>1, <2>2
<1>11. n + 1 \in Nat
  BY <1>1
<1>12. IsFiniteSet(Places(more)) /\ Cardinality(Places(more)) = Cardinality(Places(ms)) + Len(m.answers)
  <2> DEFINE cells == Places(ms)
             k == n + 1
             width == Len(m.answers)
  <2>1. IsFiniteSet(cells) /\ k \in Nat /\ width \in Nat /\ \A j \in 1 .. width : <<k, j>> \notin cells
    BY <1>3, <1>10, <1>11
  <2>2. Places(more) = cells \cup {<<k, j>> : j \in 1 .. width}
    BY <1>6
  <2> HIDE DEF cells, k, width
  <2>3. /\ IsFiniteSet(cells \cup {<<k, j>> : j \in 1 .. width})
        /\ Cardinality(cells \cup {<<k, j>> : j \in 1 .. width}) = Cardinality(cells) + width
    BY <2>1, RowOfCells
  <2> QED
    BY <2>2, <2>3 DEF cells, width
<1>13. IsFiniteSet(Octets(more)) /\ Cardinality(Octets(more)) = Cardinality(Octets(ms)) + m.size
  <2> DEFINE cells == Octets(ms)
             k == n + 1
             width == m.size
  <2>1. IsFiniteSet(cells) /\ k \in Nat /\ width \in Nat /\ \A j \in 1 .. width : <<k, j>> \notin cells
    BY <1>3, <1>10, <1>11
  <2>2. Octets(more) = cells \cup {<<k, j>> : j \in 1 .. width}
    BY <1>7
  <2> HIDE DEF cells, k, width
  <2>3. /\ IsFiniteSet(cells \cup {<<k, j>> : j \in 1 .. width})
        /\ Cardinality(cells \cup {<<k, j>> : j \in 1 .. width}) = Cardinality(cells) + width
    BY <2>1, RowOfCells
  <2> QED
    BY <2>2, <2>3 DEF cells, width
<1> QED
  BY <1>2, <1>6, <1>8, <1>9, <1>12, <1>13 DEF more, n

AttemptType ==
    [outcome : Outcomes, code : {"none"} \cup {m.code : m \in Messages}, messages : Nat, records : Nat, bytes : Nat,
     soas : Nat, first : {"unread", "other"} \cup ZoneSoas, closing : BOOLEAN, authoritative : BOOLEAN, truncated : BOOLEAN]

\* The first place there is.
FirstPlace(ms, p) == p \in Places(ms) /\ \A q \in Places(ms) : ~Precedes(q, p)

\* What an attempt knows of the opening record, while no record closed the transfer.
OpenedBy(ms, a) ==
    /\ ~a.closing
    /\ a.first = "unread" => Places(ms) = {} /\ a.soas = 0
    /\ a.first # "unread" => \E p : /\ FirstPlace(ms, p)
                                    /\ a.first = IF RecordAt(ms, p) \in ZoneSoas THEN RecordAt(ms, p) ELSE "other"
                                    /\ a.first \in ZoneSoas => a.soas >= 1
                                    /\ a.first \in ZoneSoas => \A q \in Places(ms) : RecordAt(ms, q) = a.first => q = p

AnswersOnly(ms, a) ==
    /\ \A i \in 1 .. Len(ms) : ms[i].ours /\ ms[i].question # "other" /\ ms[i].code = "NoError"
    /\ Len(ms) > 0 => ms[1].question = "expected" /\ a.code = "NoError"
    /\ Len(ms) = 0 => a.code = "none"
    /\ a.authoritative => \A i \in 1 .. Len(ms) : ms[i].aa
    /\ ~a.truncated => \A i \in 1 .. Len(ms) : ~ms[i].tc

\* The counts are those of the frames, and within the limits.
CountsOf(ms, a) ==
    /\ IsFiniteSet(Places(ms)) /\ IsFiniteSet(Octets(ms)) /\ a.messages = Len(ms) /\ a.messages <= MaxAxfrMessages
    /\ a.records = Cardinality(Places(ms)) /\ a.records <= MaxAxfrRecords
    /\ a.bytes = Cardinality(Octets(ms)) /\ a.bytes <= MaxAxfrBytes

Reading(ms, a) == ms \in Seq(Messages) /\ a \in AttemptType /\ OpenedBy(ms, a) /\ AnswersOnly(ms, a) /\ CountsOf(ms, a)

LEMMA OneFirstPlace ==
    ASSUME NEW ms \in Seq(Messages), NEW p, NEW q, FirstPlace(ms, p), FirstPlace(ms, q)
    PROVE  p = q
<1>1. PICK i \in 1 .. Len(ms) : \E j \in 1 .. Len(ms[i].answers) : p = <<i, j>>
  BY PlaceFacts DEF FirstPlace
<1>2. PICK j \in 1 .. Len(ms[i].answers) : p = <<i, j>>
  BY <1>1
<1>3. PICK k \in 1 .. Len(ms) : \E l \in 1 .. Len(ms[k].answers) : q = <<k, l>>
  BY PlaceFacts DEF FirstPlace
<1>4. PICK l \in 1 .. Len(ms[k].answers) : q = <<k, l>>
  BY <1>3
<1>5. Len(ms[i].answers) \in Nat /\ Len(ms[k].answers) \in Nat /\ Len(ms) \in Nat
  BY MessageFacts, LenProperties
<1>6. i \in Nat /\ j \in Nat /\ k \in Nat /\ l \in Nat
  BY <1>5
<1>7. ~Precedes(p, q) /\ ~Precedes(q, p)
  BY DEF FirstPlace
<1>8. ~(i < k) /\ ~(k < i) /\ ~(i = k /\ j < l) /\ ~(k = i /\ l < j)
  BY <1>2, <1>4, <1>7 DEF Precedes
<1> QED
  BY <1>2, <1>4, <1>6, <1>8

\* While the attempt reads on, what it read is not a whole transfer.
LEMMA NotWholeYet == ASSUME NEW ms, NEW a, Reading(ms, a) PROVE ~WholeTransfer(ms)
<1> SUFFICES ASSUME WholeTransfer(ms) PROVE FALSE
  OBVIOUS
<1>1. ms \in Seq(Messages) /\ OpenedBy(ms, a)
  BY DEF Reading
<1>2. PICK first \in Places(ms), last \in Places(ms) :
         /\ \A place \in Places(ms) : ~Precedes(place, first) /\ ~Precedes(last, place)
         /\ first # last /\ RecordAt(ms, first) \in ZoneSoas
         /\ {p \in Places(ms) : RecordAt(ms, p) = RecordAt(ms, first)} = {first, last}
  BY DEF WholeTransfer
<1>3. FirstPlace(ms, first) /\ RecordAt(ms, last) = RecordAt(ms, first)
  BY <1>2 DEF FirstPlace
<1>4. a.first # "unread"
  BY <1>1, <1>2 DEF OpenedBy
<1>5. PICK p : /\ FirstPlace(ms, p)
               /\ a.first = IF RecordAt(ms, p) \in ZoneSoas THEN RecordAt(ms, p) ELSE "other"
               /\ a.first \in ZoneSoas => \A q \in Places(ms) : RecordAt(ms, q) = a.first => q = p
  BY <1>1, <1>4 DEF OpenedBy
<1>6. p = first
  BY <1>1, <1>3, <1>5, OneFirstPlace
<1> QED
  BY <1>2, <1>3, <1>5, <1>6

\* How many SOAs there are up to a record.
LEMMA SoaCounts ==
    ASSUME NEW m \in Messages, attempt.soas \in Nat, NEW n \in 0 .. Len(m.answers)
    PROVE  /\ SoasUpTo(m, n) \in Nat /\ SoasUpTo(m, n) >= attempt.soas
           /\ \A i \in 1 .. n : m.answers[i] \in SoaRecords => SoasUpTo(m, n) >= attempt.soas + 1
           /\ \A i, j \in 1 .. n : i # j /\ m.answers[i] \in SoaRecords /\ m.answers[j] \in SoaRecords
                                   => SoasUpTo(m, n) >= attempt.soas + 2
           /\ SoasUpTo(m, n) <= attempt.soas + n
<1> DEFINE soas == {i \in 1 .. n : m.answers[i] \in SoaRecords}
<1>1. Len(m.answers) \in Nat /\ n \in Nat
  BY MessageFacts
<1>2. IsFiniteSet(1 .. n) /\ Cardinality(1 .. n) = n
  BY <1>1, FS_Interval
<1>3. \A S \in SUBSET (1 .. n) : IsFiniteSet(S) /\ Cardinality(S) \in Nat /\ Cardinality(S) <= n
  BY <1>2, FS_Subset, FS_CardinalityType
<1>4. IsFiniteSet(soas) /\ Cardinality(soas) \in Nat /\ Cardinality(soas) <= n /\ SoasUpTo(m, n) = attempt.soas + Cardinality(soas)
  <2>1. soas \in SUBSET (1 .. n)
    OBVIOUS
  <2> QED
    BY <1>3, <2>1 DEF SoasUpTo
<1> HIDE DEF soas
<1>5. ASSUME NEW i \in soas PROVE Cardinality(soas) >= 1
  <2>1. Cardinality(soas) # 0
    BY <1>4, <1>5, FS_EmptySet
  <2> QED
    BY <1>4, <2>1
<1>6. ASSUME NEW i \in soas, NEW j \in soas, i # j PROVE Cardinality(soas) >= 2
  <2>1. Cardinality(soas) # 1
    <3> SUFFICES ASSUME Cardinality(soas) = 1 PROVE FALSE
      OBVIOUS
    <3>1. PICK x : soas = {x}
      BY <1>4, FS_Singleton
    <3> QED
      BY <1>6, <3>1
  <2> QED
    BY <1>4, <1>5, <2>1
<1>7. \A i \in 1 .. n : m.answers[i] \in SoaRecords => i \in soas
  BY DEF soas
<1> QED
  BY <1>4, <1>5, <1>6, <1>7

\* What the opening record is, and which records close the transfer, with one frame more.
LEMMA Scanning ==
    ASSUME Reading(taken, attempt), NEW m \in Messages
    PROVE  LET more == Append(taken, m)
               k == Len(m.answers)
               n == Len(taken)
           IN  /\ Opening(m) = "unread" => Places(more) = {} /\ k = 0 /\ attempt.soas = 0 /\ Closings(m) = {}
               /\ Opening(m) # "unread" =>
                     \E p : /\ FirstPlace(more, p)
                            /\ Opening(m) = IF RecordAt(more, p) \in ZoneSoas THEN RecordAt(more, p) ELSE "other"
                            /\ Opening(m) \in ZoneSoas => SoasUpTo(m, k) >= 1
                            /\ \A i \in Closings(m) : /\ i \in 1 .. k /\ <<n + 1, i>> # p
                                                      /\ RecordAt(more, <<n + 1, i>>) = Opening(m)
                            /\ Opening(m) \in ZoneSoas =>
                                  \A q \in Places(more) : RecordAt(more, q) = Opening(m) /\ q # p
                                                          => \E i \in Closings(m) : q = <<n + 1, i>>
<1> DEFINE more == Append(taken, m)
           k == Len(m.answers)
           n == Len(taken)
           opening == Opening(m)
<1>1. /\ taken \in Seq(Messages) /\ n \in Nat /\ k \in Nat /\ DOMAIN m.answers = 1 .. k /\ attempt.soas \in Nat
      /\ attempt.first \in {"unread", "other"} \cup ZoneSoas /\ OpenedBy(taken, attempt)
      /\ m.answers = <<>> <=> k = 0
  <2>1. taken \in Seq(Messages) /\ attempt \in AttemptType /\ OpenedBy(taken, attempt)
    BY DEF Reading
  <2>2. m.answers \in Seq(STRING) /\ k \in Nat /\ DOMAIN m.answers = 1 .. k
    BY MessageFacts
  <2>3. m.answers = <<>> <=> k = 0
    BY <2>2
  <2>4. attempt.soas \in Nat /\ attempt.first \in {"unread", "other"} \cup ZoneSoas
    BY <2>1 DEF AttemptType
  <2> QED
    BY <2>1, <2>2, <2>3, <2>4
<1>2. /\ Places(more) = Places(taken) \cup {<<n + 1, j>> : j \in 1 .. k}
      /\ \A p \in Places(taken) : p[1] \in 1 .. n /\ p[2] \in Nat /\ p = <<p[1], p[2]>> /\ RecordAt(more, p) = RecordAt(taken, p)
      /\ \A j \in 1 .. k : RecordAt(more, <<n + 1, j>>) = m.answers[j]
      /\ more \in Seq(Messages)
  BY <1>1, FrameMore DEF Reading, CountsOf
<1>3. /\ \A p \in Places(taken), j \in 1 .. k : ~Precedes(<<n + 1, j>>, p) /\ <<n + 1, j>> # p
      /\ \A i, j \in 1 .. k : i < j => ~Precedes(<<n + 1, j>>, <<n + 1, i>>)
      /\ \A i \in 1 .. k : ~Precedes(<<n + 1, i>>, <<n + 1, i>>)
  BY <1>1, <1>2 DEF Precedes
<1>4. \A i : i \in Closings(m) <=> i \in 1 .. k /\ m.answers[i] = opening /\ opening \in ZoneSoas /\ SoasUpTo(m, i) >= 2
  BY <1>1 DEF Closings
<1>5. ZoneSoas \subseteq SoaRecords /\ "unread" \notin ZoneSoas /\ "other" \notin ZoneSoas
  BY DEF ZoneSoas, SoaRecords
<1> HIDE DEF more, n, k, opening
<1>6. CASE attempt.first # "unread"
  <2>1. opening = attempt.first
    BY <1>6 DEF Opening, opening
  <2>2. PICK p : /\ FirstPlace(taken, p)
                 /\ attempt.first = IF RecordAt(taken, p) \in ZoneSoas THEN RecordAt(taken, p) ELSE "other"
                 /\ attempt.first \in ZoneSoas => attempt.soas >= 1
                 /\ attempt.first \in ZoneSoas => \A q \in Places(taken) : RecordAt(taken, q) = attempt.first => q = p
    BY <1>1, <1>6 DEF OpenedBy
  <2>3. p \in Places(taken) /\ RecordAt(more, p) = RecordAt(taken, p)
    BY <1>2, <2>2 DEF FirstPlace
  <2>4. FirstPlace(more, p)
    <3>1. ASSUME NEW q \in Places(more) PROVE ~Precedes(q, p)
      BY <1>2, <1>3, <2>2, <2>3 DEF FirstPlace
    <3> QED
      BY <1>2, <2>3, <3>1 DEF FirstPlace
  <2>5. ASSUME opening \in ZoneSoas
        PROVE  \A i \in 1 .. k : m.answers[i] = opening => i \in Closings(m)
    <3> SUFFICES ASSUME NEW i \in 1 .. k, m.answers[i] = opening PROVE SoasUpTo(m, i) >= 2
      BY <1>4, <2>5
    <3>1. i \in 0 .. k /\ i \in 1 .. i
      BY <1>1
    <3>2. SoasUpTo(m, i) >= attempt.soas + 1 /\ SoasUpTo(m, i) \in Nat
      BY <1>1, <1>5, <2>5, <3>1, SoaCounts DEF k
    <3> QED
      BY <1>1, <2>1, <2>2, <2>5, <3>2
  <2>6. opening \in ZoneSoas => SoasUpTo(m, k) >= 1
    <3>1. k \in 0 .. k
      BY <1>1
    <3>2. SoasUpTo(m, k) >= attempt.soas /\ SoasUpTo(m, k) \in Nat
      BY <1>1, <3>1, SoaCounts DEF k
    <3> QED
      BY <1>1, <2>1, <2>2, <3>2
  <2>7. \A i \in Closings(m) : i \in 1 .. k /\ <<n + 1, i>> # p /\ RecordAt(more, <<n + 1, i>>) = opening
    BY <1>2, <1>3, <1>4, <2>3
  <2>8. ASSUME opening \in ZoneSoas, NEW q \in Places(more), RecordAt(more, q) = opening, q # p
        PROVE  \E i \in Closings(m) : q = <<n + 1, i>>
    <3>1. CASE q \in Places(taken)
      <4>1. RecordAt(taken, q) = attempt.first
        BY <1>2, <2>1, <2>8, <3>1
      <4> QED
        BY <2>1, <2>2, <2>8, <3>1, <4>1
    <3>2. ASSUME NEW j \in 1 .. k, q = <<n + 1, j>> PROVE j \in Closings(m)
      <4>1. m.answers[j] = opening
        BY <1>2, <2>8, <3>2
      <4> QED
        BY <2>5, <2>8, <4>1
    <3> QED
      BY <1>2, <3>1, <3>2
  <2>9. opening = IF RecordAt(more, p) \in ZoneSoas THEN RecordAt(more, p) ELSE "other"
    BY <2>1, <2>2, <2>3
  <2>10. opening # "unread"
    BY <1>6, <2>1
  <2> QED
    BY <2>4, <2>6, <2>7, <2>8, <2>9, <2>10 DEF more, n, k, opening
<1>7. CASE attempt.first = "unread" /\ k = 0
  <2>1. opening = "unread" /\ Places(taken) = {} /\ attempt.soas = 0
    BY <1>1, <1>7 DEF OpenedBy, Opening, opening
  <2>2. Places(more) = {}
    BY <1>1, <1>2, <1>7, <2>1
  <2>3. Closings(m) = {}
    BY <1>4, <1>5, <2>1
  <2> QED
    BY <1>7, <2>1, <2>2, <2>3 DEF more, n, k, opening
<1>8. CASE attempt.first = "unread" /\ k # 0
  <2> DEFINE p == <<n + 1, 1>>
  <2>1. /\ opening = IF m.answers[1] \in ZoneSoas THEN m.answers[1] ELSE "other"
        /\ Places(taken) = {} /\ attempt.soas = 0 /\ 1 \in 1 .. k
    BY <1>1, <1>8 DEF OpenedBy, Opening, opening, k
  <2>2. p \in Places(more) /\ RecordAt(more, p) = m.answers[1] /\ \A q \in Places(more) : \E j \in 1 .. k : q = <<n + 1, j>>
    BY <1>2, <2>1
  <2>3. FirstPlace(more, p)
    <3>1. ASSUME NEW j \in 1 .. k PROVE ~Precedes(<<n + 1, j>>, p)
      <4>1. j = 1 \/ 1 < j
        BY <1>1
      <4> QED
        BY <1>3, <2>1, <4>1
    <3> QED
      BY <2>2, <3>1 DEF FirstPlace
  <2>4. ASSUME opening \in ZoneSoas
        PROVE  /\ \A i \in 1 .. k : m.answers[i] = opening /\ i # 1 => i \in Closings(m)
               /\ SoasUpTo(m, k) >= 1
    <3>1. m.answers[1] = opening /\ opening \in SoaRecords
      BY <1>5, <2>1, <2>4
    <3>2. ASSUME NEW i \in 1 .. k, m.answers[i] = opening, i # 1 PROVE SoasUpTo(m, i) >= 2
      <4>1. i \in 0 .. k /\ i \in 1 .. i /\ 1 \in 1 .. i
        BY <1>1
      <4>2. SoasUpTo(m, i) >= attempt.soas + 2
        BY <1>1, <3>1, <3>2, <4>1, SoaCounts DEF k
      <4> QED
        BY <2>1, <4>2
    <3>3. SoasUpTo(m, k) >= attempt.soas + 1
      <4>1. k \in 0 .. k /\ 1 \in 1 .. k
        BY <1>1, <2>1
      <4> QED
        BY <1>1, <3>1, <4>1, SoaCounts DEF k
    <3> QED
      BY <1>4, <2>1, <2>4, <3>2, <3>3
  <2>5. 1 \notin Closings(m)
    <3>1. 1 \in 0 .. k
      BY <1>1, <2>1
    <3>2. SoasUpTo(m, 1) <= attempt.soas + 1 /\ SoasUpTo(m, 1) \in Nat
      BY <1>1, <3>1, SoaCounts DEF k
    <3> QED
      BY <1>4, <2>1, <3>2
  <2>6. \A i \in Closings(m) : i \in 1 .. k /\ <<n + 1, i>> # p /\ RecordAt(more, <<n + 1, i>>) = opening
    BY <1>2, <1>4, <2>5
  <2>7. ASSUME opening \in ZoneSoas, NEW q \in Places(more), RecordAt(more, q) = opening, q # p
        PROVE  \E i \in Closings(m) : q = <<n + 1, i>>
    <3>1. PICK j \in 1 .. k : q = <<n + 1, j>>
      BY <2>2
    <3>2. j # 1 /\ m.answers[j] = opening
      BY <1>2, <2>7, <3>1
    <3> QED
      BY <2>4, <2>7, <3>1, <3>2
  <2>8. opening = IF RecordAt(more, p) \in ZoneSoas THEN RecordAt(more, p) ELSE "other"
    BY <2>1, <2>2
  <2>9. opening # "unread"
    BY <1>5, <2>1
  <2> HIDE DEF p
  <2> QED
    BY <2>3, <2>4, <2>6, <2>7, <2>8, <2>9 DEF more, n, k, opening
<1> QED
  BY <1>6, <1>7, <1>8

LEMMA CountedFields ==
    ASSUME attempt \in AttemptType, NEW m \in Messages
    PROVE  /\ Counted(m) \in AttemptType
           /\ \A f \in {"outcome", "soas", "first", "closing", "authoritative", "truncated"} : Counted(m)[f] = attempt[f]
           /\ Counted(m).messages = attempt.messages + 1 /\ Counted(m).bytes = attempt.bytes + m.size
           /\ Counted(m).records = attempt.records + Len(m.answers) /\ Counted(m).code = Code(m)
<1> DEFINE messages == attempt.messages + 1
           bytes == attempt.bytes + m.size
           records == attempt.records + Len(m.answers)
           code == Code(m)
<1>1. messages \in Nat /\ bytes \in Nat /\ records \in Nat /\ code \in {"none"} \cup {x.code : x \in Messages}
  BY MessageFacts DEF AttemptType, Code
<1>2. Counted(m) = [attempt EXCEPT !.messages = messages, !.bytes = bytes, !.records = records, !.code = code]
  BY DEF Counted
<1> HIDE DEF messages, bytes, records, code
<1>3. /\ [attempt EXCEPT !.messages = messages, !.bytes = bytes, !.records = records, !.code = code] \in AttemptType
  BY <1>1 DEF AttemptType
<1>4. /\ \A f \in {"outcome", "soas", "first", "closing", "authoritative", "truncated"} : Counted(m)[f] = attempt[f]
      /\ Counted(m).messages = messages /\ Counted(m).bytes = bytes /\ Counted(m).records = records /\ Counted(m).code = code
  BY <1>2 DEF AttemptType
<1> QED
  BY <1>2, <1>3, <1>4 DEF messages, bytes, records, code

LEMMA ScannedFields ==
    ASSUME Reading(taken, attempt), NEW m \in Messages
    PROVE  /\ Scanned(m) \in AttemptType
           /\ Scanned(m).outcome = attempt.outcome /\ Scanned(m).messages = attempt.messages + 1
           /\ Scanned(m).bytes = attempt.bytes + m.size /\ Scanned(m).records = attempt.records + Len(m.answers)
           /\ Scanned(m).code = Code(m) /\ Scanned(m).first = Opening(m)
           /\ Scanned(m).closing <=> Closings(m) # {}
           /\ Closings(m) = {} => Scanned(m).soas = SoasUpTo(m, Len(m.answers))
           /\ Closings(m) # {} => Opening(m) \in ZoneSoas /\ Scanned(m).soas >= 2
           /\ Scanned(m).authoritative <=> attempt.authoritative /\ m.aa
           /\ Scanned(m).truncated <=> attempt.truncated \/ m.tc
<1> DEFINE c == Counted(m)
           closing == Closings(m) # {}
           last == IF Closings(m) = {} THEN Len(m.answers) ELSE Min(Closings(m))
           soas == SoasUpTo(m, last)
           opening == Opening(m)
           authoritative == attempt.authoritative /\ m.aa
           truncated == attempt.truncated \/ m.tc
<1>1. attempt \in AttemptType
  BY DEF Reading
<1>2. /\ c \in AttemptType
      /\ \A f \in {"outcome", "soas", "first", "closing", "authoritative", "truncated"} : c[f] = attempt[f]
      /\ c.messages = attempt.messages + 1 /\ c.bytes = attempt.bytes + m.size
      /\ c.records = attempt.records + Len(m.answers) /\ c.code = Code(m)
  BY <1>1, CountedFields
<1>3. /\ Len(m.answers) \in Nat /\ DOMAIN m.answers = 1 .. Len(m.answers)
      /\ attempt.soas \in Nat /\ attempt.first \in {"unread", "other"} \cup ZoneSoas
  BY <1>1, MessageFacts DEF AttemptType
<1>4. closing => Min(Closings(m)) \in Closings(m)
  <2>1. Closings(m) \subseteq Nat
    BY <1>3 DEF Closings
  <2> QED
    BY <2>1, LeastNatural
<1>5. last \in 0 .. Len(m.answers)
  BY <1>3, <1>4 DEF Closings
<1>6. soas \in Nat
  BY <1>3, <1>5, SoaCounts
<1>7. closing => opening \in ZoneSoas /\ soas >= 2
  BY <1>4 DEF Closings
<1>8. opening \in {"unread", "other"} \cup ZoneSoas
  BY <1>3 DEF Opening
<1>9. closing \in BOOLEAN /\ authoritative \in BOOLEAN /\ truncated \in BOOLEAN
  OBVIOUS
<1>10. c.authoritative = attempt.authoritative /\ c.truncated = attempt.truncated
  BY <1>2
<1>11. Scanned(m) = [c EXCEPT !.first = opening, !.closing = closing, !.soas = soas,
                              !.authoritative = @ /\ m.aa, !.truncated = @ \/ m.tc]
  BY DEF Scanned
<1>12. Scanned(m) = [c EXCEPT !.first = opening, !.closing = closing, !.soas = soas,
                              !.authoritative = authoritative, !.truncated = truncated]
  BY <1>2, <1>10, <1>11 DEF AttemptType
<1>13. closing <=> Closings(m) # {}
  OBVIOUS
<1>14. Closings(m) = {} => soas = SoasUpTo(m, Len(m.answers))
  OBVIOUS
<1>15. /\ authoritative <=> attempt.authoritative /\ m.aa
       /\ truncated <=> attempt.truncated \/ m.tc
  OBVIOUS
<1> HIDE DEF c, closing, soas, opening, authoritative, truncated, last
<1>16. /\ Scanned(m) \in AttemptType
       /\ Scanned(m).outcome = c.outcome /\ Scanned(m).messages = c.messages
       /\ Scanned(m).bytes = c.bytes /\ Scanned(m).records = c.records /\ Scanned(m).code = c.code
       /\ Scanned(m).first = opening /\ Scanned(m).soas = soas
  BY <1>2, <1>6, <1>8, <1>9, <1>12 DEF AttemptType
<1>17. Scanned(m).closing = closing /\ Scanned(m).authoritative = authoritative /\ Scanned(m).truncated = truncated
  BY <1>2, <1>12 DEF AttemptType
<1> QED
  BY <1>2, <1>7, <1>13, <1>14, <1>15, <1>16, <1>17 DEF opening

LEMMA TransferConstants ==
    /\ MaxAxfrNameservers \in Nat \ {0} /\ MaxAxfrIpsPerNameserver \in Nat \ {0} /\ MaxAxfrEndpoints \in Nat \ {0}
    /\ MaxAxfrMessages \in Nat /\ MaxAxfrBytes \in Nat /\ MaxAxfrRecords \in Nat
BY TransferAssumption

\* A frame that is taken counts, and stays within the limits.
LEMMA FrameCounts ==
    ASSUME Reading(taken, attempt), NEW m \in Messages, ~Exceeds(m),
           NEW a, a.messages = attempt.messages + 1, a.bytes = attempt.bytes + m.size,
           a.records = attempt.records + Len(m.answers)
    PROVE  CountsOf(Append(taken, m), a)
<1>1. CountsOf(taken, attempt) /\ taken \in Seq(Messages) /\ attempt \in AttemptType
  BY DEF Reading
<1>2. /\ Len(Append(taken, m)) = Len(taken) + 1
      /\ IsFiniteSet(Places(Append(taken, m))) /\ IsFiniteSet(Octets(Append(taken, m)))
      /\ Cardinality(Places(Append(taken, m))) = Cardinality(Places(taken)) + Len(m.answers)
      /\ Cardinality(Octets(Append(taken, m))) = Cardinality(Octets(taken)) + m.size
  BY <1>1, FrameMore DEF CountsOf
<1>3. /\ attempt.messages \in Nat /\ attempt.bytes \in Nat /\ attempt.records \in Nat /\ m.size \in Nat /\ Len(m.answers) \in Nat
  BY <1>1, MessageFacts DEF AttemptType
<1>4. /\ attempt.messages + 1 <= MaxAxfrMessages /\ attempt.bytes + m.size <= MaxAxfrBytes
      /\ attempt.records + Len(m.answers) <= MaxAxfrRecords
  BY <1>3, TransferConstants DEF Exceeds
<1> QED
  BY <1>1, <1>2, <1>4 DEF CountsOf

\* A frame that would exceed a limit makes no whole transfer.
LEMMA ExceedsIsNotWhole ==
    ASSUME Reading(taken, attempt), NEW m \in Messages, Exceeds(m)
    PROVE  ~WholeTransfer(Append(taken, m))
<1>1. CountsOf(taken, attempt) /\ taken \in Seq(Messages) /\ attempt \in AttemptType
  BY DEF Reading
<1>2. /\ Len(Append(taken, m)) = attempt.messages + 1
      /\ Cardinality(Places(Append(taken, m))) = attempt.records + Len(m.answers)
      /\ Cardinality(Octets(Append(taken, m))) = attempt.bytes + m.size
  BY <1>1, FrameMore DEF CountsOf
<1>3. /\ attempt.messages \in Nat /\ attempt.bytes \in Nat /\ attempt.records \in Nat /\ m.size \in Nat /\ Len(m.answers) \in Nat
  BY <1>1, MessageFacts DEF AttemptType
<1>4. /\ MaxAxfrMessages \in Nat /\ MaxAxfrBytes \in Nat /\ MaxAxfrRecords \in Nat
  BY TransferConstants
<1>5. \/ Len(Append(taken, m)) > MaxAxfrMessages \/ Cardinality(Places(Append(taken, m))) > MaxAxfrRecords
      \/ Cardinality(Octets(Append(taken, m))) > MaxAxfrBytes
  BY <1>2 DEF Exceeds
<1> DEFINE more == Append(taken, m)
<1>6. ASSUME WholeTransfer(more)
      PROVE  Len(more) <= MaxAxfrMessages /\ Cardinality(Places(more)) <= MaxAxfrRecords /\ Cardinality(Octets(more)) <= MaxAxfrBytes
  <2> HIDE DEF more
  <2> QED
    BY <1>6 DEF WholeTransfer
<1>7. /\ Len(more) \in Nat /\ Cardinality(Places(more)) \in Nat /\ Cardinality(Octets(more)) \in Nat
  BY <1>2, <1>3
<1> HIDE DEF more
<1> QED
  BY <1>4, <1>5, <1>6, <1>7 DEF more

\* A frame of another code makes no whole transfer.
LEMMA RefusalIsNotWhole ==
    ASSUME taken \in Seq(Messages), NEW m \in Messages, m.code # "NoError"
    PROVE  ~WholeTransfer(Append(taken, m))
<1> DEFINE more == Append(taken, m)
           n == Len(taken)
<1>1. n \in Nat /\ more \in Seq(Messages) /\ Len(more) = n + 1 /\ more[n + 1] = m
  BY LenProperties
<1>2. n + 1 \in DOMAIN more
  BY <1>1
<1> HIDE DEF more, n
<1>3. ~WholeTransfer(more)
  BY <1>1, <1>2 DEF WholeTransfer
<1> QED
  BY <1>3 DEF more

\* What is said of every frame, with one more that answers this request.
LEMMA AnswersMore ==
    ASSUME Reading(taken, attempt), NEW m \in Messages, ~Foreign(m), Code(m) = m.code, m.code = "NoError",
           NEW a, a.code = Code(m), a.authoritative <=> attempt.authoritative /\ m.aa,
           a.truncated <=> attempt.truncated \/ m.tc
    PROVE  AnswersOnly(Append(taken, m), a)
<1> DEFINE more == Append(taken, m)
           n == Len(taken)
<1>1. AnswersOnly(taken, attempt) /\ taken \in Seq(Messages) /\ attempt.messages = n /\ n \in Nat
  BY LenProperties DEF Reading, CountsOf
<1>2. more \in Seq(Messages) /\ Len(more) = n + 1 /\ more[n + 1] = m /\ \A i \in 1 .. n : more[i] = taken[i]
  BY <1>1
<1>3. m.ours /\ m.question # "other" /\ (n = 0 => m.question = "expected")
  BY <1>1, MessageFacts DEF Foreign
<1>4. \A i \in 1 .. n + 1 : i \in 1 .. n \/ i = n + 1
  BY <1>1
<1> HIDE DEF more, n
<1>5. \A i \in 1 .. n + 1 : more[i].ours /\ more[i].question # "other" /\ more[i].code = "NoError"
  BY <1>1, <1>2, <1>3, <1>4 DEF AnswersOnly, n
<1>6. more[1].question = "expected"
  <2>1. CASE n = 0
    BY <1>2, <1>3, <2>1
  <2>2. CASE n # 0
    <3>1. n > 0 /\ 1 \in 1 .. n
      BY <1>1, <2>2
    <3> QED
      BY <1>1, <1>2, <3>1 DEF AnswersOnly, n
  <2> QED
    BY <2>1, <2>2
<1>7. a.authoritative => \A i \in 1 .. n + 1 : more[i].aa
  BY <1>1, <1>2, <1>4 DEF AnswersOnly, n
<1>8. ~a.truncated => \A i \in 1 .. n + 1 : ~more[i].tc
  BY <1>1, <1>2, <1>4 DEF AnswersOnly, n
<1>9. a.code = "NoError" /\ n + 1 # 0
  BY <1>1
<1> QED
  BY <1>2, <1>5, <1>6, <1>7, <1>8, <1>9 DEF AnswersOnly, more

\* A frame without a closing record is read, and the attempt reads on.
LEMMA ReadsOn ==
    ASSUME Reading(taken, attempt), NEW m \in Messages, ~Foreign(m), ~Exceeds(m), Code(m) = m.code, m.code = "NoError",
           Closings(m) = {}
    PROVE  Reading(Append(taken, m), Scanned(m))
<1> DEFINE more == Append(taken, m)
           a == Scanned(m)
<1>1. /\ a \in AttemptType
      /\ a.messages = attempt.messages + 1 /\ a.bytes = attempt.bytes + m.size /\ a.records = attempt.records + Len(m.answers)
      /\ a.code = Code(m) /\ a.first = Opening(m) /\ ~a.closing /\ a.soas = SoasUpTo(m, Len(m.answers))
      /\ a.authoritative <=> attempt.authoritative /\ m.aa
      /\ a.truncated <=> attempt.truncated \/ m.tc
  BY ScannedFields
<1> HIDE DEF a
<1>2. AnswersOnly(more, a) /\ CountsOf(more, a)
  BY <1>1, AnswersMore, FrameCounts
<1>3. more \in Seq(Messages)
  BY DEF Reading
<1>4. OpenedBy(more, a)
  <2>1. CASE Opening(m) = "unread"
    <3>1. Places(more) = {} /\ Len(m.answers) = 0 /\ attempt.soas = 0
      BY <2>1, Scanning
    <3>2. attempt.soas \in Nat /\ 0 \in 0 .. Len(m.answers)
      BY <3>1 DEF Reading, AttemptType
    <3>3. SoasUpTo(m, 0) <= 0 /\ SoasUpTo(m, 0) \in Nat
      BY <3>1, <3>2, SoaCounts
    <3> QED
      BY <1>1, <2>1, <3>1, <3>3 DEF OpenedBy
  <2>2. CASE Opening(m) # "unread"
    <3>1. PICK p : /\ FirstPlace(more, p)
                   /\ Opening(m) = IF RecordAt(more, p) \in ZoneSoas THEN RecordAt(more, p) ELSE "other"
                   /\ Opening(m) \in ZoneSoas => SoasUpTo(m, Len(m.answers)) >= 1
                   /\ Opening(m) \in ZoneSoas =>
                         \A q \in Places(more) : RecordAt(more, q) = Opening(m) /\ q # p
                                                 => \E i \in Closings(m) : q = <<Len(taken) + 1, i>>
      BY <2>2, Scanning
    <3>2. Opening(m) \in ZoneSoas => \A q \in Places(more) : RecordAt(more, q) = Opening(m) => q = p
      BY <3>1
    <3> HIDE DEF more
    <3> QED
      BY <1>1, <2>2, <3>1, <3>2 DEF OpenedBy
  <2> QED
    BY <2>1, <2>2
<1> QED
  BY <1>1, <1>2, <1>3, <1>4 DEF Reading, a

\* A frame whose last record is the one that closes the transfer makes it whole.
LEMMA ClosesWhole ==
    ASSUME Reading(taken, attempt), NEW m \in Messages, ~Foreign(m), ~Exceeds(m), Code(m) = m.code, m.code = "NoError",
           Closings(m) # {}, ~Trailing(m), Scanned(m).authoritative, ~Scanned(m).truncated
    PROVE  WholeTransfer(Append(taken, m))
<1> DEFINE more == Append(taken, m)
           a == Scanned(m)
           k == Len(m.answers)
           n == Len(taken)
<1>1. /\ a.messages = attempt.messages + 1 /\ a.bytes = attempt.bytes + m.size /\ a.records = attempt.records + k
      /\ a.code = Code(m) /\ (a.authoritative <=> attempt.authoritative /\ m.aa) /\ (a.truncated <=> attempt.truncated \/ m.tc)
      /\ Opening(m) \in ZoneSoas
  BY ScannedFields
<1>2. a.authoritative /\ ~a.truncated
  OBVIOUS
<1> HIDE DEF a
<1>3. AnswersOnly(more, a) /\ CountsOf(more, a)
  BY <1>1, AnswersMore, FrameCounts
<1>4. /\ taken \in Seq(Messages) /\ more \in Seq(Messages) /\ Len(more) = n + 1 /\ n \in Nat /\ k \in Nat
      /\ DOMAIN more = 1 .. n + 1
  BY MessageFacts DEF Reading
<1>5. Opening(m) # "unread"
  BY <1>1 DEF ZoneSoas
<1>6. PICK first : /\ FirstPlace(more, first)
                   /\ Opening(m) = IF RecordAt(more, first) \in ZoneSoas THEN RecordAt(more, first) ELSE "other"
                   /\ \A i \in Closings(m) : /\ i \in 1 .. k /\ <<n + 1, i>> # first
                                             /\ RecordAt(more, <<n + 1, i>>) = Opening(m)
                   /\ Opening(m) \in ZoneSoas =>
                         \A q \in Places(more) : RecordAt(more, q) = Opening(m) /\ q # first
                                                 => \E i \in Closings(m) : q = <<n + 1, i>>
  BY <1>5, Scanning
<1>7. Closings(m) = {k} /\ k \in 1 .. k
  <2>1. \A i \in Closings(m) : ~(i < k) /\ i \in 1 .. k
    BY <1>6 DEF Trailing
  <2> QED
    BY <1>4, <2>1
<1> DEFINE last == <<n + 1, k>>
<1>8. Places(more) = Places(taken) \cup {<<n + 1, j>> : j \in 1 .. k} /\ \A p \in Places(taken) : p[1] \in 1 .. n
  BY <1>4, FrameMore DEF Reading, CountsOf
<1>9. last \in Places(more) /\ first \in Places(more) /\ first # last /\ RecordAt(more, last) = Opening(m)
  BY <1>6, <1>7, <1>8 DEF FirstPlace
<1>10. \A place \in Places(more) : ~Precedes(last, place)
  <2>1. ASSUME NEW p \in Places(taken) PROVE ~Precedes(last, p)
    BY <1>4, <1>8 DEF Precedes
  <2>2. ASSUME NEW j \in 1 .. k PROVE ~Precedes(last, <<n + 1, j>>)
    BY <1>4 DEF Precedes
  <2> QED
    BY <1>8, <2>1, <2>2
<1>11. \A place \in Places(more) : ~Precedes(place, first)
  BY <1>6 DEF FirstPlace
<1>12. RecordAt(more, first) = Opening(m) /\ RecordAt(more, first) \in ZoneSoas
  BY <1>1, <1>6 DEF ZoneSoas
<1>13. {p \in Places(more) : RecordAt(more, p) = RecordAt(more, first)} = {first, last}
  <2>1. ASSUME NEW q \in Places(more), RecordAt(more, q) = Opening(m), q # first PROVE q = last
    BY <1>1, <1>6, <1>7, <2>1
  <2> HIDE DEF last
  <2> QED
    BY <1>9, <1>12, <2>1
<1>14. last[1] = Len(more)
  BY <1>4
<1> HIDE DEF last, more
<1>15. \E f, l \in Places(more) :
          /\ \A place \in Places(more) : ~Precedes(place, f) /\ ~Precedes(l, place)
          /\ f # l /\ l[1] = Len(more) /\ RecordAt(more, f) \in ZoneSoas
          /\ {p \in Places(more) : RecordAt(more, p) = RecordAt(more, f)} = {f, l}
  BY <1>9, <1>10, <1>11, <1>12, <1>13, <1>14
<1>16. /\ more[1].question = "expected"
       /\ \A i \in DOMAIN more : /\ more[i].ours /\ more[i].question # "other"
                                 /\ more[i].aa /\ ~more[i].tc /\ more[i].code = "NoError"
  <2>1. Len(more) > 0
    BY <1>4
  <2> QED
    BY <1>2, <1>3, <1>4, <2>1 DEF AnswersOnly
<1>17. /\ Len(more) <= MaxAxfrMessages /\ Cardinality(Places(more)) <= MaxAxfrRecords
       /\ Cardinality(Octets(more)) <= MaxAxfrBytes
  BY <1>3 DEF CountsOf
<1>18. WholeTransfer(more)
  BY <1>15, <1>16, <1>17 DEF WholeTransfer
<1> QED
  BY <1>18 DEF more

-----------------------------------------------------------------------------
(* The transfer                                                            *)

Report == [endpoint : Ips, server : Nameservers, outcome : Outcomes]
States == {"unevidenced", "skipped", "cancelled", "timed out", "completed"}

TransferParts ==
    /\ transferAt \in {"soa", "ns", "start", "resolve", "connect", "read", "drain", "returned", "done"}
    /\ found \in [zone : Enclosing \cup {"none"}, left : SUBSET Nameservers, endpoints : [DOMAIN found.endpoints -> Nameservers]]
    /\ DOMAIN found.endpoints \subseteq Ips /\ Cardinality(DOMAIN found.endpoints) <= MaxAxfrEndpoints
    /\ stopped \in [token : BOOLEAN, overdue : BOOLEAN]
    /\ attempts \in Seq(Report) /\ transfer \in States \cup {"none"}
    /\ transfer = "none" <=> transferAt # "done"
    /\ transferAt \in {"soa", "ns", "start", "resolve"} => attempts = <<>>
    /\ transferAt \in {"connect", "read", "drain", "returned"} => Attempted(attempts) # DOMAIN found.endpoints

\* The frames read are those counted, and perhaps one that ended the attempt.
Tally(ms, a) ==
    /\ a \in AttemptType /\ ms \in Seq(Messages)
    /\ Len(ms) - a.messages \in {0, 1}
    /\ CountsOf(SubSeq(ms, 1, a.messages), a)
    /\ a.closing => a.first \in ZoneSoas /\ a.soas >= 2

AttemptPhases ==
    /\ transferAt \in {"soa", "ns", "start", "resolve", "connect", "done"} => attempt = NoAttempt /\ taken = <<>>
    /\ transferAt = "read" => Reading(taken, attempt)
    /\ transferAt \in {"read", "drain"} => attempt.outcome = "unreachable"

TransferSafe == TransferParts /\ Tally(taken, attempt) /\ AttemptPhases /\ AllowedIsWhole /\ AttemptsAreEndpoints

LEMMA EmptyFacts ==
    /\ Places(<<>>) = {} /\ Octets(<<>>) = {} /\ ~WholeTransfer(<<>>)
    /\ Reading(<<>>, NoAttempt) /\ CountsOf(<<>>, NoAttempt) /\ NoAttempt \in AttemptType
<1>1. Places(<<>>) = {} /\ Octets(<<>>) = {}
  BY DEF Places, Octets
<1>2. ~WholeTransfer(<<>>)
  BY <1>1 DEF WholeTransfer
<1>3. NoAttempt \in AttemptType
  BY DEF NoAttempt, AttemptType, Outcomes
<1>4. IsFiniteSet({}) /\ Cardinality({}) = 0 /\ Len(<<>>) = 0
  BY FS_EmptySet
<1>5. CountsOf(<<>>, NoAttempt)
  <2>1. NoAttempt.messages = 0 /\ NoAttempt.records = 0 /\ NoAttempt.bytes = 0
    BY DEF NoAttempt
  <2>2. IsFiniteSet(Places(<<>>)) /\ IsFiniteSet(Octets(<<>>)) /\ Cardinality(Places(<<>>)) = 0 /\ Cardinality(Octets(<<>>)) = 0
    BY <1>1, <1>4
  <2>3. 0 <= MaxAxfrMessages /\ 0 <= MaxAxfrRecords /\ 0 <= MaxAxfrBytes
    BY TransferConstants
  <2> QED
    BY <1>4, <2>1, <2>2, <2>3 DEF CountsOf
<1>6. OpenedBy(<<>>, NoAttempt)
  BY <1>1 DEF OpenedBy, NoAttempt
<1>7. AnswersOnly(<<>>, NoAttempt)
  BY <1>4 DEF AnswersOnly, NoAttempt
<1>8. <<>> \in Seq(Messages)
  OBVIOUS
<1> QED
  BY <1>1, <1>2, <1>3, <1>5, <1>6, <1>7, <1>8 DEF Reading

\* Before there is anything to read.
LEMMA EmptyTally == Tally(<<>>, NoAttempt) /\ NoAttempt.outcome = "unreachable"
<1>1. NoAttempt.messages = 0 /\ ~NoAttempt.closing /\ NoAttempt.outcome = "unreachable" /\ Len(<<>>) = 0
  BY DEF NoAttempt
<1>2. SubSeq(<<>>, 1, 0) = <<>>
  BY SubSeqEmpty
<1>3. CountsOf(SubSeq(<<>>, 1, NoAttempt.messages), NoAttempt)
  BY <1>1, <1>2, EmptyFacts
<1>4. <<>> \in Seq(Messages)
  OBVIOUS
<1> QED
  BY <1>1, <1>3, <1>4, EmptyFacts DEF Tally

LEMMA TransferInitIsSafe == ASSUME TransferInit PROVE TransferSafe
<1>1. /\ transferAt = "soa" /\ found = [zone |-> "none", left |-> {}, endpoints |-> <<>>]
      /\ stopped = [token |-> FALSE, overdue |-> FALSE] /\ attempt = NoAttempt /\ attempts = <<>> /\ taken = <<>> /\ transfer = "none"
  BY DEF TransferInit
<1>2. TransferParts
  <2>1. DOMAIN found.endpoints = {} /\ found.endpoints \in [{} -> Nameservers] /\ Cardinality({}) = 0
    BY <1>1, FS_EmptySet
  <2>2. found \in [zone : Enclosing \cup {"none"}, left : SUBSET Nameservers, endpoints : [DOMAIN found.endpoints -> Nameservers]]
    BY <1>1, <2>1
  <2> QED
    BY <1>1, <2>1, <2>2, TransferConstants DEF TransferParts
<1>3. Tally(taken, attempt)
  BY <1>1, EmptyTally
<1>4. AttemptPhases
  BY <1>1 DEF AttemptPhases
<1>5. AllowedIsWhole
  BY <1>1, EmptyFacts DEF AllowedIsWhole, NoAttempt
<1>6. AttemptsAreEndpoints
  BY <1>1 DEF AttemptsAreEndpoints
<1> QED
  BY <1>2, <1>3, <1>4, <1>5, <1>6 DEF TransferSafe

\* Nothing is attempted yet.
LEMMA NotYetAttempting ==
    ASSUME TransferParts', attempts' = <<>>, attempt' = NoAttempt, taken' = <<>>, transfer' # "completed",
           transferAt' \notin {"read", "drain", "returned"}
    PROVE  TransferSafe'
<1>1. Tally(<<>>, NoAttempt) /\ ~WholeTransfer(<<>>) /\ NoAttempt.outcome = "unreachable"
  BY EmptyTally, EmptyFacts
<1>2. Tally(taken', attempt')
  BY <1>1
<1>3. AttemptPhases'
  BY DEF AttemptPhases
<1>4. AllowedIsWhole'
  BY <1>1 DEF AllowedIsWhole
<1>5. AttemptsAreEndpoints'
  BY DEF AttemptsAreEndpoints
<1> QED
  BY <1>2, <1>3, <1>4, <1>5 DEF TransferSafe

LEMMA BeforeAttempts ==
    ASSUME TransferSafe, transferAt \in {"soa", "ns", "start", "resolve"}
    PROVE  /\ attempts = <<>> /\ attempt = NoAttempt /\ taken = <<>> /\ transfer = "none" /\ TransferParts
           /\ found.zone \in Enclosing \cup {"none"} /\ found.left \subseteq Nameservers
           /\ found.endpoints \in [DOMAIN found.endpoints -> Nameservers]
           /\ found = [zone |-> found.zone, left |-> found.left, endpoints |-> found.endpoints]
<1>1. /\ attempts = <<>> /\ attempt = NoAttempt /\ taken = <<>> /\ transfer = "none" /\ TransferParts
  BY DEF TransferSafe, TransferParts, AttemptPhases
<1>2. found \in [zone : Enclosing \cup {"none"}, left : SUBSET Nameservers, endpoints : [DOMAIN found.endpoints -> Nameservers]]
  BY <1>1 DEF TransferParts
<1> DEFINE values == [DOMAIN found.endpoints -> Nameservers]
<1> HIDE DEF values
<1>3. found \in [zone : Enclosing \cup {"none"}, left : SUBSET Nameservers, endpoints : values]
  BY <1>2 DEF values
<1>4. /\ found.zone \in Enclosing \cup {"none"} /\ found.left \subseteq Nameservers /\ found.endpoints \in values
      /\ found = [zone |-> found.zone, left |-> found.left, endpoints |-> found.endpoints]
  BY <1>3
<1> QED
  BY <1>1, <1>4 DEF values

\* A step of the preparation: what it may find.
LEMMA PreparesSafely ==
    ASSUME TransferSafe, transferAt \in {"soa", "ns", "start", "resolve"}, UNCHANGED <<stopped, attempt, attempts, taken>>,
           NEW zone \in Enclosing \cup {"none"}, NEW left \in SUBSET Nameservers, NEW endpoints,
           found' = [zone |-> zone, left |-> left, endpoints |-> endpoints],
           endpoints \in [DOMAIN endpoints -> Nameservers], DOMAIN endpoints \subseteq Ips,
           Cardinality(DOMAIN endpoints) <= MaxAxfrEndpoints,
           \/ transferAt' = "done" /\ transfer' \in States \ {"completed"}
           \/ transferAt' \in {"soa", "ns", "start", "resolve"} /\ transfer' = transfer
           \/ transferAt' = "connect" /\ transfer' = transfer /\ DOMAIN endpoints # {}
    PROVE  TransferSafe'
<1>1. attempts = <<>> /\ attempt = NoAttempt /\ taken = <<>> /\ transfer = "none" /\ TransferParts
  BY BeforeAttempts
<1>2. found'.endpoints = endpoints
  OBVIOUS
<1>3. found' \in [zone : Enclosing \cup {"none"}, left : SUBSET Nameservers, endpoints : [DOMAIN endpoints -> Nameservers]]
  <2> DEFINE values == [DOMAIN endpoints -> Nameservers]
  <2>1. endpoints \in values
    OBVIOUS
  <2> HIDE DEF values
  <2>2. found' \in [zone : Enclosing \cup {"none"}, left : SUBSET Nameservers, endpoints : values]
    BY <2>1
  <2> QED
    BY <2>2 DEF values
<1>4. transfer' # "completed" /\ transferAt' \notin {"read", "drain", "returned"} /\ (transfer' = "none" <=> transferAt' # "done")
  BY <1>1 DEF States
<1>5. transferAt' = "connect" => Attempted(attempts') # DOMAIN endpoints
  BY <1>1 DEF Attempted
<1>6. TransferParts'
  BY <1>1, <1>2, <1>3, <1>4, <1>5 DEF TransferParts, States
<1> QED
  BY <1>1, <1>4, <1>6, NotYetAttempting

LEMMA LookupSoaIsSafe == ASSUME TransferSafe, LookupSoa PROVE TransferSafe'
<1>1. transferAt = "soa" /\ UNCHANGED <<stopped, attempt, attempts, taken>>
  BY DEF LookupSoa
<1>2. /\ TransferParts /\ transfer = "none" /\ found.zone \in Enclosing \cup {"none"} /\ found.left \subseteq Nameservers
      /\ found.endpoints \in [DOMAIN found.endpoints -> Nameservers]
      /\ found = [zone |-> found.zone, left |-> found.left, endpoints |-> found.endpoints]
  BY <1>1, BeforeAttempts
<1>3. DOMAIN found.endpoints \subseteq Ips /\ Cardinality(DOMAIN found.endpoints) <= MaxAxfrEndpoints
  BY <1>2 DEF TransferParts
<1>4. PICK owners \in SUBSET Owners :
         IF Cardinality(exact_soa_zone(owners)) = 1
         THEN /\ transferAt' = "ns" /\ UNCHANGED transfer
              /\ found' = [found EXCEPT !.zone = CHOOSE z \in exact_soa_zone(owners) : TRUE]
         ELSE transferAt' = "done" /\ transfer' = "unevidenced" /\ UNCHANGED found
  BY DEF LookupSoa
<1>5. CASE Cardinality(exact_soa_zone(owners)) = 1
  <2> DEFINE zone == CHOOSE z \in exact_soa_zone(owners) : TRUE
  <2>1. zone \in Enclosing
    <3>1. exact_soa_zone(owners) # {}
      BY <1>5, FS_EmptySet
    <3> QED
      BY <3>1 DEF exact_soa_zone
  <2> HIDE DEF zone
  <2>2. found' = [found EXCEPT !.zone = zone] /\ transferAt' = "ns" /\ transfer' = transfer
    BY <1>4, <1>5 DEF zone
  <2>3. found' = [zone |-> zone, left |-> found.left, endpoints |-> found.endpoints]
    BY <1>2, <2>2
  <2> QED
    BY <1>1, <1>2, <1>3, <2>1, <2>2, <2>3, PreparesSafely
<1>6. CASE Cardinality(exact_soa_zone(owners)) # 1
  BY <1>1, <1>2, <1>3, <1>4, <1>6, PreparesSafely DEF States
<1> QED
  BY <1>5, <1>6

LEMMA LookupNsIsSafe == ASSUME TransferSafe, LookupNs PROVE TransferSafe'
<1>1. transferAt = "ns" /\ UNCHANGED <<stopped, attempt, attempts, taken>>
  BY DEF LookupNs
<1>2. /\ TransferParts /\ transfer = "none" /\ found.zone \in Enclosing \cup {"none"} /\ found.left \subseteq Nameservers
      /\ found.endpoints \in [DOMAIN found.endpoints -> Nameservers]
      /\ found = [zone |-> found.zone, left |-> found.left, endpoints |-> found.endpoints]
  BY <1>1, BeforeAttempts
<1>3. DOMAIN found.endpoints \subseteq Ips /\ Cardinality(DOMAIN found.endpoints) <= MaxAxfrEndpoints
  BY <1>2 DEF TransferParts
<1>4. PICK servers \in SUBSET Nameservers :
         IF servers # {}
         THEN /\ transferAt' = "start" /\ UNCHANGED transfer
              /\ found' = [found EXCEPT !.left = Least(MaxAxfrNameservers, servers)]
         ELSE transferAt' = "done" /\ transfer' = "unevidenced" /\ UNCHANGED found
  BY DEF LookupNs
<1>5. CASE servers # {}
  <2> DEFINE left == Least(MaxAxfrNameservers, servers)
  <2>1. left \in SUBSET Nameservers
    BY DEF Least
  <2> HIDE DEF left
  <2>2. found' = [found EXCEPT !.left = left] /\ transferAt' = "start" /\ transfer' = transfer
    BY <1>4, <1>5 DEF left
  <2>3. found' = [zone |-> found.zone, left |-> left, endpoints |-> found.endpoints]
    BY <1>2, <2>2
  <2> QED
    BY <1>1, <1>2, <1>3, <2>1, <2>2, <2>3, PreparesSafely
<1>6. CASE servers = {}
  BY <1>1, <1>2, <1>3, <1>4, <1>6, PreparesSafely DEF States
<1> QED
  BY <1>5, <1>6

\* A step of the preparation that finds nothing new.
LEMMA FindsNothing ==
    ASSUME TransferSafe, transferAt \in {"start", "resolve"}, UNCHANGED <<found, stopped, attempt, attempts, taken>>,
           \/ Finish("cancelled") \/ Finish("timed out") \/ Finish("skipped")
           \/ transferAt' = "resolve" /\ transfer' = transfer
           \/ transferAt' = "connect" /\ transfer' = transfer /\ DOMAIN found.endpoints # {}
    PROVE  TransferSafe'
<1>1. /\ TransferParts /\ transfer = "none" /\ found.zone \in Enclosing \cup {"none"} /\ found.left \in SUBSET Nameservers
      /\ found.endpoints \in [DOMAIN found.endpoints -> Nameservers]
      /\ found = [zone |-> found.zone, left |-> found.left, endpoints |-> found.endpoints]
  BY BeforeAttempts
<1>2. DOMAIN found.endpoints \subseteq Ips /\ Cardinality(DOMAIN found.endpoints) <= MaxAxfrEndpoints
  BY <1>1 DEF TransferParts
<1>3. \/ transferAt' = "done" /\ transfer' \in States \ {"completed"}
      \/ transferAt' \in {"soa", "ns", "start", "resolve"} /\ transfer' = transfer
      \/ transferAt' = "connect" /\ transfer' = transfer /\ DOMAIN found.endpoints # {}
  BY DEF Finish, States
<1>4. found' = [zone |-> found.zone, left |-> found.left, endpoints |-> found.endpoints]
  BY <1>1
<1> QED
  BY <1>1, <1>2, <1>3, <1>4, PreparesSafely

LEMMA StartIsSafe == ASSUME TransferSafe, StartTransfer PROVE TransferSafe'
BY FindsNothing DEF StartTransfer

LEMMA BeginIsSafe == ASSUME TransferSafe, BeginAttempts PROVE TransferSafe'
<1>1. transferAt = "resolve" /\ UNCHANGED <<found, stopped, attempt, attempts, taken>>
  BY DEF BeginAttempts
<1>2. CASE found.endpoints = <<>>
  BY <1>1, <1>2, FindsNothing DEF BeginAttempts
<1>3. CASE found.endpoints # <<>>
  <2>1. found.endpoints \in [DOMAIN found.endpoints -> Nameservers]
    BY <1>1, BeforeAttempts
  <2>2. DOMAIN found.endpoints # {}
    <3> SUFFICES ASSUME DOMAIN found.endpoints = {} PROVE FALSE
      OBVIOUS
    <3>1. found.endpoints = [x \in {} |-> 0]
      BY <2>1
    <3>2. <<>> = [x \in {} |-> 0]
      OBVIOUS
    <3> QED
      BY <1>3, <3>1, <3>2
  <2>3. transferAt' = "connect" /\ transfer' = transfer
    BY <1>3 DEF BeginAttempts
  <2> QED
    BY <1>1, <2>2, <2>3, FindsNothing
<1> QED
  BY <1>2, <1>3

\* The addresses of a nameserver: they fit, and each belongs to a nameserver.
LEMMA EndpointsFit ==
    ASSUME NEW e, e \in [DOMAIN e -> Nameservers], DOMAIN e \subseteq Ips, Cardinality(DOMAIN e) <= MaxAxfrEndpoints,
           NEW server \in Nameservers, NEW ips \in SUBSET Ips
    PROVE  LET more == add_axfr_endpoints(e, server, ips)
           IN  /\ more \in [DOMAIN more -> Nameservers] /\ DOMAIN more \subseteq Ips
               /\ Cardinality(DOMAIN more) <= MaxAxfrEndpoints
<1> DEFINE fresh == Least(MaxAxfrIpsPerNameserver, ips) \ DOMAIN e
           room == MaxAxfrEndpoints - Cardinality(DOMAIN e)
           fit == Least(room, fresh)
           more == add_axfr_endpoints(e, server, ips)
<1>1. IsFiniteSet(Ips) /\ Ips \subseteq Nat
  BY TransferAssumption
<1>2. fresh \subseteq Ips /\ fresh \cap DOMAIN e = {}
  BY DEF Least
<1>3. IsFiniteSet(fresh) /\ IsFiniteSet(DOMAIN e) /\ fresh \subseteq Nat
  BY <1>1, <1>2, FS_Subset
<1>4. Cardinality(DOMAIN e) \in Nat
  BY <1>3, FS_CardinalityType
<1>5. room \in Nat
  BY <1>4, TransferConstants
<1>6. more = [x \in DOMAIN e \cup fit |-> IF x \in DOMAIN e THEN e[x] ELSE server]
  BY DEF add_axfr_endpoints
<1> HIDE DEF more, fresh
<1>7. fit \subseteq fresh /\ IsFiniteSet(fit) /\ Cardinality(fit) \in Nat /\ Cardinality(fit) <= room
  <2> HIDE DEF room
  <2> QED
    BY <1>3, <1>5, LeastFacts
<1> HIDE DEF fit
<1>8. DOMAIN more = DOMAIN e \cup fit
  BY <1>6
<1>9. \A x \in DOMAIN more : more[x] \in Nameservers
  BY <1>6
<1>10. more \in [DOMAIN more -> Nameservers]
  BY <1>6, <1>8, <1>9
<1>11. Cardinality(DOMAIN e \cup fit) = Cardinality(DOMAIN e) + Cardinality(fit) - Cardinality(DOMAIN e \cap fit)
  BY <1>3, <1>7, FS_Union
<1>12. DOMAIN e \cap fit = {} /\ Cardinality({}) = 0
  BY <1>2, <1>7, FS_EmptySet
<1>13. Cardinality(DOMAIN e \cup fit) <= MaxAxfrEndpoints
  BY <1>4, <1>7, <1>11, <1>12, TransferConstants
<1>14. DOMAIN more \subseteq Ips
  BY <1>2, <1>7, <1>8
<1> QED
  BY <1>8, <1>10, <1>13, <1>14 DEF more

LEMMA ResolveIsSafe == ASSUME TransferSafe, Resolve PROVE TransferSafe'
<1>1. transferAt = "resolve" /\ found.left # {} /\ UNCHANGED <<stopped, attempt, attempts, taken>>
  BY DEF Resolve
<1>2. /\ TransferParts /\ transfer = "none" /\ found.zone \in Enclosing \cup {"none"} /\ found.left \subseteq Nameservers
      /\ found.endpoints \in [DOMAIN found.endpoints -> Nameservers]
      /\ found = [zone |-> found.zone, left |-> found.left, endpoints |-> found.endpoints]
  BY <1>1, BeforeAttempts
<1>3. DOMAIN found.endpoints \subseteq Ips /\ Cardinality(DOMAIN found.endpoints) <= MaxAxfrEndpoints
  BY <1>2 DEF TransferParts
<1>4. Server \in Nameservers
  <2>1. found.left \subseteq Nat
    BY <1>2, TransferAssumption
  <2>2. Server \in found.left
    BY <1>1, <2>1, LeastNatural DEF Server
  <2> QED
    BY <1>2, <2>2
<1> DEFINE left == found.left \ {Server}
<1>5. left \in SUBSET Nameservers
  BY <1>2
<1>6. CASE (Finish("cancelled") \/ Finish("timed out")) /\ UNCHANGED found
  BY <1>1, <1>6, FindsNothing
<1>7. CASE transferAt' = transferAt /\ transfer' = transfer /\ found' = [found EXCEPT !.left = @ \ {Server}]
  <2> HIDE DEF left
  <2>1. found' = [zone |-> found.zone, left |-> left, endpoints |-> found.endpoints]
    BY <1>2, <1>7 DEF left
  <2> QED
    BY <1>1, <1>2, <1>3, <1>5, <1>7, <2>1, PreparesSafely
<1>8. ASSUME NEW ips \in SUBSET Ips, transferAt' = transferAt, transfer' = transfer,
             found' = [found EXCEPT !.left = @ \ {Server}, !.endpoints = add_axfr_endpoints(@, Server, ips)]
      PROVE  TransferSafe'
  <2> DEFINE more == add_axfr_endpoints(found.endpoints, Server, ips)
  <2>1. more \in [DOMAIN more -> Nameservers] /\ DOMAIN more \subseteq Ips /\ Cardinality(DOMAIN more) <= MaxAxfrEndpoints
    BY <1>2, <1>3, <1>4, EndpointsFit
  <2> HIDE DEF left, more
  <2>2. found' = [found EXCEPT !.left = left, !.endpoints = more]
    BY <1>2, <1>8 DEF left, more
  <2>3. found' = [zone |-> found.zone, left |-> left, endpoints |-> more]
    BY <1>2, <2>2
  <2> QED
    BY <1>1, <1>2, <1>3, <1>5, <1>8, <2>1, <2>3, PreparesSafely
<1> QED
  BY <1>6, <1>7, <1>8 DEF Resolve

LEMMA AttemptsStay ==
    ASSUME AttemptsAreEndpoints, UNCHANGED <<found, attempts, transfer>>
    PROVE  AttemptsAreEndpoints'
BY DEF AttemptsAreEndpoints, Attempted, Last

\* A step within an attempt.
LEMMA WithinAttempt ==
    ASSUME TransferSafe, transferAt \in {"connect", "read", "drain"}, UNCHANGED <<found, stopped, attempts, transfer>>,
           transferAt' \in {"read", "drain", "returned"}, Tally(taken', attempt'),
           transferAt' = "read" => Reading(taken', attempt'),
           transferAt' \in {"read", "drain"} => attempt'.outcome = "unreachable",
           transferAt' = "drain" => WholeTransfer(taken'),
           transferAt' = "returned" =>
               /\ attempt'.outcome = "allowed" => WholeTransfer(taken')
               /\ WholeTransfer(taken') => attempt'.outcome \in {"allowed", "incomplete", "cancelled"}
    PROVE  TransferSafe'
<1>1. TransferParts /\ AttemptsAreEndpoints
  BY DEF TransferSafe
<1>2. TransferParts'
  BY <1>1 DEF TransferParts, Attempted
<1>3. AttemptsAreEndpoints'
  BY <1>1, AttemptsStay
<1>4. AttemptPhases'
  BY DEF AttemptPhases
<1>5. AllowedIsWhole'
  <2>1. CASE transferAt' = "read"
    <3>1. ~WholeTransfer(taken') /\ attempt'.outcome = "unreachable"
      BY <2>1, NotWholeYet
    <3> QED
      BY <2>1, <3>1 DEF AllowedIsWhole
  <2>2. CASE transferAt' = "drain"
    BY <2>2 DEF AllowedIsWhole
  <2>3. CASE transferAt' = "returned"
    BY <2>3 DEF AllowedIsWhole
  <2> QED
    BY <2>1, <2>2, <2>3
<1>6. Tally(taken, attempt)'
  OBVIOUS
<1> QED
  BY <1>2, <1>3, <1>4, <1>5, <1>6 DEF TransferSafe

\* What an attempt returns with does not touch its counts.
LEMMA TallyOfOutcome ==
    ASSUME NEW ms, NEW a, Tally(ms, a), NEW outcome \in Outcomes
    PROVE  /\ Tally(ms, [a EXCEPT !.outcome = outcome]) /\ [a EXCEPT !.outcome = outcome].outcome = outcome
<1> DEFINE b == [a EXCEPT !.outcome = outcome]
<1>1. a \in AttemptType
  BY DEF Tally
<1>2. /\ b \in AttemptType /\ b.outcome = outcome
      /\ b.messages = a.messages /\ b.records = a.records /\ b.bytes = a.bytes
      /\ b.closing = a.closing /\ b.first = a.first /\ b.soas = a.soas
  BY <1>1 DEF AttemptType
<1> HIDE DEF b
<1>3. Tally(ms, b)
  BY <1>2 DEF Tally, CountsOf
<1> QED
  BY <1>2, <1>3 DEF b

LEMMA ReadingTallies ==
    ASSUME NEW ms, NEW a, Reading(ms, a)
    PROVE  Tally(ms, a)
<1>1. ms \in Seq(Messages) /\ a \in AttemptType /\ CountsOf(ms, a) /\ ~a.closing
  BY DEF Reading, OpenedBy
<1>2. a.messages = Len(ms) /\ Len(ms) \in Nat
  BY <1>1, LenProperties DEF CountsOf
<1>3. SubSeq(ms, 1, Len(ms)) = ms
  BY <1>1
<1>4. Len(ms) - a.messages = 0
  BY <1>2
<1> QED
  BY <1>1, <1>2, <1>3, <1>4 DEF Tally

\* What is known while an attempt is under way.
LEMMA UnderWay ==
    ASSUME TransferSafe, transferAt \in {"connect", "read", "drain"}
    PROVE  /\ Tally(taken, attempt) /\ attempt \in AttemptType /\ attempt.outcome = "unreachable"
           /\ WholeTransfer(taken) <=> transferAt = "drain"
           /\ transferAt = "connect" => attempt = NoAttempt /\ taken = <<>>
<1>1. Tally(taken, attempt) /\ AttemptPhases /\ AllowedIsWhole
  BY DEF TransferSafe
<1>2. attempt \in AttemptType
  BY <1>1 DEF Tally
<1>3. attempt.outcome = "unreachable"
  BY <1>1, EmptyTally DEF AttemptPhases
<1> QED
  BY <1>1, <1>2, <1>3 DEF AllowedIsWhole, AttemptPhases

LEMMA ConnectIsSafe == ASSUME TransferSafe, Connect PROVE TransferSafe'
<1>1. transferAt = "connect" /\ transferAt' = "read" /\ UNCHANGED <<found, stopped, attempt, attempts, taken, transfer>>
  BY DEF Connect
<1>2. attempt = NoAttempt /\ taken = <<>>
  BY <1>1, UnderWay
<1>3. Reading(<<>>, NoAttempt) /\ Tally(<<>>, NoAttempt) /\ NoAttempt.outcome = "unreachable"
  BY EmptyFacts, EmptyTally
<1>4. Reading(taken', attempt') /\ Tally(taken', attempt') /\ attempt'.outcome = "unreachable"
  BY <1>1, <1>2, <1>3
<1> QED
  BY <1>1, <1>4, WithinAttempt

\* An attempt that returns without another frame.
LEMMA ReturnIsSafe ==
    ASSUME TransferSafe, transferAt \in {"connect", "read", "drain"}, NEW outcome \in Outcomes, Return(outcome),
           outcome = "allowed" => transferAt = "drain",
           transferAt = "drain" => outcome \in {"allowed", "incomplete", "cancelled"}
    PROVE  TransferSafe'
<1>1. Tally(taken, attempt) /\ (WholeTransfer(taken) <=> transferAt = "drain")
  BY UnderWay
<1>2. transferAt' = "returned" /\ taken' = taken /\ UNCHANGED <<found, stopped, attempts, transfer>>
      /\ attempt' = [attempt EXCEPT !.outcome = outcome]
  BY DEF Return
<1>3. Tally(taken', attempt') /\ attempt'.outcome = outcome
  BY <1>1, <1>2, TallyOfOutcome
<1> QED
  BY <1>1, <1>2, <1>3, WithinAttempt

LEMMA ReturnsAreSafe ==
    ASSUME TransferSafe, FailConnect \/ AttemptCancelled \/ AttemptTimeout \/ StreamEnds \/ DrainFrame \/ DrainSilence
    PROVE  TransferSafe'
<1> USE DEF Outcomes
<1>1. CASE FailConnect
  BY <1>1, ReturnIsSafe DEF FailConnect
<1>2. CASE AttemptCancelled
  BY <1>2, ReturnIsSafe DEF AttemptCancelled
<1>3. CASE AttemptTimeout
  BY <1>3, ReturnIsSafe DEF AttemptTimeout
<1>4. CASE StreamEnds
  BY <1>4, ReturnIsSafe DEF StreamEnds
<1>5. CASE DrainFrame
  BY <1>5, ReturnIsSafe DEF DrainFrame
<1>6. CASE DrainSilence
  BY <1>6, ReturnIsSafe DEF DrainSilence
<1> QED
  BY <1>1, <1>2, <1>3, <1>4, <1>5, <1>6

\* A frame that ends the attempt before it counts.
LEMMA UncountedTally ==
    ASSUME Reading(taken, attempt), NEW m \in Messages
    PROVE  Tally(Append(taken, m), attempt)
<1>1. taken \in Seq(Messages) /\ attempt \in AttemptType /\ CountsOf(taken, attempt) /\ ~attempt.closing
  BY DEF Reading, OpenedBy
<1>2. attempt.messages = Len(taken) /\ Len(taken) \in Nat
  BY <1>1, LenProperties DEF CountsOf
<1>3. Append(taken, m) \in Seq(Messages) /\ Len(Append(taken, m)) = Len(taken) + 1 /\ SubSeq(Append(taken, m), 1, Len(taken)) = taken
  BY <1>1
<1>4. Len(Append(taken, m)) - attempt.messages = 1
  BY <1>2, <1>3
<1> QED
  BY <1>1, <1>2, <1>3, <1>4 DEF Tally

\* A frame that counts.
LEMMA CountedTally ==
    ASSUME Reading(taken, attempt), NEW m \in Messages, ~Exceeds(m), NEW a \in AttemptType,
           a.messages = attempt.messages + 1, a.bytes = attempt.bytes + m.size,
           a.records = attempt.records + Len(m.answers), a.closing => a.first \in ZoneSoas /\ a.soas >= 2
    PROVE  Tally(Append(taken, m), a)
<1>1. taken \in Seq(Messages) /\ attempt \in AttemptType /\ CountsOf(taken, attempt)
  BY DEF Reading
<1>2. attempt.messages = Len(taken) /\ Len(taken) \in Nat
  BY <1>1, LenProperties DEF CountsOf
<1>3. /\ Append(taken, m) \in Seq(Messages) /\ Len(Append(taken, m)) = Len(taken) + 1
      /\ SubSeq(Append(taken, m), 1, Len(taken) + 1) = Append(taken, m)
  BY <1>1
<1>4. Len(Append(taken, m)) - a.messages = 0
  BY <1>2, <1>3
<1>5. CountsOf(Append(taken, m), a)
  BY FrameCounts
<1> QED
  BY <1>2, <1>3, <1>4, <1>5 DEF Tally

\* A frame that ends the attempt.
LEMMA FrameEnds ==
    ASSUME TransferSafe, transferAt = "read", UNCHANGED <<found, stopped, attempts, transfer>>,
           NEW m \in Messages, taken' = Append(taken, m), transferAt' = "returned",
           NEW a, Tally(Append(taken, m), a), NEW outcome \in Outcomes, attempt' = [a EXCEPT !.outcome = outcome],
           outcome # "allowed", outcome = "incomplete" \/ ~WholeTransfer(Append(taken, m))
    PROVE  TransferSafe'
<1>1. Tally(taken', attempt') /\ attempt'.outcome = outcome
  BY TallyOfOutcome
<1> QED
  BY <1>1, WithinAttempt

LEMMA ReadIsSafe == ASSUME TransferSafe, ReadMessage PROVE TransferSafe'
<1>1. transferAt = "read" /\ UNCHANGED <<found, stopped, attempts, transfer>>
  BY DEF ReadMessage
<1>2. PICK m \in Messages : Read(m) /\ taken' = Append(taken, m)
  BY DEF ReadMessage
<1>3. Reading(taken, attempt) /\ attempt.outcome = "unreachable" /\ attempt \in AttemptType /\ taken \in Seq(Messages)
  BY <1>1 DEF TransferSafe, AttemptPhases, Reading
<1>4. Tally(Append(taken, m), attempt)
  BY <1>3, UncountedTally
<1>5. ~Exceeds(m) => Tally(Append(taken, m), Counted(m))
  <2> SUFFICES ASSUME ~Exceeds(m) PROVE Tally(Append(taken, m), Counted(m))
    OBVIOUS
  <2> DEFINE a == Counted(m)
  <2>1. /\ a \in AttemptType
        /\ \A f \in {"outcome", "soas", "first", "closing", "authoritative", "truncated"} : a[f] = attempt[f]
        /\ a.messages = attempt.messages + 1 /\ a.bytes = attempt.bytes + m.size
        /\ a.records = attempt.records + Len(m.answers)
    BY <1>3, CountedFields
  <2>2. ~attempt.closing
    BY <1>3 DEF Reading, OpenedBy
  <2> HIDE DEF a
  <2>3. a.closing = attempt.closing
    BY <2>1
  <2>4. Tally(Append(taken, m), a)
    BY <1>3, <2>1, <2>2, <2>3, CountedTally
  <2> QED
    BY <2>4 DEF a
<1>6. ~Exceeds(m) => Tally(Append(taken, m), Scanned(m)) /\ Scanned(m).outcome = "unreachable"
  <2> SUFFICES ASSUME ~Exceeds(m) PROVE Tally(Append(taken, m), Scanned(m)) /\ Scanned(m).outcome = "unreachable"
    OBVIOUS
  <2> DEFINE a == Scanned(m)
  <2>1. /\ a \in AttemptType /\ a.outcome = "unreachable" /\ a.messages = attempt.messages + 1 /\ a.bytes = attempt.bytes + m.size
        /\ a.records = attempt.records + Len(m.answers) /\ (a.closing => a.first \in ZoneSoas /\ a.soas >= 2)
    BY <1>3, ScannedFields
  <2> HIDE DEF a
  <2>2. Tally(Append(taken, m), a)
    BY <1>3, <2>1, CountedTally
  <2> QED
    BY <2>1, <2>2 DEF a
<1>7. m.code # "NoError" => ~WholeTransfer(Append(taken, m))
  BY <1>3, RefusalIsNotWhole
<1>8. {"incomplete", "limit exceeded", "refused", "not authoritative"} \subseteq Outcomes
  BY DEF Outcomes
<1> DEFINE Ends(a, outcome) == transferAt' = "returned" /\ attempt' = [a EXCEPT !.outcome = outcome]
<1>9. CASE Foreign(m)
  <2>1. Ends(attempt, "incomplete")
    BY <1>2, <1>9 DEF Read
  <2> QED
    BY <1>1, <1>2, <1>4, <1>8, <2>1, FrameEnds
<1>10. CASE ~Foreign(m) /\ Exceeds(m)
  <2>1. Ends(attempt, "limit exceeded")
    BY <1>2, <1>10 DEF Read
  <2>2. ~WholeTransfer(Append(taken, m))
    BY <1>3, <1>10, ExceedsIsNotWhole
  <2> QED
    BY <1>1, <1>2, <1>4, <1>8, <2>1, <2>2, FrameEnds
<1>11. CASE ~Foreign(m) /\ ~Exceeds(m) /\ (Code(m) # m.code \/ m.code # "NoError")
  <2>1. PICK outcome \in {"incomplete", "refused", "not authoritative"} :
           Ends(Counted(m), outcome) /\ (outcome = "incomplete" \/ m.code # "NoError")
    BY <1>2, <1>11 DEF Read
  <2> QED
    BY <1>1, <1>2, <1>5, <1>7, <1>8, <1>11, <2>1, FrameEnds
<1>12. CASE ~Foreign(m) /\ ~Exceeds(m) /\ Code(m) = m.code /\ m.code = "NoError"
  <2> DEFINE record == Scanned(m)
             rejected == Trailing(m) \/ (record.closing /\ (~record.authoritative \/ record.truncated))
  <2>1. IF rejected THEN Ends(record, "incomplete")
        ELSE attempt' = record /\ transferAt' = IF record.closing THEN "drain" ELSE "read"
    BY <1>2, <1>12 DEF Read
  <2>2. CASE rejected
    BY <1>1, <1>2, <1>6, <1>8, <1>12, <2>1, <2>2, FrameEnds
  <2>3. CASE ~rejected /\ record.closing
    <3>1. Closings(m) # {}
      BY <1>3, <2>3, ScannedFields
    <3>2. WholeTransfer(Append(taken, m))
      BY <1>3, <1>12, <2>3, <3>1, ClosesWhole
    <3>3. attempt' = record /\ transferAt' = "drain"
      BY <2>1, <2>3
    <3> QED
      BY <1>1, <1>2, <1>6, <1>12, <3>2, <3>3, WithinAttempt
  <2>4. CASE ~rejected /\ ~record.closing
    <3>1. Closings(m) = {}
      BY <1>3, <2>4, ScannedFields
    <3>2. Reading(Append(taken, m), record)
      BY <1>3, <1>12, <3>1, ReadsOn
    <3>3. attempt' = record /\ transferAt' = "read"
      BY <2>1, <2>4
    <3> QED
      BY <1>1, <1>2, <1>6, <1>12, <3>2, <3>3, WithinAttempt
  <2> QED
    BY <2>2, <2>3, <2>4
<1> QED
  BY <1>9, <1>10, <1>11, <1>12

\* One attempt more: the least endpoint that was not attempted yet.
LEMMA OneAttemptMore ==
    ASSUME TransferSafe, transferAt = "returned"
    PROVE  /\ Attempts \in Seq(Report) /\ Len(Attempts) = Len(attempts) + 1 /\ Len(attempts) \in Nat
           /\ Attempts[Len(attempts) + 1].outcome = attempt.outcome
           /\ Attempts[Len(attempts) + 1].endpoint = NextEndpoint
           /\ \A i \in 1 .. Len(attempts) : Attempts[i] = attempts[i]
           /\ NextEndpoint \in DOMAIN found.endpoints /\ NextEndpoint \notin Attempted(attempts)
           /\ \A e \in DOMAIN found.endpoints : e \notin Attempted(attempts) => NextEndpoint <= e
<1> DEFINE E == DOMAIN found.endpoints
           next == NextEndpoint
           report == [endpoint |-> next, server |-> found.endpoints[next], outcome |-> attempt.outcome]
<1>1. TransferParts /\ AttemptsAreEndpoints /\ attempt \in AttemptType
  BY DEF TransferSafe, Tally
<1>2. attempts \in Seq(Report) /\ Attempted(attempts) # E /\ E \subseteq Ips
  BY <1>1 DEF TransferParts
<1>3. Attempted(attempts) \subseteq E
  BY <1>1 DEF AttemptsAreEndpoints, Attempted
<1>4. E \ Attempted(attempts) # {} /\ E \ Attempted(attempts) \subseteq Nat
  BY <1>2, <1>3, TransferAssumption
<1>5. next \in E \ Attempted(attempts) /\ \A e \in E \ Attempted(attempts) : next <= e
  BY <1>4, LeastNatural DEF NextEndpoint
<1>6. found.endpoints \in [E -> Nameservers]
  <2> DEFINE values == [E -> Nameservers]
  <2>1. found \in [zone : Enclosing \cup {"none"}, left : SUBSET Nameservers, endpoints : values]
    BY <1>1 DEF TransferParts
  <2> HIDE DEF values
  <2>2. found.endpoints \in values
    BY <2>1
  <2> QED
    BY <2>2 DEF values
<1>7. found.endpoints[next] \in Nameservers /\ attempt.outcome \in Outcomes
  BY <1>1, <1>5, <1>6 DEF AttemptType
<1>8. Attempts = Append(attempts, report)
  BY DEF Attempts
<1> HIDE DEF next, E
<1>9. report \in Report
  BY <1>2, <1>5, <1>7 DEF Report
<1>10. report.outcome = attempt.outcome /\ report.endpoint = next
  OBVIOUS
<1> HIDE DEF report
<1>11. /\ Append(attempts, report) \in Seq(Report) /\ Len(Append(attempts, report)) = Len(attempts) + 1 /\ Len(attempts) \in Nat
       /\ Append(attempts, report)[Len(attempts) + 1] = report
       /\ \A i \in 1 .. Len(attempts) : Append(attempts, report)[i] = attempts[i]
  BY <1>2, <1>9
<1> QED
  BY <1>5, <1>8, <1>10, <1>11 DEF next, E

LEMMA EndIsSafe == ASSUME TransferSafe, EndAttempt PROVE TransferSafe'
<1> DEFINE E == DOMAIN found.endpoints
           n == Len(attempts)
<1>1. /\ transferAt = "returned" /\ attempts' = Attempts /\ attempt' = NoAttempt /\ taken' = <<>>
      /\ found' = found /\ stopped' = stopped
      /\ IF attempt.outcome = "cancelled" THEN Finish("cancelled")
         ELSE IF stopped.overdue THEN Finish("timed out")
         ELSE IF Attempted(Attempts) = E THEN Finish("completed")
         ELSE transferAt' = "connect" /\ UNCHANGED transfer
  BY DEF EndAttempt
<1>2. /\ Attempts \in Seq(Report) /\ Len(Attempts) = n + 1 /\ n \in Nat
      /\ Attempts[n + 1].outcome = attempt.outcome /\ Attempts[n + 1].endpoint = NextEndpoint
      /\ \A i \in 1 .. n : Attempts[i] = attempts[i]
      /\ NextEndpoint \in E /\ NextEndpoint \notin Attempted(attempts)
      /\ \A e \in E : e \notin Attempted(attempts) => NextEndpoint <= e
  BY <1>1, OneAttemptMore
<1>3. TransferParts /\ AttemptsAreEndpoints /\ transfer = "none"
  BY <1>1 DEF TransferSafe, TransferParts
<1>4. attempts \in Seq(Report) /\ E \subseteq Nat /\ DOMAIN attempts = 1 .. n /\ DOMAIN Attempts = 1 .. n + 1
  BY <1>2, <1>3, TransferAssumption, LenProperties DEF TransferParts
<1>5. \/ transferAt' = "done" /\ transfer' \in {"cancelled", "timed out", "completed"}
      \/ transferAt' = "connect" /\ transfer' = "none" /\ Attempted(Attempts) # E
  BY <1>1, <1>3 DEF Finish
<1>6. TransferParts'
  BY <1>1, <1>2, <1>3, <1>5 DEF TransferParts, States
<1>7. AttemptsAreEndpoints'
  <2> HIDE DEF n
  <2>1. \A i \in 1 .. n + 1 : i \in 1 .. n \/ i = n + 1
    BY <1>2
  <2>2. \A i \in 1 .. n : i \in 1 .. n + 1 /\ i < n + 1
    BY <1>2
  <2>3. Attempted(attempts) \subseteq Attempted(Attempts)
    BY <1>2, <1>4, <2>2 DEF Attempted
  <2>4. \A i \in 1 .. n : /\ attempts[i].endpoint \in E
                          /\ \A e \in E : e < attempts[i].endpoint => e \in Attempted(attempts)
    BY <1>3, <1>4 DEF AttemptsAreEndpoints
  <2>5. \A i \in 1 .. n : attempts[i].endpoint < NextEndpoint
    <3> SUFFICES ASSUME NEW i \in 1 .. n PROVE attempts[i].endpoint < NextEndpoint
      OBVIOUS
    <3>1. attempts[i].endpoint # NextEndpoint
      BY <1>2, <1>4 DEF Attempted
    <3>2. ~(NextEndpoint < attempts[i].endpoint)
      BY <1>2, <2>4
    <3>3. attempts[i].endpoint \in Nat /\ NextEndpoint \in Nat
      BY <1>2, <1>4, <2>4
    <3> QED
      BY <3>1, <3>2, <3>3
  <2>6. \A i, j \in 1 .. n + 1 : i < j => Attempts[i].endpoint < Attempts[j].endpoint
    <3> SUFFICES ASSUME NEW i \in 1 .. n + 1, NEW j \in 1 .. n + 1, i < j
                 PROVE  Attempts[i].endpoint < Attempts[j].endpoint
      OBVIOUS
    <3>1. i \in 1 .. n
      BY <1>2
    <3>2. CASE j = n + 1
      BY <1>2, <2>5, <3>1, <3>2
    <3>3. CASE j \in 1 .. n
      BY <1>2, <1>3, <1>4, <3>1, <3>3 DEF AttemptsAreEndpoints
    <3> QED
      BY <2>1, <3>2, <3>3
  <2>7. \A i \in 1 .. n + 1 : /\ Attempts[i].endpoint \in E
                              /\ \A e \in E : e < Attempts[i].endpoint => e \in Attempted(Attempts)
    <3>1. \A i \in 1 .. n : /\ Attempts[i].endpoint \in E
                            /\ \A e \in E : e < Attempts[i].endpoint => e \in Attempted(Attempts)
      BY <1>2, <2>3, <2>4
    <3>2. \A e \in E : e < NextEndpoint => e \in Attempted(attempts)
      <4> SUFFICES ASSUME NEW e \in E, e < NextEndpoint, e \notin Attempted(attempts) PROVE FALSE
        OBVIOUS
      <4>1. NextEndpoint <= e
        BY <1>2
      <4>2. e \in Nat /\ NextEndpoint \in Nat
        BY <1>2, <1>4
      <4> QED
        BY <4>1, <4>2
    <3> QED
      BY <1>2, <2>1, <2>3, <3>1, <3>2
  <2>8. \A i \in 1 .. n + 1 : Attempts[i].outcome = "cancelled" => i = n + 1 /\ transfer' = "cancelled"
    <3>1. \A i \in 1 .. n : attempts[i].outcome # "cancelled"
      BY <1>3, <1>4 DEF AttemptsAreEndpoints
    <3>2. attempt.outcome = "cancelled" => transfer' = "cancelled"
      BY <1>1 DEF Finish
    <3> QED
      BY <1>2, <2>1, <3>1, <3>2
  <2>9. transfer' = "completed" => Attempted(Attempts) = E /\ Attempts # <<>>
    <3>1. transfer' = "completed" => Attempted(Attempts) = E
      BY <1>1, <1>3 DEF Finish
    <3>2. Attempts # <<>>
      BY <1>2
    <3> QED
      BY <3>1, <3>2
  <2>10. transfer' = "cancelled" => Last(Attempts).outcome = "cancelled"
    <3>1. transfer' = "cancelled" => attempt.outcome = "cancelled"
      BY <1>1, <1>3 DEF Finish
    <3>2. Last(Attempts).outcome = attempt.outcome
      BY <1>2 DEF Last
    <3> QED
      BY <3>1, <3>2
  <2> DEFINE all == Attempts
  <2> HIDE DEF all
  <2>11. attempts' = all /\ Len(all) = n + 1 /\ DOMAIN all = 1 .. n + 1
    BY <1>1, <1>2, <1>4 DEF all
  <2> QED
    BY <1>1, <2>6, <2>7, <2>8, <2>9, <2>10, <2>11 DEF AttemptsAreEndpoints, all
<1>8. Tally(taken', attempt') /\ ~WholeTransfer(taken') /\ attempt'.outcome = "unreachable"
  BY <1>1, EmptyTally, EmptyFacts
<1>9. AttemptPhases'
  BY <1>1, <1>5 DEF AttemptPhases
<1>10. AllowedIsWhole'
  BY <1>5, <1>8 DEF AllowedIsWhole
<1> QED
  BY <1>6, <1>7, <1>8, <1>9, <1>10 DEF TransferSafe

LEMMA StopTransferIsSafe == ASSUME TransferSafe, StopTransfer PROVE TransferSafe'
<1>1. UNCHANGED <<transferAt, found, attempt, attempts, taken, transfer>>
  BY DEF StopTransfer
<1>2. PICK cause \in {"token", "overdue"} : stopped' = [stopped EXCEPT ![cause] = TRUE]
  BY DEF StopTransfer
<1>3. TransferParts /\ Tally(taken, attempt) /\ AttemptPhases /\ AllowedIsWhole /\ AttemptsAreEndpoints
  BY DEF TransferSafe
<1>4. stopped' \in [token : BOOLEAN, overdue : BOOLEAN]
  BY <1>2, <1>3 DEF TransferParts
<1>5. TransferParts'
  BY <1>1, <1>3, <1>4 DEF TransferParts, Attempted
<1>6. AttemptPhases' /\ AllowedIsWhole'
  BY <1>1, <1>3 DEF AttemptPhases, AllowedIsWhole
<1>7. AttemptsAreEndpoints'
  BY <1>1, <1>3, AttemptsStay
<1>8. Tally(taken', attempt')
  BY <1>1, <1>3
<1> QED
  BY <1>5, <1>6, <1>7, <1>8 DEF TransferSafe

LEMMA TransferStepIsSafe == ASSUME TransferSafe, TransferNext PROVE TransferSafe'
<1>1. CASE LookupSoa \/ LookupNs \/ StartTransfer \/ Resolve \/ BeginAttempts
  BY <1>1, LookupSoaIsSafe, LookupNsIsSafe, StartIsSafe, ResolveIsSafe, BeginIsSafe
<1>2. CASE Connect \/ ReadMessage \/ EndAttempt
  BY <1>2, ConnectIsSafe, ReadIsSafe, EndIsSafe
<1>3. CASE FailConnect \/ AttemptCancelled \/ AttemptTimeout \/ StreamEnds \/ DrainFrame \/ DrainSilence
  BY <1>3, ReturnsAreSafe
<1>4. CASE StopTransfer
  BY <1>4, StopTransferIsSafe
<1> QED
  BY <1>1, <1>2, <1>3, <1>4 DEF TransferNext, TransferStep

LEMMA TransferStaysSafe == ASSUME TransferSafe, UNCHANGED transferVars PROVE TransferSafe'
<1>1. UNCHANGED <<transferAt, found, stopped, attempt, attempts, taken, transfer>>
  BY DEF transferVars
<1>2. TransferParts /\ Tally(taken, attempt) /\ AttemptPhases /\ AllowedIsWhole /\ AttemptsAreEndpoints
  BY DEF TransferSafe
<1>3. TransferParts'
  BY <1>1, <1>2 DEF TransferParts, Attempted
<1>4. AttemptPhases' /\ AllowedIsWhole'
  BY <1>1, <1>2 DEF AttemptPhases, AllowedIsWhole
<1>5. AttemptsAreEndpoints'
  BY <1>1, <1>2, AttemptsStay
<1>6. Tally(taken', attempt')
  BY <1>1, <1>2
<1> QED
  BY <1>3, <1>4, <1>5, <1>6 DEF TransferSafe

\* No endpoint is attempted twice, so that the attempts are no more than the endpoints.
LEMMA FewAttempts == ASSUME TransferSafe PROVE Len(attempts) <= MaxAxfrEndpoints
<1> DEFINE E == DOMAIN found.endpoints
           n == Len(attempts)
           f == [i \in 1 .. n |-> attempts[i].endpoint]
<1>1. TransferParts /\ AttemptsAreEndpoints
  BY DEF TransferSafe
<1>2. attempts \in Seq(Report) /\ E \subseteq Ips /\ Cardinality(E) <= MaxAxfrEndpoints
  BY <1>1 DEF TransferParts
<1>3. n \in Nat /\ DOMAIN attempts = 1 .. n
  BY <1>2, LenProperties
<1>4. IsFiniteSet(E) /\ E \subseteq Nat
  BY <1>2, TransferAssumption, FS_Subset
<1>5. \A i \in 1 .. n : attempts[i].endpoint \in E
  BY <1>1, <1>3 DEF AttemptsAreEndpoints
<1>6. \A i, j \in 1 .. n : i < j => attempts[i].endpoint < attempts[j].endpoint
  BY <1>1, <1>3 DEF AttemptsAreEndpoints
<1> HIDE DEF n, E
<1>7. f \in Injection(1 .. n, E)
  <2>1. f \in [1 .. n -> E]
    BY <1>5
  <2>2. ASSUME NEW i \in 1 .. n, NEW j \in 1 .. n, f[i] = f[j] PROVE i = j
    <3>1. attempts[i].endpoint = attempts[j].endpoint /\ attempts[i].endpoint \in Nat
      BY <1>4, <1>5, <2>2
    <3>2. ~(i < j) /\ ~(j < i)
      BY <1>6, <3>1
    <3> QED
      BY <1>3, <3>2
  <2> HIDE DEF f
  <2> QED
    BY <2>1, <2>2 DEF Injection, IsInjective
<1>8. Cardinality(1 .. n) = n
  BY <1>3, FS_Interval
<1>9. Cardinality(1 .. n) <= Cardinality(E)
  <2> HIDE DEF f
  <2> QED
    BY <1>4, <1>7, FS_Injection
<1>10. Cardinality(E) \in Nat
  BY <1>4, FS_CardinalityType
<1>11. n <= MaxAxfrEndpoints
  BY <1>2, <1>3, <1>8, <1>9, <1>10, TransferConstants DEF E
<1> QED
  BY <1>11 DEF n

LEMMA TransferTypes == ASSUME TransferSafe PROVE TransferTypeOK /\ CountsAreOfFrames /\ AttemptsAreEndpoints /\ AllowedIsWhole
<1>1. TransferParts /\ Tally(taken, attempt) /\ AttemptsAreEndpoints /\ AllowedIsWhole
  BY DEF TransferSafe
<1>2. found.zone \in Enclosing \cup {"none"} /\ found.left \subseteq Nameservers
  <2> DEFINE values == [DOMAIN found.endpoints -> Nameservers]
  <2>1. found \in [zone : Enclosing \cup {"none"}, left : SUBSET Nameservers, endpoints : values]
    BY <1>1 DEF TransferParts
  <2> HIDE DEF values
  <2> QED
    BY <2>1
<1>3. attempt.outcome \in Outcomes /\ attempt.first \in {"unread", "other"} \cup ZoneSoas
  BY <1>1 DEF Tally, AttemptType
<1>4. TransferTypeOK
  BY <1>1, <1>2, <1>3, FewAttempts DEF TransferTypeOK, TransferParts, Tally, States
<1>5. CountsAreOfFrames
  BY <1>1 DEF CountsAreOfFrames, Tally, CountsOf
<1> QED
  BY <1>1, <1>4, <1>5

-----------------------------------------------------------------------------
(* What a probe and a classification make of the answers of a name.         *)

Record == [type : {"A", "AAAA", "CNAME", "TXT"}, value : STRING, proof : Proofs]
Probe == [fingerprints : SUBSET STRING, all_negative : BOOLEAN, conclusive : BOOLEAN, limited : BOOLEAN]

SaidBy(records) == {r.value : r \in {x \in ToSet(records) : x.type # "TXT"}}
Said(outcomes) == UNION {SaidBy(a.records) : a \in {y \in ToSet(outcomes) : Positive(y)}}

\* A probe says no more than the answers it stands for.
ProbeOf(probe, outcomes) ==
    /\ probe \in Probe /\ IsFiniteSet(probe.fingerprints) /\ Cardinality(probe.fingerprints) <= MaxDnsRecords
    /\ ~probe.limited => probe.fingerprints = Said(outcomes)
    /\ probe.conclusive => \A a \in ToSet(outcomes) : Positive(a) \/ wildcard_negative_response(a)
    /\ probe.all_negative => \A a \in ToSet(outcomes) : wildcard_negative_response(a)

LEMMA ToSetMore ==
    ASSUME NEW S, NEW s \in Seq(S), NEW e \in S
    PROVE  ToSet(Append(s, e)) = ToSet(s) \cup {e}
<1>1. /\ Len(s) \in Nat /\ DOMAIN s = 1 .. Len(s) /\ DOMAIN Append(s, e) = 1 .. Len(s) + 1
      /\ \A i \in 1 .. Len(s) : Append(s, e)[i] = s[i]
      /\ Append(s, e)[Len(s) + 1] = e
  BY LenProperties, AppendProperties
<1> DEFINE more == Append(s, e)
           n == Len(s)
<1> HIDE DEF more, n
<1>2. /\ n \in Nat /\ DOMAIN s = 1 .. n /\ DOMAIN more = 1 .. n + 1
      /\ \A i \in 1 .. n : more[i] = s[i]
      /\ more[n + 1] = e
  BY <1>1 DEF more, n
<1>3. \A i \in 1 .. n + 1 : i \in 1 .. n \/ i = n + 1
  BY <1>2
<1>4. n + 1 \in 1 .. n + 1 /\ \A i \in 1 .. n : i \in 1 .. n + 1
  BY <1>2
<1>5. ToSet(more) = ToSet(s) \cup {e}
  BY <1>2, <1>3, <1>4 DEF ToSet
<1> QED
  BY <1>5 DEF more

\* What the answers of a name said, with one answer more.
LEMMA SaidMore ==
    ASSUME NEW outcomes \in Seq(Answers), NEW a \in Answers
    PROVE  Said(Append(outcomes, a)) = IF Positive(a) THEN Said(outcomes) \cup SaidBy(a.records) ELSE Said(outcomes)
<1>1. ToSet(Append(outcomes, a)) = ToSet(outcomes) \cup {a}
  BY ToSetMore
<1> DEFINE more == ToSet(Append(outcomes, a))
           those == ToSet(outcomes)
<1>2. Said(Append(outcomes, a)) = UNION {SaidBy(x.records) : x \in {y \in more : Positive(y)}}
  BY DEF Said
<1>3. Said(outcomes) = UNION {SaidBy(x.records) : x \in {y \in those : Positive(y)}}
  BY DEF Said
<1>4. more = those \cup {a}
  BY <1>1
<1> HIDE DEF more, those
<1>5. CASE Positive(a)
  <2>1. ASSUME NEW v \in Said(Append(outcomes, a)) PROVE v \in Said(outcomes) \cup SaidBy(a.records)
    <3>1. PICK x \in more : Positive(x) /\ v \in SaidBy(x.records)
      BY <1>2, <2>1
    <3> QED
      BY <1>3, <1>4, <3>1
  <2>2. ASSUME NEW v \in Said(outcomes) PROVE v \in Said(Append(outcomes, a))
    <3>1. PICK x \in those : Positive(x) /\ v \in SaidBy(x.records)
      BY <1>3, <2>2
    <3> QED
      BY <1>2, <1>4, <3>1
  <2>3. ASSUME NEW v \in SaidBy(a.records) PROVE v \in Said(Append(outcomes, a))
    BY <1>2, <1>4, <1>5, <2>3
  <2>4. Said(Append(outcomes, a)) = Said(outcomes) \cup SaidBy(a.records)
    BY <2>1, <2>2, <2>3
  <2> QED
    BY <1>5, <2>4
<1>6. CASE ~Positive(a)
  <2>1. {y \in more : Positive(y)} = {y \in those : Positive(y)}
    BY <1>4, <1>6
  <2> QED
    BY <1>2, <1>3, <1>6, <2>1
<1> QED
  BY <1>5, <1>6

\* What append_wildcard_answers makes of a probe.
LEMMA AppendsAnswers ==
    ASSUME NEW records \in Seq(Record), NEW probe \in Probe, IsFiniteSet(probe.fingerprints),
           Cardinality(probe.fingerprints) <= MaxDnsRecords
    PROVE  LET more == append_wildcard_answers(records, probe)
           IN  /\ more \in Probe /\ IsFiniteSet(more.fingerprints) /\ Cardinality(more.fingerprints) <= MaxDnsRecords
               /\ ~more.limited => ~probe.limited /\ more.fingerprints = probe.fingerprints \cup SaidBy(records)
               /\ more.conclusive => probe.conclusive
               /\ more.all_negative = probe.all_negative
<1> DEFINE more == append_wildcard_answers(records, probe)
           fresh == {i \in DOMAIN records :
                       /\ records[i].type # "TXT" /\ records[i].value \notin probe.fingerprints
                       /\ \A j \in 1 .. i - 1 : records[j].type # "TXT" => records[j].value # records[i].value}
           room == MaxDnsRecords - Cardinality(probe.fingerprints)
           fit == Least(room, fresh)
           new == {records[i].value : i \in fit}
<1>1. DOMAIN records = 1 .. Len(records) /\ Len(records) \in Nat
  BY LenProperties
<1>2. \A i \in DOMAIN records : records[i] \in Record
  BY <1>1
<1>3. Cardinality(probe.fingerprints) \in Nat /\ MaxDnsRecords \in Nat
  BY FS_CardinalityType, DnsLimitsAssumption
<1>4. room \in Nat
  BY <1>3
<1>5. fresh \subseteq Nat /\ IsFiniteSet(fresh)
  <2>1. fresh \subseteq 1 .. Len(records) /\ IsFiniteSet(1 .. Len(records))
    BY <1>1, FS_Interval
  <2> QED
    BY <2>1, FS_Subset
<1>6. fit \subseteq fresh /\ IsFiniteSet(fit) /\ Cardinality(fit) \in Nat /\ Cardinality(fit) <= room
  <2> HIDE DEF fresh, room
  <2> QED
    BY <1>4, <1>5, LeastFacts
<1>7. IsFiniteSet(new) /\ Cardinality(new) <= Cardinality(fit)
  <2> DEFINE f == [i \in fit |-> records[i].value]
  <2> HIDE DEF fit
  <2>1. DOMAIN f = fit /\ {f[x] : x \in DOMAIN f} = new
    OBVIOUS
  <2> HIDE DEF f
  <2>2. IsFiniteSet({f[x] : x \in DOMAIN f}) /\ Cardinality({f[x] : x \in DOMAIN f}) <= Cardinality(DOMAIN f)
    BY <1>6, <2>1, ImageIsFinite
  <2> QED
    BY <2>1, <2>2
<1>8. new \subseteq SaidBy(records)
  <2> HIDE DEF fit
  <2>1. \A i \in fit : i \in DOMAIN records /\ records[i].type # "TXT"
    BY <1>6
  <2> QED
    BY <2>1 DEF SaidBy, ToSet
<1>9. SaidBy(records) \subseteq STRING
  BY <1>2 DEF SaidBy, ToSet, Record
<1>10. fit = fresh => probe.fingerprints \cup new = probe.fingerprints \cup SaidBy(records)
  <2> SUFFICES ASSUME fit = fresh, NEW v \in SaidBy(records), v \notin probe.fingerprints PROVE v \in new
    BY <1>8
  <2> DEFINE those == {i \in DOMAIN records : records[i].type # "TXT" /\ records[i].value = v}
  <2>1. those # {} /\ those \subseteq Nat
    BY <1>1 DEF SaidBy, ToSet
  <2>2. PICK i \in those : \A j \in those : i <= j
    BY <2>1, LeastNatural
  <2>3. i \in Nat /\ i \in DOMAIN records /\ records[i].type # "TXT" /\ records[i].value = v
    BY <2>1
  <2>4. \A j \in 1 .. i - 1 : j \notin those
    BY <2>1, <2>2
  <2>5. \A j \in 1 .. i - 1 : j \in DOMAIN records
    BY <1>1, <2>3
  <2>6. i \in fresh
    BY <2>3, <2>4, <2>5
  <2> QED
    BY <2>3, <2>6
<1> HIDE DEF fresh, room, fit, new
<1>11. IsFiniteSet(probe.fingerprints \cup new) /\ Cardinality(probe.fingerprints \cup new) <= MaxDnsRecords
  <2>1. /\ IsFiniteSet(probe.fingerprints \cup new)
        /\ Cardinality(probe.fingerprints \cup new)
              = Cardinality(probe.fingerprints) + Cardinality(new) - Cardinality(probe.fingerprints \cap new)
    BY <1>7, FS_Union
  <2>2. IsFiniteSet(probe.fingerprints \cap new)
    BY <1>7, FS_Subset
  <2>3. Cardinality(probe.fingerprints \cap new) \in Nat /\ Cardinality(new) \in Nat
    BY <1>7, <2>2, FS_CardinalityType
  <2> QED
    BY <1>3, <1>6, <1>7, <2>1, <2>3 DEF room
<1>12. CASE probe.limited
  <2>1. more = probe
    BY <1>12 DEF append_wildcard_answers
  <2> QED
    BY <1>12, <2>1
<1>13. CASE ~probe.limited
  <2> DEFINE limited == fit # fresh
             all == probe.fingerprints \cup new
             whole == probe.conclusive /\ fit = fresh
  <2>1. more = [probe EXCEPT !.fingerprints = @ \cup new, !.limited = fit # fresh, !.conclusive = @ /\ fit = fresh]
    BY <1>13 DEF append_wildcard_answers, fresh, room, fit, new
  <2>2. more = [probe EXCEPT !.fingerprints = all, !.limited = limited, !.conclusive = whole]
    BY <2>1 DEF Probe
  <2>3. all \in SUBSET STRING /\ limited \in BOOLEAN /\ whole \in BOOLEAN
    BY <1>8, <1>9 DEF Probe
  <2> HIDE DEF more
  <2>4. (limited <=> fit # fresh) /\ (whole => probe.conclusive)
    OBVIOUS
  <2>5. all = probe.fingerprints \cup new
    OBVIOUS
  <2> HIDE DEF limited, all, whole
  <2>6. more \in Probe
    BY <2>2, <2>3 DEF Probe
  <2>7. more.fingerprints = all /\ more.limited = limited /\ more.conclusive = whole /\ more.all_negative = probe.all_negative
    BY <2>2 DEF Probe
  <2>8. ~limited => all = probe.fingerprints \cup SaidBy(records)
    BY <1>10, <2>4, <2>5
  <2>9. IsFiniteSet(all) /\ Cardinality(all) <= MaxDnsRecords
    BY <1>11, <2>5
  <2>10. more.limited => limited
    BY <2>7
  <2>11. ~more.limited => ~limited
    BY <2>7
  <2>12. more.conclusive => probe.conclusive
    BY <2>4, <2>7
  <2> QED
    BY <1>13, <2>6, <2>7, <2>8, <2>9, <2>11, <2>12 DEF more
<1> QED
  BY <1>12, <1>13

\* An answer that says nothing: the probe concludes nothing.
LEMMA Inconclusive ==
    ASSUME NEW probe \in Probe
    PROVE  /\ inconclusive(probe) \in Probe /\ ~inconclusive(probe).conclusive /\ ~inconclusive(probe).all_negative
           /\ inconclusive(probe).fingerprints = probe.fingerprints /\ inconclusive(probe).limited = probe.limited
BY DEF inconclusive, Probe

\* The probe hears an answer more.
LEMMA ProbeHears ==
    ASSUME NEW outcomes \in Seq(Answers), NEW a \in Answers, NEW probe, ProbeOf(probe, outcomes)
    PROVE  ProbeOf(wildcard_lookup(a, probe), Append(outcomes, a))
<1> DEFINE more == Append(outcomes, a)
           p == wildcard_lookup(a, probe)
<1>1. ToSet(more) = ToSet(outcomes) \cup {a}
  BY ToSetMore
<1>2. Said(more) = IF Positive(a) THEN Said(outcomes) \cup SaidBy(a.records) ELSE Said(outcomes)
  BY SaidMore
<1>3. /\ probe \in Probe /\ IsFiniteSet(probe.fingerprints) /\ Cardinality(probe.fingerprints) <= MaxDnsRecords
      /\ ~probe.limited => probe.fingerprints = Said(outcomes)
      /\ probe.conclusive => \A x \in ToSet(outcomes) : Positive(x) \/ wildcard_negative_response(x)
      /\ probe.all_negative => \A x \in ToSet(outcomes) : wildcard_negative_response(x)
  BY DEF ProbeOf
<1> HIDE DEF more
<1>4. CASE a.kind = "records"
  <2> DEFINE q == append_wildcard_answers(a.records, probe)
  <2>1. a.records \in Seq(Record)
    BY <1>4, NameChecksAssumption DEF Record
  <2>2. /\ q \in Probe /\ IsFiniteSet(q.fingerprints) /\ Cardinality(q.fingerprints) <= MaxDnsRecords
        /\ ~q.limited => ~probe.limited /\ q.fingerprints = probe.fingerprints \cup SaidBy(a.records)
        /\ q.conclusive => probe.conclusive
    BY <1>3, <2>1, AppendsAnswers
  <2>3. p = IF q.fingerprints = probe.fingerprints THEN inconclusive(q) ELSE [q EXCEPT !.all_negative = FALSE]
    BY <1>4 DEF wildcard_lookup
  <2>4. Positive(a)
    BY <1>4 DEF Positive
  <2> HIDE DEF p, q
  <2>5. ~q.limited => q.fingerprints = Said(more)
    BY <1>2, <1>3, <2>2, <2>4
  <2>6. q.conclusive => \A x \in ToSet(more) : Positive(x) \/ wildcard_negative_response(x)
    BY <1>1, <1>3, <2>2, <2>4
  <2>7. /\ p \in Probe /\ p.fingerprints = q.fingerprints /\ p.limited = q.limited /\ ~p.all_negative
        /\ p.conclusive => q.conclusive
    <3>1. CASE q.fingerprints = probe.fingerprints
      BY <2>2, <2>3, <3>1, Inconclusive
    <3>2. CASE q.fingerprints # probe.fingerprints
      <4>1. p = [q EXCEPT !.all_negative = FALSE]
        BY <2>3, <3>2
      <4> QED
        BY <2>2, <4>1 DEF Probe
    <3> QED
      BY <3>1, <3>2
  <2>8. ProbeOf(p, more)
    BY <2>2, <2>5, <2>6, <2>7 DEF ProbeOf
  <2> QED
    BY <2>8 DEF p, more
<1>5. CASE a.kind # "records"
  <2>1. ~Positive(a) /\ Said(more) = Said(outcomes)
    BY <1>2, <1>5 DEF Positive
  <2>2. CASE wildcard_negative_response(a)
    <3>1. p = probe
      BY <1>5, <2>2 DEF wildcard_lookup
    <3> HIDE DEF p
    <3>2. ProbeOf(p, more)
      BY <1>1, <1>3, <2>1, <2>2, <3>1 DEF ProbeOf
    <3> QED
      BY <3>2 DEF p, more
  <2>3. CASE ~wildcard_negative_response(a)
    <3>1. p = inconclusive(probe)
      BY <1>5, <2>3 DEF wildcard_lookup
    <3> HIDE DEF p
    <3>2. /\ p \in Probe /\ ~p.conclusive /\ ~p.all_negative /\ p.fingerprints = probe.fingerprints /\ p.limited = probe.limited
      BY <1>3, <3>1, Inconclusive
    <3>3. ProbeOf(p, more)
      BY <1>3, <2>1, <3>2 DEF ProbeOf
    <3> QED
      BY <3>3 DEF p, more
  <2> QED
    BY <2>2, <2>3
<1> QED
  BY <1>4, <1>5

LEMMA ProbeBegins == ProbeOf(NewProbe, <<>>)
<1>1. NewProbe \in Probe /\ NewProbe.fingerprints = {}
  BY DEF NewProbe, Probe
<1>2. ToSet(<<>>) = {}
  BY DEF ToSet
<1>3. Said(<<>>) = {}
  BY <1>2 DEF Said
<1>4. IsFiniteSet({}) /\ Cardinality({}) <= MaxDnsRecords
  BY FS_EmptySet, DnsLimitsAssumption
<1> QED
  BY <1>1, <1>2, <1>3, <1>4 DEF ProbeOf

\* The probe that a stop leaves behind.
LEMMA ProbeStops ==
    ASSUME NEW probe, NEW outcomes, ProbeOf(probe, outcomes)
    PROVE  ProbeOf([probe EXCEPT !.conclusive = FALSE], outcomes) /\ ~[probe EXCEPT !.conclusive = FALSE].conclusive
<1> DEFINE p == [probe EXCEPT !.conclusive = FALSE]
<1>1. probe \in Probe
  BY DEF ProbeOf
<1>2. /\ p \in Probe /\ ~p.conclusive /\ p.fingerprints = probe.fingerprints
      /\ p.limited = probe.limited /\ p.all_negative = probe.all_negative
  BY <1>1 DEF Probe
<1> HIDE DEF p
<1>3. ProbeOf(p, outcomes)
  BY <1>2 DEF ProbeOf
<1> QED
  BY <1>2, <1>3 DEF p

\* DNSSEC: what the proof of a name is drawn from.
ProofsIn(answer) == CASE answer.kind = "records" -> {r.proof : r \in ToSet(answer.records)}
                      [] answer.kind = "negative" -> {r.proof : r \in answer.authorities}
                      [] answer.kind = "nsec" -> {answer.proof} [] OTHER -> {}

LEMMA Aggregated ==
    ASSUME NEW proofs \in SUBSET Proofs
    PROVE  /\ aggregate_dnssec_status(proofs) \in Proofs
           /\ aggregate_dnssec_status(proofs) = "secure" => proofs # {} /\ proofs \subseteq {"secure"}
           /\ aggregate_dnssec_status(proofs) = "insecure" => proofs # {} /\ proofs \subseteq {"secure", "insecure"}
BY DEF aggregate_dnssec_status, Proofs

LEMMA StatusOfAnswer ==
    ASSUME NEW a \in Answers
    PROVE  /\ dnssec_status(a) \in Proofs
           /\ dnssec_status(a) = "secure" => ProofsIn(a) # {} /\ ProofsIn(a) \subseteq {"secure"}
           /\ dnssec_status(a) = "insecure" => ProofsIn(a) # {} /\ ProofsIn(a) \subseteq {"secure", "insecure"}
<1>1. \/ a.kind = "records" /\ a.records \in Seq(Record)
      \/ a.kind \in {"negative", "nsec"} /\ a.proof \in Proofs /\ \A r \in a.authorities : r.proof \in Proofs
      \/ a.kind = "error"
  BY NameChecksAssumption DEF Record
<1>2. CASE a.kind = "records"
  <2>1. ProofsIn(a) \in SUBSET Proofs
    <3> DEFINE records == a.records
    <3> HIDE DEF records
    <3>1. records \in Seq(Record)
      BY <1>1, <1>2 DEF records
    <3>2. \A i \in DOMAIN records : records[i] \in Record
      BY <3>1, LenProperties
    <3>3. \A r \in ToSet(records) : r \in Record
      BY <3>2 DEF ToSet
    <3>4. \A r \in ToSet(a.records) : r.proof \in Proofs
      BY <3>3 DEF Record, records
    <3> QED
      BY <1>2, <3>4 DEF ProofsIn
  <2>2. dnssec_status(a) = aggregate_dnssec_status(ProofsIn(a))
    BY <1>2 DEF dnssec_status, ProofsIn
  <2> QED
    BY <2>1, <2>2, Aggregated
<1>3. CASE a.kind = "negative"
  <2>1. ProofsIn(a) \in SUBSET Proofs
    BY <1>1, <1>3 DEF ProofsIn
  <2>2. dnssec_status(a) = aggregate_dnssec_status(ProofsIn(a))
    BY <1>3 DEF dnssec_status, ProofsIn
  <2> QED
    BY <2>1, <2>2, Aggregated
<1>4. CASE a.kind = "nsec"
  BY <1>1, <1>4 DEF dnssec_status, ProofsIn
<1>5. CASE a.kind = "error"
  BY <1>5 DEF dnssec_status, ProofsIn, Proofs
<1> QED
  BY <1>1, <1>2, <1>3, <1>4, <1>5

\* Dangling: what the address lookups of a destination make of it.
Classified(outcomes, types) == classify_dangling_outcomes({dangling_outcome(outcomes[t], types[t]) : t \in DOMAIN outcomes})

LEMMA ClassifiedFacts ==
    ASSUME NEW outcomes, NEW types
    PROVE  /\ Classified(outcomes, types) \in {"resolved", "nxdomain", "no address", "indeterminate"}
           /\ Classified(outcomes, types) = "nxdomain" =>
                 \A t \in DOMAIN outcomes : dangling_outcome(outcomes[t], types[t]) = "nxdomain"
           /\ Classified(outcomes, types) = "resolved" =>
                 \E t \in DOMAIN outcomes : dangling_outcome(outcomes[t], types[t]) = "resolved"
<1> DEFINE said == {dangling_outcome(outcomes[t], types[t]) : t \in DOMAIN outcomes}
<1>1. Classified(outcomes, types) = classify_dangling_outcomes(said)
  BY DEF Classified
<1>2. \A t \in DOMAIN outcomes : dangling_outcome(outcomes[t], types[t]) \in said
  OBVIOUS
<1>3. \A x \in said : \E t \in DOMAIN outcomes : dangling_outcome(outcomes[t], types[t]) = x
  OBVIOUS
<1> HIDE DEF said
<1>4. (CHOOSE o \in {"nxdomain"} : TRUE) = "nxdomain" /\ (CHOOSE o \in {"no address"} : TRUE) = "no address"
  OBVIOUS
<1>5. \/ "resolved" \in said /\ classify_dangling_outcomes(said) = "resolved"
      \/ said = {"nxdomain"} /\ classify_dangling_outcomes(said) = "nxdomain"
      \/ said = {"no address"} /\ classify_dangling_outcomes(said) = "no address"
      \/ classify_dangling_outcomes(said) = "indeterminate"
  BY <1>4 DEF classify_dangling_outcomes
<1> QED
  BY <1>1, <1>2, <1>3, <1>5

\* The first place of a name in a chain.
FirstOf(chain, i) == CHOOSE j \in 1 .. i : chain[j] = chain[i] /\ \A k \in 1 .. j - 1 : chain[k] # chain[i]

LEMMA FirstOfFacts ==
    ASSUME NEW chain, NEW i \in Nat \ {0}
    PROVE  /\ FirstOf(chain, i) \in 1 .. i /\ chain[FirstOf(chain, i)] = chain[i]
           /\ \A k \in 1 .. FirstOf(chain, i) - 1 : chain[k] # chain[i]
           /\ \A j \in 1 .. i : chain[j] = chain[i] /\ (\A k \in 1 .. j - 1 : chain[k] # chain[i]) => j = FirstOf(chain, i)
<1> DEFINE same == {j \in 1 .. i : chain[j] = chain[i]}
<1>1. same \subseteq Nat /\ i \in same /\ same # {}
  OBVIOUS
<1>2. PICK j \in same : \A k \in same : j <= k
  <2> HIDE DEF same
  <2> QED
    BY <1>1, LeastNatural
<1>3. \A k \in 1 .. j - 1 : k \in 1 .. i /\ ~(j <= k)
  BY <1>1, <1>2
<1>4. j \in 1 .. i /\ chain[j] = chain[i] /\ \A k \in 1 .. j - 1 : chain[k] # chain[i]
  BY <1>2, <1>3
<1>5. /\ FirstOf(chain, i) \in 1 .. i /\ chain[FirstOf(chain, i)] = chain[i]
      /\ \A k \in 1 .. FirstOf(chain, i) - 1 : chain[k] # chain[i]
  BY <1>4 DEF FirstOf
<1>6. ASSUME NEW k \in 1 .. i, chain[k] = chain[i], \A l \in 1 .. k - 1 : chain[l] # chain[i]
      PROVE  k = FirstOf(chain, i)
  <2> DEFINE f == FirstOf(chain, i)
  <2> HIDE DEF f
  <2>1. f \in 1 .. i /\ chain[f] = chain[i] /\ \A l \in 1 .. f - 1 : chain[l] # chain[i]
    BY <1>5 DEF f
  <2>2. k \notin 1 .. f - 1 /\ f \notin 1 .. k - 1
    BY <1>6, <2>1
  <2>3. k = f
    BY <2>1, <2>2
  <2> QED
    BY <2>3 DEF f
<1> QED
  BY <1>5, <1>6

-----------------------------------------------------------------------------
(* The checks of names                                                     *)

CheckParts ==
    /\ check \in {"dnssec", "wildcard", "dangling"} /\ family \in {"both", "4", "6", "neither"}
    /\ Len(names) \in Nat /\ DOMAIN names = 1 .. Len(names) /\ (names = <<>> <=> Len(names) = 0)
    /\ Len(names) # 0 => /\ check = "wildcard" => Len(names) = 2
                         /\ check = "dnssec" => Len(names) = 1
                         /\ check # "wildcard" => family # "neither"
    /\ at \in [step : {"name", "ask", "wait", "done"}, name : Nat, type : Nat,
               state : {"running", "completed", "cancelled", "timed out"}]
    /\ at.state # "running" <=> Done
    /\ halted \in [token : BOOLEAN, overdue : BOOLEAN]
    /\ Len(names) = 0 => Done /\ at.name = 1 /\ at.type = 1 /\ at.state = "completed"
    /\ Len(names) # 0 => at.name \in 1 .. Len(names) /\ at.type \in 1 .. Len(QueryTypes)
    /\ at.step = "name" => at.type = 1
    /\ at.state = "completed" /\ Len(names) # 0 => at.name = Len(names)
    /\ check = "dnssec" => at.state \in {"running", "completed"}

\* The names are asked about in their order, and each for one type after the other.
HeardParts ==
    /\ heard \in [1 .. Len(names) -> Seq(Answers)]
    /\ \A i \in at.name + 1 .. Len(names) : heard[i] = <<>>
    /\ ~Done => Len(heard[at.name]) = at.type - 1
    /\ check # "dangling" => \A i \in 1 .. at.name - 1 : AllAsked(i)
    /\ check # "dangling" /\ at.state = "completed" /\ Len(names) # 0 => AllAsked(at.name)

VerdictParts ==
    verdict = IF ~Done THEN "none" ELSE IF Len(names) = 0 /\ check # "dangling" THEN "not applicable" ELSE Concluded(probes, statuses)

\* A probe a stop interrupted is the second one and concludes nothing, or there is no second one.
WildcardParts ==
    /\ check # "wildcard" => probes = <<>>
    /\ check = "wildcard" =>
          /\ probes \in Seq(Probe) /\ Len(probes) <= Len(names) /\ statuses = <<>>
          /\ ~Done => Len(probes) = IF at.step = "name" THEN at.name - 1 ELSE at.name
          /\ \A i \in 1 .. Len(probes) : ProbeOf(probes[i], heard[i])
          /\ at.state \in {"cancelled", "timed out"} => Len(probes) # 2 \/ ~probes[2].conclusive

DnssecParts ==
    check = "dnssec" =>
        /\ statuses \in Seq(Proofs)
        /\ Len(names) # 0 => /\ Len(statuses) = Len(heard[1])
                             /\ \A t \in 1 .. Len(statuses) : statuses[t] = dnssec_status(heard[1][t])

\* A destination has the status of its first place in the chain, and one that
\* is not indeterminate has that of all its lookups.
DanglingParts ==
    check = "dangling" =>
        /\ statuses \in [1 .. Len(names) -> {"resolved", "nxdomain", "no address", "indeterminate"}]
        /\ at.step \in {"ask", "wait"} => EarlierTarget = {}
        /\ \A i \in 1 .. Len(names) :
              statuses[i] # "indeterminate" => /\ AllAsked(FirstOf(names, i))
                                               /\ statuses[i] = Classified(heard[FirstOf(names, i)], QueryTypes)
        /\ \A i \in 1 .. Len(names) : i < at.name \/ at.state = "completed" => statuses[i] = statuses[FirstOf(names, i)]

CheckSafe == CheckParts /\ HeardParts /\ VerdictParts /\ WildcardParts /\ DnssecParts /\ DanglingParts

LEMMA TypesToAsk ==
    ASSUME check \in {"dnssec", "wildcard", "dangling"}, family \in {"both", "4", "6", "neither"}
    PROVE  /\ Len(QueryTypes) \in Nat /\ Len(Addresses) \in Nat /\ DOMAIN QueryTypes = 1 .. Len(QueryTypes)
           /\ check # "wildcard" => QueryTypes = Addresses
           /\ check = "wildcard" \/ family # "neither" => Len(QueryTypes) >= 1
<1> DEFINE Types == {"A", "AAAA", "CNAME"}
<1>1. /\ Addresses \in Seq(Types) /\ Len(Addresses) \in Nat
      /\ family # "neither" => Len(Addresses) >= 1
  <2>1. CASE family = "both"
    BY <2>1 DEF Addresses
  <2>2. CASE family = "4"
    BY <2>2 DEF Addresses
  <2>3. CASE family = "6"
    BY <2>3 DEF Addresses
  <2>4. CASE family = "neither"
    BY <2>4 DEF Addresses
  <2> QED
    BY <2>1, <2>2, <2>3, <2>4
<1>2. CASE check = "wildcard"
  <2>1. QueryTypes = Append(Addresses, "CNAME")
    BY <1>2 DEF QueryTypes
  <2>2. QueryTypes \in Seq(Types) /\ Len(QueryTypes) = Len(Addresses) + 1
    BY <1>1, <2>1, AppendProperties
  <2> QED
    BY <1>1, <1>2, <2>2, LenProperties
<1>3. CASE check # "wildcard"
  <2>1. QueryTypes = Addresses
    BY <1>3 DEF QueryTypes
  <2> QED
    BY <1>1, <1>3, <2>1, LenProperties
<1> QED
  BY <1>2, <1>3

LEMMA TypesStay == ASSUME UNCHANGED <<check, family>> PROVE QueryTypes' = QueryTypes /\ Addresses' = Addresses
BY DEF QueryTypes, Addresses

\* What a check asks about.
LEMMA NamesAreFew ==
    ASSUME check \in {"dnssec", "wildcard", "dangling"}, NEW explicit \in BOOLEAN, NEW chain \in Chains,
           names = NamesOf(explicit, chain)
    PROVE  /\ Len(names) \in Nat /\ DOMAIN names = 1 .. Len(names) /\ (names = <<>> <=> Len(names) = 0)
           /\ Len(names) # 0 => /\ check = "wildcard" => Len(names) = 2
                                /\ check = "dnssec" => Len(names) = 1
                                /\ check # "wildcard" => family # "neither"
<1>1. CASE explicit \/ (check # "wildcard" /\ family = "neither")
  <2>1. names = <<>>
    BY <1>1 DEF NamesOf
  <2> QED
    BY <2>1
<1>2. CASE ~(explicit \/ (check # "wildcard" /\ family = "neither"))
  <2>1. CASE check = "dnssec"
    <3>1. names = <<"target">>
      BY <1>2, <2>1 DEF NamesOf
    <3> QED
      BY <1>2, <2>1, <3>1
  <2>2. CASE check = "wildcard"
    <3>1. names = <<"first child", "second child">>
      BY <1>2, <2>2 DEF NamesOf
    <3>2. Len(names) = 2 /\ DOMAIN names = 1 .. 2
      <4> DEFINE pair == <<"first child", "second child">>
      <4>1. pair \in Seq({"first child", "second child"}) /\ Len(pair) = 2
        OBVIOUS
      <4> HIDE DEF pair
      <4>2. DOMAIN pair = 1 .. Len(pair)
        BY <4>1, LenProperties
      <4> QED
        BY <3>1, <4>1, <4>2 DEF pair
    <3>3. names # <<>>
      BY <3>2
    <3> QED
      BY <2>2, <3>2, <3>3
  <2>3. CASE check = "dangling"
    <3> DEFINE k == Min({Len(chain), MaxCnameChainHops})
    <3>1. chain \in Seq(STRING) /\ Len(chain) \in Nat /\ MaxCnameChainHops \in Nat
      BY NameChecksAssumption, DnsLimitsAssumption, LenProperties
    <3>2. k \in {Len(chain), MaxCnameChainHops} /\ k <= Len(chain)
      BY <3>1, LeastNatural
    <3>3. names = SubSeq(chain, 1, k)
      BY <1>2, <2>3 DEF NamesOf
    <3> HIDE DEF k
    <3>4. k \in Nat /\ k <= Len(chain)
      BY <3>1, <3>2
    <3>5. names \in Seq(STRING) /\ Len(names) = k
      <4>1. \A i \in 1 .. k : i \in 1 .. Len(chain) /\ chain[i] \in STRING
        BY <3>1, <3>4
      <4>2. SubSeq(chain, 1, k) \in Seq(STRING) /\ Len(SubSeq(chain, 1, k)) = k
        BY <3>1, <3>4, <4>1
      <4> QED
        BY <3>3, <4>2
    <3>6. names = <<>> <=> Len(names) = 0
      BY <3>5, EmptySeq
    <3> QED
      BY <1>2, <2>3, <3>4, <3>5, <3>6, LenProperties
  <2> QED
    BY <2>1, <2>2, <2>3
<1> QED
  BY <1>1, <1>2

LEMMA CheckInitIsSafe == ASSUME CheckInit PROVE CheckSafe
<1>1. check \in {"dnssec", "wildcard", "dangling"} /\ family \in {"both", "4", "6", "neither"}
  BY NameChecksAssumption DEF CheckInit
<1>2. /\ halted = [token |-> FALSE, overdue |-> FALSE] /\ probes = <<>>
      /\ at = [step |-> IF names = <<>> THEN "done" ELSE "name", name |-> 1, type |-> 1,
               state |-> IF names = <<>> THEN "completed" ELSE "running"]
      /\ verdict = IF names = <<>> /\ check # "dangling" THEN "not applicable" ELSE "none"
      /\ heard = [i \in DOMAIN names |-> <<>>]
      /\ statuses = IF check = "dangling" THEN [i \in DOMAIN names |-> "indeterminate"] ELSE <<>>
  BY DEF CheckInit
<1>3. /\ Len(names) \in Nat /\ DOMAIN names = 1 .. Len(names) /\ (names = <<>> <=> Len(names) = 0)
      /\ Len(names) # 0 => /\ check = "wildcard" => Len(names) = 2
                           /\ check = "dnssec" => Len(names) = 1
                           /\ check # "wildcard" => family # "neither"
  BY <1>1, NamesAreFew DEF CheckInit
<1>4. /\ at.name = 1 /\ at.type = 1 /\ at.step = (IF Len(names) = 0 THEN "done" ELSE "name")
      /\ at.state = (IF Len(names) = 0 THEN "completed" ELSE "running")
  BY <1>2, <1>3
<1>5. CheckParts
  <2>1. Len(names) # 0 => 1 \in 1 .. Len(names) /\ 1 \in 1 .. Len(QueryTypes)
    BY <1>1, <1>3, TypesToAsk
  <2>2. at \in [step : {"name", "ask", "wait", "done"}, name : Nat, type : Nat,
               state : {"running", "completed", "cancelled", "timed out"}]
    BY <1>2
  <2>3. at.state = "completed" /\ Len(names) # 0 => at.name = Len(names)
    BY <1>4
  <2> QED
    BY <1>1, <1>2, <1>3, <1>4, <2>1, <2>2, <2>3 DEF CheckParts, Done
<1>6. heard \in [1 .. Len(names) -> Seq(Answers)] /\ \A i \in 1 .. Len(names) : heard[i] = <<>>
  <2>1. heard = [i \in 1 .. Len(names) |-> <<>>]
    BY <1>2, <1>3
  <2>2. <<>> \in Seq(Answers)
    OBVIOUS
  <2> QED
    BY <2>1, <2>2
<1>7. HeardParts
  <2>1. \A i \in at.name + 1 .. Len(names) : heard[i] = <<>>
    BY <1>3, <1>4, <1>6
  <2>2. ~Done => Len(heard[at.name]) = at.type - 1
    <3> SUFFICES ASSUME ~Done PROVE Len(heard[1]) = 0
      BY <1>4
    <3>1. 1 \in 1 .. Len(names)
      BY <1>3, <1>4 DEF Done
    <3>2. heard[1] = <<>>
      BY <1>6, <3>1
    <3> QED
      BY <3>2
  <2> QED
    BY <1>4, <1>6, <2>1, <2>2 DEF HeardParts
<1>8. VerdictParts
  BY <1>2, <1>3, <1>4 DEF VerdictParts, Done, Concluded
<1>9. WildcardParts
  <2>1. probes = <<>> /\ (check = "wildcard" => statuses = <<>>)
    BY <1>2
  <2>2. probes \in Seq(Probe) /\ Len(probes) = 0
    BY <2>1
  <2>3. /\ Len(probes) <= Len(names) /\ \A i \in 1 .. Len(probes) : ProbeOf(probes[i], heard[i])
        /\ ~Done => Len(probes) = IF at.step = "name" THEN at.name - 1 ELSE at.name
    BY <1>3, <1>4, <2>2 DEF Done
  <2>4. at.state \notin {"cancelled", "timed out"}
    BY <1>4
  <2> QED
    BY <2>1, <2>2, <2>3, <2>4 DEF WildcardParts
<1>10. DnssecParts
  <2> SUFFICES ASSUME check = "dnssec" PROVE statuses = <<>> /\ (Len(names) # 0 => Len(heard[1]) = 0)
    BY DEF DnssecParts
  <2>1. Len(names) # 0 => heard[1] = <<>>
    BY <1>3, <1>6
  <2> QED
    BY <1>2, <2>1
<1>11. DanglingParts
  <2> SUFFICES ASSUME check = "dangling" PROVE DanglingParts
    BY DEF DanglingParts
  <2>1. statuses = [i \in 1 .. Len(names) |-> "indeterminate"]
    BY <1>2, <1>3
  <2>2. at.step \notin {"ask", "wait"}
    BY <1>4
  <2>3. \A i \in 1 .. Len(names) : ~(i < at.name \/ at.state = "completed")
    BY <1>3, <1>4
  <2> QED
    BY <2>1, <2>2, <2>3 DEF DanglingParts
<1> QED
  BY <1>5, <1>7, <1>8, <1>9, <1>10, <1>11 DEF CheckSafe

\* A check that has not returned has a name to ask about.
LEMMA StillAsking ==
    ASSUME CheckSafe, ~Done
    PROVE  /\ Len(names) \in Nat /\ Len(names) # 0 /\ at.name \in 1 .. Len(names) /\ at.type \in 1 .. Len(QueryTypes)
           /\ at.step \in {"name", "ask", "wait"} /\ at.state = "running" /\ verdict = "none" /\ names # <<>>
           /\ Len(QueryTypes) \in Nat /\ at.name \in Nat /\ at.type \in Nat
           /\ at = [step |-> at.step, name |-> at.name, type |-> at.type, state |-> at.state]
           /\ at.step = "name" => at.type = 1
<1>1. CheckParts /\ VerdictParts
  BY DEF CheckSafe
<1>2. Len(QueryTypes) \in Nat
  BY <1>1, TypesToAsk DEF CheckParts
<1>3. verdict = "none"
  BY <1>1 DEF VerdictParts
<1> QED
  BY <1>1, <1>2, <1>3 DEF CheckParts, Done

LEMMA ProbesStop ==
    ASSUME NEW list \in Seq(Probe), NEW k \in 1 .. Len(list), NEW said,
           \A i \in 1 .. Len(list) : ProbeOf(list[i], said[i])
    PROVE  LET kept == [list EXCEPT ![k].conclusive = FALSE]
           IN  /\ kept \in Seq(Probe) /\ Len(kept) = Len(list) /\ ~kept[k].conclusive
               /\ \A i \in 1 .. Len(list) : ProbeOf(kept[i], said[i])
<1> DEFINE p == [list[k] EXCEPT !.conclusive = FALSE]
           kept == [list EXCEPT ![k] = p]
<1>1. ProbeOf(p, said[k]) /\ ~p.conclusive
  BY ProbeStops
<1>2. p \in Probe
  BY <1>1 DEF ProbeOf
<1>3. [list EXCEPT ![k].conclusive = FALSE] = kept
  OBVIOUS
<1> HIDE DEF p
<1>4. /\ kept \in Seq(Probe) /\ Len(kept) = Len(list)
      /\ \A j \in 1 .. Len(list) : kept[j] = IF j = k THEN p ELSE list[j]
  BY <1>2, ExceptSeq
<1> HIDE DEF kept
<1>5. \A i \in 1 .. Len(list) : ProbeOf(kept[i], said[i])
  BY <1>1, <1>4
<1> QED
  BY <1>1, <1>3, <1>4, <1>5

\* What is said of the destinations depends on what was heard and where the check is.
LEMMA DanglingStays ==
    ASSUME DanglingParts, UNCHANGED <<check, family, names, heard, statuses>>,
           at'.name = at.name, at'.state = "completed" => at.state = "completed",
           at'.step \in {"ask", "wait"} => at.step \in {"ask", "wait"} \/ (check = "dangling" => EarlierTarget = {})
    PROVE  DanglingParts'
<1>1. QueryTypes' = QueryTypes
  BY TypesStay
<1>2. (check = "dangling" /\ at'.step \in {"ask", "wait"}) => EarlierTarget' = {}
  BY DEF DanglingParts, EarlierTarget
<1> QED
  BY <1>1, <1>2 DEF DanglingParts, AllAsked

LEMMA ConcludedStays == ASSUME UNCHANGED check PROVE Concluded(probes, statuses)' = Concluded(probes', statuses')
BY DEF Concluded

LEMMA DnssecStays == ASSUME DnssecParts, UNCHANGED <<check, names, heard, statuses>> PROVE DnssecParts'
BY DEF DnssecParts

LEMMA PlacesInARow ==
    /\ \A k \in 1 .. 2 : k - 1 # 2
    /\ \A n \in Nat : \A k \in 1 .. n : k \in 1 .. k /\ n # 0 /\ (n = 1 => k = 1) /\ k - 1 # n /\ k < n + 1
    /\ \A n \in Nat : \A i \in 1 .. n : i \in Nat \ {0} /\ \A j \in 1 .. i : j \in 1 .. n
    /\ \A n \in Nat : \A i, k \in 1 .. n : i < k + 1 /\ i # k => i < k /\ \A j \in 1 .. i : j # k
OBVIOUS

\* A check that stops keeps what it heard.
LEMMA HaltIsSafe ==
    ASSUME CheckSafe, ~Done, check # "dnssec", UNCHANGED <<check, family, names, halted>>,
           NEW state \in {"cancelled", "timed out"}, NEW kept, Stopped(state, kept),
           kept = IF check = "wildcard" /\ at.step # "name" THEN [probes EXCEPT ![at.name].conclusive = FALSE] ELSE probes
    PROVE  CheckSafe'
<1> DEFINE n == Len(names)
<1>1. /\ n \in Nat /\ n # 0 /\ at.name \in 1 .. n /\ at.type \in 1 .. Len(QueryTypes)
      /\ at.step \in {"name", "ask", "wait"} /\ at.state = "running" /\ at.name \in Nat /\ at.type \in Nat
      /\ at = [step |-> at.step, name |-> at.name, type |-> at.type, state |-> at.state]
  BY StillAsking
<1>2. /\ at' = [at EXCEPT !.step = "done", !.state = state]
      /\ probes' = kept /\ verdict' = Concluded(kept, statuses) /\ statuses' = statuses /\ heard' = heard
  BY DEF Stopped
<1>3. /\ at' = [step |-> "done", name |-> at.name, type |-> at.type, state |-> state]
      /\ at'.step = "done" /\ at'.name = at.name /\ at'.type = at.type /\ at'.state = state
  BY <1>1, <1>2
<1>4. CheckParts /\ HeardParts /\ VerdictParts /\ WildcardParts /\ DnssecParts /\ DanglingParts
  BY DEF CheckSafe
<1>5. QueryTypes' = QueryTypes
  BY TypesStay
<1>6. CheckParts'
  BY <1>1, <1>3, <1>4, <1>5 DEF CheckParts, Done
<1>7. HeardParts'
  BY <1>2, <1>3, <1>4, <1>5 DEF HeardParts, Done, AllAsked
<1>8. VerdictParts'
  <2>1. Concluded(probes, statuses)' = verdict'
    BY <1>2, ConcludedStays
  <2> QED
    BY <1>1, <1>3, <2>1 DEF VerdictParts, Done
<1>9. WildcardParts'
  <2>1. CASE check # "wildcard"
    BY <1>2, <1>4, <2>1 DEF WildcardParts
  <2>2. CASE check = "wildcard"
    <3>1. /\ probes \in Seq(Probe) /\ Len(probes) <= n /\ statuses = <<>>
          /\ Len(probes) = IF at.step = "name" THEN at.name - 1 ELSE at.name
          /\ \A i \in 1 .. Len(probes) : ProbeOf(probes[i], heard[i])
      BY <1>4, <2>2 DEF WildcardParts
    <3>2. n = 2
      BY <1>1, <1>4, <2>2 DEF CheckParts
    <3>3. CASE at.step = "name"
      <4>1. probes' = probes
        BY <1>2, <3>3
      <4>2. Len(probes) = at.name - 1
        BY <3>1, <3>3
      <4>3. at.name \in 1 .. 2
        BY <1>1, <3>2
      <4>4. Len(probes) # 2
        BY <4>2, <4>3, PlacesInARow
      <4> QED
        BY <1>2, <1>3, <2>2, <3>1, <4>1, <4>4 DEF WildcardParts, Done
    <3>4. CASE at.step # "name"
      <4>0. Len(probes) = at.name
        BY <3>1, <3>4
      <4>1. Len(probes) = at.name /\ at.name \in 1 .. Len(probes)
        BY <1>1, <4>0, PlacesInARow
      <4>2. kept = [probes EXCEPT ![at.name].conclusive = FALSE]
        BY <2>2, <3>4
      <4>3. /\ kept \in Seq(Probe) /\ Len(kept) = Len(probes) /\ ~kept[at.name].conclusive
            /\ \A i \in 1 .. Len(probes) : ProbeOf(kept[i], heard[i])
        <5>1. probes \in Seq(Probe) /\ \A i \in 1 .. Len(probes) : ProbeOf(probes[i], heard[i])
          BY <3>1
        <5> DEFINE halting == [probes EXCEPT ![at.name].conclusive = FALSE]
        <5>2. /\ halting \in Seq(Probe) /\ Len(halting) = Len(probes) /\ ~halting[at.name].conclusive
              /\ \A i \in 1 .. Len(probes) : ProbeOf(halting[i], heard[i])
          BY <4>1, <5>1, ProbesStop
        <5>3. kept = halting
          BY <4>2
        <5> HIDE DEF halting
        <5> QED
          BY <5>2, <5>3
      <4>4. Len(kept) # 2 \/ ~kept[2].conclusive
        BY <4>1, <4>3
      <4> HIDE DEF Stopped
      <4> QED
        BY <1>2, <1>3, <2>2, <3>1, <4>3, <4>4 DEF WildcardParts, Done
    <3> QED
      BY <3>3, <3>4
  <2> QED
    BY <2>1, <2>2
<1>10. DnssecParts'
  BY <1>2, <1>4, DnssecStays
<1>11. DanglingParts'
  BY <1>2, <1>3, <1>4, DanglingStays
<1> QED
  BY <1>6, <1>7, <1>8, <1>9, <1>10, <1>11 DEF CheckSafe

\* The next name is begun: its probe is new.
LEMMA AskingIsSafe ==
    ASSUME CheckSafe, at.step = "name", UNCHANGED <<check, family, names, halted, heard, statuses, verdict>>,
           at' = [at EXCEPT !.step = "ask"], check = "dangling" => EarlierTarget = {},
           probes' = IF check = "wildcard" THEN Append(probes, NewProbe) ELSE probes
    PROVE  CheckSafe'
<1> DEFINE n == Len(names)
<1>1. ~Done
  BY DEF Done
<1>2. /\ n \in Nat /\ n # 0 /\ at.name \in 1 .. n /\ at.type \in 1 .. Len(QueryTypes)
      /\ at.state = "running" /\ at.name \in Nat /\ at.type \in Nat /\ at.type = 1
      /\ at = [step |-> at.step, name |-> at.name, type |-> at.type, state |-> at.state]
  BY <1>1, StillAsking
<1>3. /\ at' = [step |-> "ask", name |-> at.name, type |-> at.type, state |-> at.state]
      /\ at'.step = "ask" /\ at'.name = at.name /\ at'.type = at.type /\ at'.state = at.state
  BY <1>2
<1>4. CheckParts /\ HeardParts /\ VerdictParts /\ WildcardParts /\ DnssecParts /\ DanglingParts
  BY DEF CheckSafe
<1>5. QueryTypes' = QueryTypes
  BY TypesStay
<1>6. CheckParts'
  BY <1>1, <1>2, <1>3, <1>4, <1>5 DEF CheckParts, Done
<1>7. HeardParts'
  BY <1>1, <1>3, <1>4, <1>5 DEF HeardParts, Done, AllAsked
<1>8. VerdictParts'
  BY <1>1, <1>3, <1>4 DEF VerdictParts, Done
<1>9. WildcardParts'
  <2>1. CASE check # "wildcard"
    BY <1>4, <2>1 DEF WildcardParts
  <2>2. CASE check = "wildcard"
    <3>1. /\ probes \in Seq(Probe) /\ statuses = <<>> /\ Len(probes) = at.name - 1
          /\ \A i \in 1 .. Len(probes) : ProbeOf(probes[i], heard[i])
      BY <1>1, <1>4, <2>2 DEF WildcardParts
    <3>2. heard[at.name] = <<>>
      <4>1. heard[at.name] \in Seq(Answers) /\ Len(heard[at.name]) = 0
        BY <1>1, <1>2, <1>4 DEF HeardParts
      <4> QED
        BY <4>1, EmptySeq
    <3>3. NewProbe \in Probe /\ ProbeOf(NewProbe, <<>>)
      BY ProbeBegins DEF ProbeOf
    <3> DEFINE more == Append(probes, NewProbe)
    <3>4. /\ more \in Seq(Probe) /\ Len(more) = at.name
          /\ \A i \in 1 .. Len(probes) : more[i] = probes[i]
          /\ more[at.name] = NewProbe
      BY <1>2, <3>1, <3>3, AppendProperties
    <3> HIDE DEF more
    <3>5. \A i \in 1 .. at.name : i \in 1 .. Len(probes) \/ i = at.name
      BY <1>2, <3>1
    <3>6. \A i \in 1 .. at.name : ProbeOf(more[i], heard[i])
      BY <3>1, <3>2, <3>3, <3>4, <3>5
    <3>7. probes' = more
      BY <2>2 DEF more
    <3>8. Len(more) <= n
      BY <1>2, <3>4
    <3> QED
      BY <1>2, <1>3, <2>2, <3>1, <3>4, <3>6, <3>7, <3>8 DEF WildcardParts, Done
  <2> QED
    BY <2>1, <2>2
<1>10. DnssecParts'
  BY <1>4, DnssecStays
<1>11. DanglingParts'
  BY <1>3, <1>4, DanglingStays
<1> QED
  BY <1>6, <1>7, <1>8, <1>9, <1>10, <1>11 DEF CheckSafe

\* A step that only begins to wait, or stops the check from outside.
LEMMA WaitingIsSafe ==
    ASSUME CheckSafe, UNCHANGED <<check, family, names, heard, probes, statuses, verdict>>,
           halted' \in [token : BOOLEAN, overdue : BOOLEAN],
           at' = at \/ (at.step = "ask" /\ at' = [at EXCEPT !.step = "wait"])
    PROVE  CheckSafe'
<1>1. CheckParts /\ HeardParts /\ VerdictParts /\ WildcardParts /\ DnssecParts /\ DanglingParts
  BY DEF CheckSafe
<1>2. at \in [step : {"name", "ask", "wait", "done"}, name : Nat, type : Nat,
              state : {"running", "completed", "cancelled", "timed out"}]
  BY <1>1 DEF CheckParts
<1>3. /\ at' \in [step : {"name", "ask", "wait", "done"}, name : Nat, type : Nat,
                  state : {"running", "completed", "cancelled", "timed out"}]
      /\ at'.name = at.name /\ at'.type = at.type /\ at'.state = at.state
      /\ at'.step = at.step \/ (at.step = "ask" /\ at'.step = "wait")
  BY <1>2
<1>4. QueryTypes' = QueryTypes
  BY TypesStay
<1>5. (Done' <=> Done) /\ (at'.step = "name" <=> at.step = "name")
  BY <1>3 DEF Done
<1>6. CheckParts'
  BY <1>1, <1>3, <1>4, <1>5 DEF CheckParts
<1>7. HeardParts'
  BY <1>1, <1>3, <1>4, <1>5 DEF HeardParts, AllAsked
<1>8. VerdictParts'
  <2>1. Concluded(probes, statuses)' = Concluded(probes, statuses)
    BY ConcludedStays
  <2> QED
    BY <1>1, <1>5, <2>1 DEF VerdictParts
<1>9. WildcardParts'
  BY <1>1, <1>3, <1>5 DEF WildcardParts
<1>10. DnssecParts'
  BY <1>1, DnssecStays
<1>11. DanglingParts'
  BY <1>1, <1>3, DanglingStays
<1> QED
  BY <1>6, <1>7, <1>8, <1>9, <1>10, <1>11 DEF CheckSafe

\* What the check moves on to, when a name is done with.
LEMMA NextNameMoves ==
    ASSUME CheckSafe, ~Done, UNCHANGED <<check, family, names, halted>>, NEW kept, NEW reported, NextName(kept, reported),
           heard' \in [1 .. Len(names) -> Seq(Answers)], \A i \in 1 .. Len(names) : i # at.name => heard'[i] = heard[i],
           check # "dangling" => Len(heard'[at.name]) = Len(QueryTypes)
    PROVE  /\ CheckParts' /\ HeardParts' /\ VerdictParts' /\ probes' = kept /\ statuses' = reported
           /\ \/ at.name = Len(names) /\ at'.step = "done" /\ at'.name = at.name /\ at'.state = "completed"
              \/ at.name + 1 \in 1 .. Len(names) /\ at'.step = "name" /\ at'.name = at.name + 1 /\ at'.state = "running"
<1> DEFINE n == Len(names)
           k == at.name
<1>1. /\ n \in Nat /\ n # 0 /\ k \in 1 .. n /\ at.type \in 1 .. Len(QueryTypes) /\ Len(QueryTypes) \in Nat
      /\ at.step \in {"name", "ask", "wait"} /\ at.state = "running" /\ verdict = "none" /\ k \in Nat /\ at.type \in Nat
      /\ at = [step |-> at.step, name |-> at.name, type |-> at.type, state |-> at.state]
  BY StillAsking
<1>2. /\ CheckParts /\ HeardParts /\ VerdictParts
  BY DEF CheckSafe
<1>3. QueryTypes' = QueryTypes
  BY TypesStay
<1>4. /\ probes' = kept /\ statuses' = reported
      /\ k = n => at' = [at EXCEPT !.step = "done", !.state = "completed"] /\ verdict' = Concluded(kept, reported)
      /\ k # n => at' = [at EXCEPT !.step = "name", !.name = @ + 1, !.type = 1] /\ verdict' = verdict
  BY DEF NextName
<1>5. /\ \A i \in k + 1 .. n : heard[i] = <<>>
      /\ check # "dangling" => \A i \in 1 .. k - 1 : Len(heard[i]) = Len(QueryTypes)
  BY <1>2 DEF HeardParts, AllAsked
<1>6. CASE k = n
  <2>1. at' = [step |-> "done", name |-> at.name, type |-> at.type, state |-> "completed"]
    BY <1>1, <1>4, <1>6
  <2>2. at'.step = "done" /\ at'.name = k /\ at'.type = at.type /\ at'.state = "completed"
    BY <2>1
  <2>3. CheckParts'
    BY <1>1, <1>2, <1>3, <1>6, <2>1, <2>2 DEF CheckParts, Done
  <2>4. HeardParts'
    <3>1. \A i \in k + 1 .. n : FALSE
      BY <1>1, <1>6
    <3>2. \A i \in 1 .. k - 1 : i \in 1 .. n /\ i # k
      BY <1>1
    <3>3. check # "dangling" => \A i \in 1 .. k - 1 : Len(heard'[i]) = Len(QueryTypes)
      BY <1>5, <3>2
    <3> QED
      BY <1>3, <2>2, <3>1, <3>3 DEF HeardParts, AllAsked, Done
  <2>5. VerdictParts'
    <3>1. Concluded(probes, statuses)' = verdict'
      BY <1>4, <1>6, ConcludedStays
    <3> QED
      BY <1>1, <2>2, <3>1 DEF VerdictParts, Done
  <2> QED
    BY <1>4, <1>6, <2>2, <2>3, <2>4, <2>5
<1>7. CASE k # n
  <2>1. at' = [step |-> "name", name |-> at.name + 1, type |-> 1, state |-> at.state] /\ verdict' = "none"
    BY <1>1, <1>4, <1>7
  <2>2. at'.step = "name" /\ at'.name = k + 1 /\ at'.type = 1 /\ at'.state = "running"
    BY <1>1, <2>1
  <2>3. k + 1 \in 1 .. n /\ 1 \in 1 .. Len(QueryTypes) /\ k + 1 \in Nat
    BY <1>1, <1>7
  <2>4. CheckParts'
    <3>1. at' \in [step : {"name", "ask", "wait", "done"}, name : Nat, type : Nat,
                   state : {"running", "completed", "cancelled", "timed out"}]
      BY <1>1, <2>1, <2>3
    <3> QED
      BY <1>1, <1>2, <1>3, <2>2, <2>3, <3>1 DEF CheckParts, Done
  <2>5. HeardParts'
    <3>1. \A i \in k + 1 .. n : i \in 1 .. n /\ i # k
      BY <1>1
    <3>2. \A i \in (k + 1) + 1 .. n : i \in k + 1 .. n
      BY <1>1
    <3>3. \A i \in (k + 1) + 1 .. n : heard'[i] = <<>>
      BY <1>5, <3>1, <3>2
    <3>4. k + 1 \in k + 1 .. n
      BY <1>1, <2>3
    <3>5. heard'[k + 1] = <<>>
      BY <1>5, <3>1, <3>4
    <3>6. Len(heard'[k + 1]) = 1 - 1
      BY <3>5
    <3>7. \A i \in 1 .. (k + 1) - 1 : i = k \/ (i \in 1 .. k - 1 /\ i \in 1 .. n /\ i # k)
      BY <1>1
    <3>8. check # "dangling" => \A i \in 1 .. (k + 1) - 1 : Len(heard'[i]) = Len(QueryTypes)
      BY <1>5, <3>7
    <3> QED
      BY <1>3, <2>2, <3>3, <3>6, <3>8 DEF HeardParts, AllAsked
  <2>6. VerdictParts'
    BY <2>1, <2>2 DEF VerdictParts, Done
  <2> QED
    BY <1>4, <2>2, <2>3, <2>4, <2>5, <2>6
<1> QED
  BY <1>6, <1>7

\* And when another type is asked for.
LEMMA NextTypeMoves ==
    ASSUME CheckSafe, ~Done, UNCHANGED <<check, family, names, halted, verdict>>,
           at' = [at EXCEPT !.step = "ask", !.type = @ + 1], at.type # Len(QueryTypes),
           heard' \in [1 .. Len(names) -> Seq(Answers)], \A i \in 1 .. Len(names) : i # at.name => heard'[i] = heard[i],
           Len(heard'[at.name]) = at.type
    PROVE  /\ CheckParts' /\ HeardParts' /\ VerdictParts'
           /\ at'.step = "ask" /\ at'.name = at.name /\ at'.state = "running"
<1> DEFINE n == Len(names)
           k == at.name
<1>1. /\ n \in Nat /\ n # 0 /\ k \in 1 .. n /\ at.type \in 1 .. Len(QueryTypes) /\ Len(QueryTypes) \in Nat
      /\ at.state = "running" /\ verdict = "none" /\ k \in Nat /\ at.type \in Nat
      /\ at = [step |-> at.step, name |-> at.name, type |-> at.type, state |-> at.state]
  BY StillAsking
<1>2. CheckParts /\ HeardParts
  BY DEF CheckSafe
<1>3. QueryTypes' = QueryTypes
  BY TypesStay
<1>4. at' = [step |-> "ask", name |-> at.name, type |-> at.type + 1, state |-> at.state]
  BY <1>1
<1>5. at'.step = "ask" /\ at'.name = k /\ at'.type = at.type + 1 /\ at'.state = "running"
  BY <1>1, <1>4
<1>6. at.type + 1 \in 1 .. Len(QueryTypes) /\ at.type + 1 \in Nat /\ (at.type + 1) - 1 = at.type
  BY <1>1
<1>7. CheckParts'
  <2>1. at' \in [step : {"name", "ask", "wait", "done"}, name : Nat, type : Nat,
                 state : {"running", "completed", "cancelled", "timed out"}]
    BY <1>1, <1>4, <1>6
  <2> QED
    BY <1>1, <1>2, <1>3, <1>5, <1>6, <2>1 DEF CheckParts, Done
<1>8. HeardParts'
  <2>1. \A i \in k + 1 .. n : i \in 1 .. n /\ i # k
    BY <1>1
  <2>2. \A i \in 1 .. k - 1 : i \in 1 .. n /\ i # k
    BY <1>1
  <2>3. \A i \in k + 1 .. n : heard'[i] = <<>>
    BY <1>2, <2>1 DEF HeardParts
  <2>4. check # "dangling" => \A i \in 1 .. k - 1 : Len(heard'[i]) = Len(QueryTypes)
    BY <1>2, <2>2 DEF HeardParts, AllAsked
  <2> QED
    BY <1>3, <1>5, <1>6, <2>3, <2>4 DEF HeardParts, AllAsked
<1>9. VerdictParts'
  BY <1>1, <1>5 DEF VerdictParts, Done
<1> QED
  BY <1>5, <1>7, <1>8, <1>9

\* What hearing an answer does, whatever the check.
LEMMA HearMoves ==
    ASSUME CheckSafe, at.step = "wait", UNCHANGED <<check, family, names, halted>>, NEW answer \in Answers, Hear(answer)
    PROVE  LET n == Len(names)
               k == at.name
               outcomes == Append(heard[k], answer)
           IN  /\ n \in Nat /\ k \in 1 .. n /\ k \in Nat /\ heard[k] \in Seq(Answers) /\ Len(heard[k]) = at.type - 1
               /\ at.type \in 1 .. Len(QueryTypes) /\ Len(QueryTypes) \in Nat /\ Len(outcomes) = at.type
               /\ heard'[k] = outcomes /\ \A i \in 1 .. n : i # k => heard'[i] = heard[i]
               /\ CheckParts' /\ HeardParts' /\ VerdictParts'
               /\ \/ at.type = Len(QueryTypes) /\ k = n /\ at'.step = "done" /\ at'.name = k /\ at'.state = "completed"
                  \/ at.type = Len(QueryTypes) /\ k + 1 \in 1 .. n /\ at'.step = "name" /\ at'.name = k + 1 /\ at'.state = "running"
                  \/ at.type # Len(QueryTypes) /\ at'.step = "ask" /\ at'.name = k /\ at'.state = "running"
               /\ probes' = IF check = "wildcard" THEN [probes EXCEPT ![k] = wildcard_lookup(answer, probes[k])] ELSE probes
               /\ check = "dnssec" => statuses' = Append(statuses, dnssec_status(answer))
               /\ check = "wildcard" => statuses' = statuses
               /\ check = "dangling" => statuses' = IF at.type # Len(QueryTypes) THEN statuses
                                                    ELSE [statuses EXCEPT ![k] = Classified(outcomes, QueryTypes)]
<1> DEFINE n == Len(names)
           k == at.name
           outcomes == Append(heard[k], answer)
           kept == IF check = "wildcard" THEN [probes EXCEPT ![k] = wildcard_lookup(answer, @)] ELSE probes
           reported == CASE check = "dnssec"   -> Append(statuses, dnssec_status(answer))
                         [] check = "wildcard" -> statuses
                         [] check = "dangling" ->
                               IF at.type # Len(Addresses) THEN statuses
                               ELSE [statuses EXCEPT ![k] = classify_dangling_outcomes(
                                        {dangling_outcome(outcomes[t], Addresses[t]) : t \in DOMAIN outcomes})]
<1>1. ~Done
  BY DEF Done
<1>2. /\ n \in Nat /\ n # 0 /\ k \in 1 .. n /\ at.type \in 1 .. Len(QueryTypes) /\ Len(QueryTypes) \in Nat
      /\ at.state = "running" /\ verdict = "none" /\ k \in Nat /\ at.type \in Nat
  BY <1>1, StillAsking
<1>3. CheckParts /\ HeardParts
  BY DEF CheckSafe
<1>4. heard \in [1 .. n -> Seq(Answers)] /\ Len(heard[k]) = at.type - 1
  BY <1>1, <1>3 DEF HeardParts
<1>5. heard[k] \in Seq(Answers)
  BY <1>2, <1>4
<1>6. outcomes \in Seq(Answers) /\ Len(outcomes) = at.type
  <2>1. outcomes \in Seq(Answers) /\ Len(outcomes) = Len(heard[k]) + 1
    BY <1>5, AppendProperties
  <2> QED
    BY <1>2, <1>4, <2>1
<1>7. heard' = [heard EXCEPT ![k] = outcomes]
  BY DEF Hear
<1>8. IF at.type = Len(QueryTypes) THEN NextName(kept, reported)
      ELSE at' = [at EXCEPT !.step = "ask", !.type = @ + 1] /\ probes' = kept /\ statuses' = reported /\ UNCHANGED verdict
  BY DEF Hear
<1> HIDE DEF outcomes, kept, reported
<1>9. /\ heard' \in [1 .. n -> Seq(Answers)] /\ heard'[k] = outcomes
      /\ \A i \in 1 .. n : i # k => heard'[i] = heard[i]
  BY <1>2, <1>4, <1>6, <1>7
<1>10. /\ CheckParts' /\ HeardParts' /\ VerdictParts' /\ probes' = kept /\ statuses' = reported
       /\ \/ at.type = Len(QueryTypes) /\ k = n /\ at'.step = "done" /\ at'.name = k /\ at'.state = "completed"
          \/ at.type = Len(QueryTypes) /\ k + 1 \in 1 .. n /\ at'.step = "name" /\ at'.name = k + 1 /\ at'.state = "running"
          \/ at.type # Len(QueryTypes) /\ at'.step = "ask" /\ at'.name = k /\ at'.state = "running"
  <2>1. CASE at.type = Len(QueryTypes)
    <3>1. NextName(kept, reported)
      BY <1>8, <2>1
    <3> QED
      BY <1>1, <1>6, <1>9, <2>1, <3>1, NextNameMoves
  <2>2. CASE at.type # Len(QueryTypes)
    BY <1>1, <1>6, <1>8, <1>9, <2>2, NextTypeMoves
  <2> QED
    BY <2>1, <2>2
<1>11. kept = IF check = "wildcard" THEN [probes EXCEPT ![k] = wildcard_lookup(answer, probes[k])] ELSE probes
  BY DEF kept
<1>12. /\ check = "dnssec" => reported = Append(statuses, dnssec_status(answer))
       /\ check = "wildcard" => reported = statuses
       /\ check = "dangling" => reported = IF at.type # Len(QueryTypes) THEN statuses
                                           ELSE [statuses EXCEPT ![k] = Classified(outcomes, QueryTypes)]
  <2>1. check = "dangling" => QueryTypes = Addresses
    BY DEF QueryTypes
  <2>2. Classified(outcomes, Addresses) = classify_dangling_outcomes({dangling_outcome(outcomes[t], Addresses[t]) : t \in DOMAIN outcomes})
    BY DEF Classified
  <2>3. check = "dnssec" => reported = Append(statuses, dnssec_status(answer))
    BY DEF reported
  <2>4. check = "wildcard" => reported = statuses
    BY DEF reported
  <2>5. check = "dangling" => reported = IF at.type # Len(Addresses) THEN statuses
                                         ELSE [statuses EXCEPT ![k] = Classified(outcomes, Addresses)]
    BY <2>2 DEF reported
  <2> QED
    BY <2>1, <2>3, <2>4, <2>5
<1> QED
  BY <1>2, <1>4, <1>5, <1>6, <1>9, <1>10, <1>11, <1>12 DEF outcomes

LEMMA WildcardHears ==
    ASSUME CheckSafe, at.step = "wait", UNCHANGED <<check, family, names, halted>>, NEW answer \in Answers, Hear(answer)
    PROVE  WildcardParts'
<1> DEFINE n == Len(names)
           k == at.name
           outcomes == Append(heard[k], answer)
<1>1. /\ n \in Nat /\ k \in 1 .. n /\ k \in Nat /\ heard[k] \in Seq(Answers)
      /\ heard'[k] = outcomes /\ \A i \in 1 .. n : i # k => heard'[i] = heard[i]
      /\ \/ k = n /\ at'.step = "done" /\ at'.name = k /\ at'.state = "completed"
         \/ k + 1 \in 1 .. n /\ at'.step = "name" /\ at'.name = k + 1 /\ at'.state = "running"
         \/ at'.step = "ask" /\ at'.name = k /\ at'.state = "running"
      /\ probes' = IF check = "wildcard" THEN [probes EXCEPT ![k] = wildcard_lookup(answer, probes[k])] ELSE probes
      /\ check = "wildcard" => statuses' = statuses
  BY HearMoves
<1>2. WildcardParts
  BY DEF CheckSafe
<1>3. CASE check # "wildcard"
  BY <1>1, <1>2, <1>3 DEF WildcardParts
<1>4. CASE check = "wildcard"
  <2> DEFINE p == wildcard_lookup(answer, probes[k])
  <2>1. /\ probes \in Seq(Probe) /\ Len(probes) <= n /\ statuses = <<>> /\ Len(probes) = k
        /\ \A i \in 1 .. Len(probes) : ProbeOf(probes[i], heard[i])
    BY <1>2, <1>4 DEF WildcardParts, Done
  <2>2. ProbeOf(probes[k], heard[k])
    BY <1>1, <2>1, PlacesInARow
  <2>3. ProbeOf(p, outcomes)
    BY <1>1, <2>2, ProbeHears
  <2> HIDE DEF p, outcomes
  <2>4. p \in Probe
    BY <2>3 DEF ProbeOf
  <2>5. probes' = [probes EXCEPT ![k] = p]
    BY <1>1, <1>4 DEF p
  <2>6. k \in 1 .. Len(probes)
    BY <1>1, <2>1, PlacesInARow
  <2>7. /\ [probes EXCEPT ![k] = p] \in Seq(Probe) /\ Len([probes EXCEPT ![k] = p]) = k
        /\ \A i \in 1 .. k : [probes EXCEPT ![k] = p][i] = IF i = k THEN p ELSE probes[i]
    BY <2>1, <2>4, <2>6, ExceptSeq
  <2> DEFINE kept == [probes EXCEPT ![k] = p]
  <2> HIDE DEF kept
  <2>8. kept \in Seq(Probe) /\ Len(kept) = k /\ \A i \in 1 .. k : kept[i] = IF i = k THEN p ELSE probes[i]
    BY <2>7 DEF kept
  <2>9. \A i \in 1 .. k : i \in 1 .. n
    BY <1>1
  <2>10. \A i \in 1 .. k : ProbeOf(kept[i], heard'[i])
    BY <1>1, <2>1, <2>3, <2>8, <2>9
  <2>11. probes' = kept
    BY <2>5 DEF kept
  <2>12. ~Done' => k = IF at'.step = "name" THEN at'.name - 1 ELSE at'.name
    BY <1>1 DEF Done
  <2>13. k <= n
    BY <1>1
  <2> QED
    BY <1>1, <1>4, <2>1, <2>8, <2>10, <2>11, <2>12, <2>13 DEF WildcardParts
<1> QED
  BY <1>3, <1>4

LEMMA DnssecHears ==
    ASSUME CheckSafe, at.step = "wait", UNCHANGED <<check, family, names, halted>>, NEW answer \in Answers, Hear(answer)
    PROVE  DnssecParts'
<1> SUFFICES ASSUME check = "dnssec" PROVE DnssecParts'
  BY DEF DnssecParts
<1> DEFINE k == at.name
           outcomes == Append(heard[k], answer)
<1>1. /\ Len(names) \in Nat /\ k \in 1 .. Len(names) /\ k \in Nat /\ heard[k] \in Seq(Answers) /\ heard'[k] = outcomes
      /\ statuses' = Append(statuses, dnssec_status(answer))
  BY HearMoves
<1>2. k = 1 /\ Len(names) # 0
  <2>1. Len(names) # 0 => Len(names) = 1
    BY DEF CheckSafe, CheckParts
  <2> QED
    BY <1>1, <2>1, PlacesInARow
<1>3. /\ statuses \in Seq(Proofs) /\ Len(statuses) = Len(heard[1])
      /\ \A t \in 1 .. Len(statuses) : statuses[t] = dnssec_status(heard[1][t])
  BY <1>2 DEF CheckSafe, DnssecParts
<1>4. dnssec_status(answer) \in Proofs
  BY StatusOfAnswer
<1> DEFINE m == Len(statuses)
           more == Append(statuses, dnssec_status(answer))
<1>5. /\ more \in Seq(Proofs) /\ Len(more) = m + 1 /\ m \in Nat /\ more[m + 1] = dnssec_status(answer)
      /\ \A t \in 1 .. m : more[t] = statuses[t]
  BY <1>3, <1>4, AppendProperties, LenProperties
<1>6. /\ Len(outcomes) = m + 1 /\ outcomes[m + 1] = answer /\ \A t \in 1 .. m : outcomes[t] = heard[1][t]
  BY <1>1, <1>2, <1>3, AppendProperties
<1> HIDE DEF more, outcomes, m
<1>7. \A t \in 1 .. m + 1 : t \in 1 .. m \/ t = m + 1
  BY <1>5
<1>8. \A t \in 1 .. m + 1 : more[t] = dnssec_status(outcomes[t])
  BY <1>3, <1>5, <1>6, <1>7 DEF m
<1>9. statuses' = more /\ heard'[1] = outcomes
  BY <1>1, <1>2 DEF more
<1> QED
  BY <1>5, <1>6, <1>8, <1>9 DEF DnssecParts

\* Until the last type is asked for, a name is not done with.
LEMMA NotAllAsked == ASSUME CheckSafe, ~Done PROVE Len(heard[at.name]) # Len(QueryTypes)
<1>1. Len(heard[at.name]) = at.type - 1
  BY DEF CheckSafe, HeardParts
<1>2. at.type \in 1 .. Len(QueryTypes) /\ Len(QueryTypes) \in Nat
  BY StillAsking
<1> QED
  BY <1>1, <1>2, PlacesInARow

\* Where the first places are.
LEMMA FirstPlaces ==
    ASSUME CheckSafe, ~Done
    PROVE  \A i \in 1 .. Len(names) : /\ FirstOf(names, i) \in 1 .. i /\ FirstOf(names, i) \in 1 .. Len(names)
                                      /\ i < at.name + 1 /\ i # at.name => i < at.name /\ FirstOf(names, i) # at.name
<1>1. Len(names) \in Nat /\ at.name \in 1 .. Len(names)
  BY StillAsking
<1> TAKE i \in 1 .. Len(names)
<1>2. i \in Nat \ {0} /\ \A j \in 1 .. i : j \in 1 .. Len(names)
  BY <1>1, PlacesInARow
<1>3. FirstOf(names, i) \in 1 .. i
  BY <1>2, FirstOfFacts
<1> QED
  BY <1>1, <1>2, <1>3, PlacesInARow

\* The destinations before the k-th have the status of their first place, and
\* one that has a status has it from all the lookups of that place.
Told(n, k, first, all, types, said, status) ==
    /\ \A i \in 1 .. n : status[i] # "indeterminate" =>
          Len(said[first[i]]) = all /\ status[i] = Classified(said[first[i]], types)
    /\ \A i \in 1 .. n : i < k => status[i] = status[first[i]]

\* With one destination more.
Beside(n, k, s, t) == \A i \in 1 .. n : i # k => t[i] = s[i]
FirstsOf(n, k, first) == \A i \in 1 .. n : first[i] \in 1 .. n /\ (i < k + 1 /\ i # k => i < k /\ first[i] # k)

LEMMA ToldAdvances ==
    ASSUME NEW n, NEW k \in 1 .. n, NEW first, NEW all, NEW types, NEW old, NEW new, NEW s, NEW t,
           FirstsOf(n, k, first), Told(n, k, first, all, types, old, s),
           Len(old[k]) # all, Beside(n, k, s, t), Beside(n, k, old, new),
           t[k] # "indeterminate" => Len(new[first[k]]) = all /\ t[k] = Classified(new[first[k]], types),
           first[k] # k => t[k] = s[first[k]]
    PROVE  Told(n, k + 1, first, all, types, new, t)
<1> USE DEF Told, Beside, FirstsOf
<1>1. ASSUME NEW i \in 1 .. n, t[i] # "indeterminate"
      PROVE  Len(new[first[i]]) = all /\ t[i] = Classified(new[first[i]], types)
  <2>1. CASE i = k
    BY <1>1, <2>1
  <2>2. CASE i # k
    <3>1. Len(old[first[i]]) = all /\ t[i] = Classified(old[first[i]], types)
      BY <1>1, <2>2
    <3>2. first[i] # k /\ first[i] \in 1 .. n
      BY <3>1
    <3>3. new[first[i]] = old[first[i]]
      BY <3>2
    <3> QED
      BY <3>1, <3>3
  <2> QED
    BY <2>1, <2>2
<1>2. ASSUME NEW i \in 1 .. n, i < k + 1 PROVE t[i] = t[first[i]]
  <2>1. CASE i = k
    BY <2>1
  <2>2. CASE i # k
    BY <1>2, <2>2
  <2> QED
    BY <2>1, <2>2
<1> QED
  BY <1>1, <1>2

\* A destination more is classified, as its own lookups say or as its first place was.
LEMMA DanglingAdvances ==
    ASSUME CheckSafe, ~Done, check = "dangling", UNCHANGED <<check, family, names>>,
           NEW class \in {"resolved", "nxdomain", "no address", "indeterminate"},
           statuses' = [statuses EXCEPT ![at.name] = class],
           \A i \in 1 .. Len(names) : i # at.name => heard'[i] = heard[i],
           class # "indeterminate" => /\ Len(heard'[FirstOf(names, at.name)]) = Len(QueryTypes)
                                      /\ class = Classified(heard'[FirstOf(names, at.name)], QueryTypes),
           FirstOf(names, at.name) # at.name => class = statuses[FirstOf(names, at.name)],
           \/ at.name = Len(names) /\ at'.step = "done" /\ at'.name = at.name
           \/ at.name + 1 \in 1 .. Len(names) /\ at'.step = "name" /\ at'.name = at.name + 1 /\ at'.state = "running"
    PROVE  DanglingParts'
<1> DEFINE n == Len(names)
           k == at.name
           Classes == {"resolved", "nxdomain", "no address", "indeterminate"}
           first == [i \in 1 .. n |-> FirstOf(names, i)]
           all == Len(QueryTypes)
           types == QueryTypes
           t == statuses'
           new == heard'
<1>1. n \in Nat /\ k \in 1 .. n
  BY StillAsking
<1>2. statuses \in [1 .. n -> Classes] /\ Told(n, k, first, all, types, heard, statuses)
  BY DEF CheckSafe, DanglingParts, AllAsked, Told
<1>3. FirstsOf(n, k, first)
  BY FirstPlaces DEF FirstsOf
<1>4. Len(heard[k]) # all
  BY NotAllAsked
<1>5. QueryTypes' = types
  BY TypesStay
<1>6. t \in [1 .. n -> Classes] /\ t[k] = class /\ Beside(n, k, statuses, t) /\ Beside(n, k, heard, new)
  BY <1>1, <1>2 DEF Beside
<1>7. first[k] = FirstOf(names, k)
  BY <1>1
<1>8. \A i \in 1 .. n : first[i] = FirstOf(names, i)
  OBVIOUS
<1>9. /\ t[k] # "indeterminate" => Len(new[first[k]]) = all /\ t[k] = Classified(new[first[k]], types)
      /\ first[k] # k => t[k] = statuses[first[k]]
  BY <1>6, <1>7
<1> HIDE DEF first, t, new, n, k, all, types
<1>10. Told(n, k + 1, first, all, types, new, t)
  BY <1>1, <1>2, <1>3, <1>4, <1>6, <1>9, ToldAdvances
<1>11. \A i \in 1 .. n : i < at'.name \/ at'.state = "completed" => i < k + 1
  <2>1. CASE k = n /\ at'.name = k
    BY <1>1, <2>1, PlacesInARow
  <2>2. CASE at'.name = k + 1 /\ at'.state = "running"
    BY <2>2
  <2> QED
    BY <2>1, <2>2 DEF n, k
<1>12. \A i \in 1 .. n : i < at'.name \/ at'.state = "completed" => t[i] = t[FirstOf(names, i)]
  BY <1>8, <1>10, <1>11 DEF Told
<1>13. \A i \in 1 .. n : t[i] # "indeterminate" =>
          /\ Len(new[FirstOf(names, i)]) = all
          /\ t[i] = Classified(new[FirstOf(names, i)], types)
  <2> SUFFICES ASSUME NEW i \in 1 .. n, t[i] # "indeterminate"
               PROVE  Len(new[FirstOf(names, i)]) = all /\ t[i] = Classified(new[FirstOf(names, i)], types)
    OBVIOUS
  <2>1. first[i] = FirstOf(names, i)
    BY <1>8
  <2>2. Len(new[first[i]]) = all /\ t[i] = Classified(new[first[i]], types)
    BY <1>10 DEF Told
  <2> QED
    BY <2>1, <2>2, Zenon
<1>14. at'.step \notin {"ask", "wait"}
  OBVIOUS
<1>15. Len(names)' = n
  BY DEF n
<1> QED
  BY <1>5, <1>6, <1>12, <1>13, <1>14, <1>15 DEF DanglingParts, AllAsked, t, new, all, types

\* The answers to a destination that was met for the first time.
LEMMA FirstMet ==
    ASSUME CheckSafe, ~Done, EarlierTarget = {} PROVE FirstOf(names, at.name) = at.name
<1>1. at.name \in Nat \ {0}
  BY StillAsking
<1>2. \A l \in 1 .. at.name - 1 : names[l] # names[at.name]
  BY DEF EarlierTarget
<1>3. at.name \in 1 .. at.name
  BY <1>1
<1> QED
  BY <1>1, <1>2, <1>3, FirstOfFacts

LEMMA DanglingHears ==
    ASSUME CheckSafe, at.step = "wait", UNCHANGED <<check, family, names, halted>>, NEW answer \in Answers, Hear(answer)
    PROVE  DanglingParts'
<1> SUFFICES ASSUME check = "dangling" PROVE DanglingParts'
  BY DEF DanglingParts
<1> DEFINE n == Len(names)
           k == at.name
           outcomes == Append(heard[k], answer)
<1>1. ~Done
  BY DEF Done
<1>2. /\ n \in Nat /\ k \in 1 .. n /\ k \in Nat /\ Len(heard[k]) = at.type - 1
      /\ at.type \in 1 .. Len(QueryTypes) /\ Len(QueryTypes) \in Nat /\ Len(outcomes) = at.type
      /\ heard'[k] = outcomes /\ \A i \in 1 .. n : i # k => heard'[i] = heard[i]
      /\ \/ at.type = Len(QueryTypes) /\ k = n /\ at'.step = "done" /\ at'.name = k /\ at'.state = "completed"
         \/ at.type = Len(QueryTypes) /\ k + 1 \in 1 .. n /\ at'.step = "name" /\ at'.name = k + 1 /\ at'.state = "running"
         \/ at.type # Len(QueryTypes) /\ at'.step = "ask" /\ at'.name = k /\ at'.state = "running"
      /\ statuses' = IF at.type # Len(QueryTypes) THEN statuses ELSE [statuses EXCEPT ![k] = Classified(outcomes, QueryTypes)]
  BY HearMoves
<1>3. DanglingParts /\ EarlierTarget = {}
  BY DEF CheckSafe, DanglingParts
<1>4. FirstOf(names, k) = k
  BY <1>1, <1>3, FirstMet
<1> HIDE DEF outcomes, n, k
<1>5. CASE at.type = Len(QueryTypes)
  <2> DEFINE class == Classified(outcomes, QueryTypes)
  <2>1. class \in {"resolved", "nxdomain", "no address", "indeterminate"}
    BY ClassifiedFacts
  <2>2. Len(heard'[FirstOf(names, k)]) = Len(QueryTypes) /\ class = Classified(heard'[FirstOf(names, k)], QueryTypes)
    BY <1>2, <1>4, <1>5
  <2>3. statuses' = [statuses EXCEPT ![k] = class]
    BY <1>2, <1>5
  <2> HIDE DEF class
  <2> QED
    BY <1>1, <1>2, <1>4, <1>5, <2>1, <2>2, <2>3, DanglingAdvances DEF n, k
<1>6. CASE at.type # Len(QueryTypes)
  <2>1. statuses' = statuses /\ at'.step = "ask" /\ at'.name = k /\ at'.state = "running" /\ at.state = "running"
    BY <1>1, <1>2, <1>6, StillAsking
  <2>2. QueryTypes' = QueryTypes
    BY TypesStay
  <2>3. Len(heard[k]) # Len(QueryTypes)
    BY <1>2
  <2>4. \A i \in 1 .. n : statuses[i] # "indeterminate" => /\ Len(heard[FirstOf(names, i)]) = Len(QueryTypes)
                                                           /\ statuses[i] = Classified(heard[FirstOf(names, i)], QueryTypes)
    BY <1>3 DEF DanglingParts, AllAsked, n
  <2>5. \A i \in 1 .. n : FirstOf(names, i) \in 1 .. n
    <3> SUFFICES ASSUME NEW i \in 1 .. n PROVE FirstOf(names, i) \in 1 .. n
      OBVIOUS
    <3>1. i \in Nat \ {0} /\ \A j \in 1 .. i : j \in 1 .. n
      BY <1>2
    <3> QED
      BY <3>1, FirstOfFacts
  <2>6. \A i \in 1 .. n : statuses[i] # "indeterminate" => heard'[FirstOf(names, i)] = heard[FirstOf(names, i)]
    BY <1>2, <2>3, <2>4, <2>5
  <2>7. EarlierTarget' = {}
    BY <1>3, <2>1 DEF EarlierTarget, k
  <2>8. \A i \in 1 .. n : i < k => statuses[i] = statuses[FirstOf(names, i)]
    BY <1>3 DEF DanglingParts, n, k
  <2> QED
    BY <1>3, <2>1, <2>2, <2>4, <2>6, <2>7, <2>8 DEF DanglingParts, AllAsked, n
<1> QED
  BY <1>5, <1>6

LEMMA HearIsSafe ==
    ASSUME CheckSafe, at.step = "wait", UNCHANGED <<check, family, names, halted>>, NEW answer \in Answers, Hear(answer)
    PROVE  CheckSafe'
<1>1. CheckParts' /\ HeardParts' /\ VerdictParts'
  BY HearMoves
<1> QED
  BY <1>1, WildcardHears, DnssecHears, DanglingHears DEF CheckSafe

\* An alias of a destination that was classified before takes its status.
LEMMA AliasIsSafe ==
    ASSUME CheckSafe, at.step = "name", check = "dangling", EarlierTarget # {},
           UNCHANGED <<check, family, names, halted, heard>>,
           NextName(probes, [statuses EXCEPT ![at.name] = statuses[CHOOSE i \in EarlierTarget : \A j \in EarlierTarget : i <= j]])
    PROVE  CheckSafe'
<1> DEFINE n == Len(names)
           k == at.name
           first == CHOOSE i \in EarlierTarget : \A j \in EarlierTarget : i <= j
           reported == [statuses EXCEPT ![k] = statuses[first]]
<1>1. ~Done
  BY DEF Done
<1>2. n \in Nat /\ k \in 1 .. n /\ k \in Nat
  BY <1>1, StillAsking
<1>3. CheckParts /\ HeardParts /\ WildcardParts /\ DnssecParts /\ DanglingParts
  BY DEF CheckSafe
<1>4. /\ CheckParts' /\ HeardParts' /\ VerdictParts' /\ probes' = probes /\ statuses' = reported
      /\ \/ at.name = Len(names) /\ at'.step = "done" /\ at'.name = at.name /\ at'.state = "completed"
         \/ at.name + 1 \in 1 .. Len(names) /\ at'.step = "name" /\ at'.name = at.name + 1 /\ at'.state = "running"
  <2>1. heard' \in [1 .. n -> Seq(Answers)] /\ \A i \in 1 .. n : i # k => heard'[i] = heard[i]
    BY <1>3 DEF HeardParts
  <2>2. NextName(probes, reported)
    OBVIOUS
  <2> HIDE DEF reported
  <2> QED
    BY <1>1, <2>1, <2>2, NextNameMoves
<1>5. first \in EarlierTarget /\ \A j \in EarlierTarget : first <= j
  <2>1. EarlierTarget \subseteq Nat
    BY DEF EarlierTarget
  <2>2. \E i \in EarlierTarget : \A j \in EarlierTarget : i <= j
    BY <2>1, LeastNatural
  <2> QED
    BY <2>2
<1> HIDE DEF first
<1>6. first \in 1 .. k - 1 /\ names[first] = names[k]
  BY <1>5 DEF EarlierTarget
<1>7. \A l \in 1 .. first - 1 : names[l] # names[k]
  <2> SUFFICES ASSUME NEW l \in 1 .. first - 1, names[l] = names[k] PROVE FALSE
    OBVIOUS
  <2>1. l \in 1 .. k - 1 /\ ~(first <= l)
    BY <1>2, <1>6
  <2>2. l \in EarlierTarget
    BY <2>1 DEF EarlierTarget
  <2> QED
    BY <1>5, <2>1, <2>2
<1>8. first \in 1 .. k /\ k \in Nat \ {0} /\ first \in Nat \ {0} /\ first \in 1 .. first /\ first \in 1 .. n /\ first # k
  BY <1>2, <1>6
<1>9. FirstOf(names, k) = first /\ FirstOf(names, first) = first
  BY <1>6, <1>7, <1>8, FirstOfFacts
<1>10. /\ statuses[first] \in {"resolved", "nxdomain", "no address", "indeterminate"}
       /\ statuses[first] # "indeterminate" => /\ Len(heard[first]) = Len(QueryTypes)
                                               /\ statuses[first] = Classified(heard[first], QueryTypes)
  BY <1>3, <1>8, <1>9 DEF DanglingParts, AllAsked
<1>11. DanglingParts'
  BY <1>1, <1>4, <1>8, <1>9, <1>10, DanglingAdvances
<1>12. WildcardParts' /\ DnssecParts'
  BY <1>3, <1>4 DEF WildcardParts, DnssecParts
<1> QED
  BY <1>4, <1>11, <1>12 DEF CheckSafe

LEMMA CheckStepIsSafe == ASSUME CheckSafe, CheckNext PROVE CheckSafe'
<1>1. ASSUME NEW kept, UNCHANGED <<check, family, names, halted>>, ~Done, Halt(kept),
             kept = IF check = "wildcard" /\ at.step # "name" THEN [probes EXCEPT ![at.name].conclusive = FALSE] ELSE probes
      PROVE  CheckSafe'
  <2>1. check # "dnssec"
    BY <1>1 DEF Halt, Sees
  <2>2. PICK state \in {"cancelled", "timed out"} : Stopped(state, kept)
    BY <1>1 DEF Halt
  <2> QED
    BY <1>1, <2>1, <2>2, HaltIsSafe
<1>2. CASE BeginName
  <2>1. at.step = "name" /\ UNCHANGED <<check, family, names, halted>> /\ ~Done
    BY <1>2 DEF BeginName, Done
  <2>2. CASE check = "wildcard" /\ Halt(probes)
    BY <1>1, <2>1, <2>2
  <2>3. CASE /\ check = "dangling" => EarlierTarget = {}
             /\ at' = [at EXCEPT !.step = "ask"] /\ UNCHANGED <<verdict, statuses, heard>>
             /\ probes' = IF check = "wildcard" THEN Append(probes, NewProbe) ELSE probes
    BY <2>1, <2>3, AskingIsSafe
  <2>4. CASE /\ check = "dangling" /\ EarlierTarget # {} /\ UNCHANGED heard
             /\ NextName(probes, [statuses EXCEPT ![at.name] = statuses[CHOOSE i \in EarlierTarget : \A j \in EarlierTarget : i <= j]])
    BY <2>1, <2>4, AliasIsSafe
  <2> QED
    BY <1>2, <2>2, <2>3, <2>4 DEF BeginName
<1>3. CASE Ask
  <2>1. at.step = "ask" /\ UNCHANGED <<check, family, names, halted>> /\ ~Done
    BY <1>3 DEF Ask, Done
  <2>2. CASE Halt(StoppedProbes)
    <3>1. StoppedProbes = IF check = "wildcard" /\ at.step # "name" THEN [probes EXCEPT ![at.name].conclusive = FALSE] ELSE probes
      BY <2>1 DEF StoppedProbes
    <3> HIDE DEF StoppedProbes
    <3> QED
      BY <1>1, <2>1, <2>2, <3>1
  <2>3. CASE at' = [at EXCEPT !.step = "wait"] /\ UNCHANGED <<heard, probes, statuses, verdict>>
    <3>1. halted' \in [token : BOOLEAN, overdue : BOOLEAN]
      BY <2>1 DEF CheckSafe, CheckParts
    <3> QED
      BY <2>1, <2>3, <3>1, WaitingIsSafe
  <2> QED
    BY <1>3, <2>2, <2>3 DEF Ask
<1>4. CASE Lookup
  <2>1. at.step = "wait" /\ UNCHANGED <<check, family, names, halted>> /\ ~Done
    BY <1>4 DEF Lookup, Done
  <2>2. CASE Halt(StoppedProbes)
    <3>1. StoppedProbes = IF check = "wildcard" /\ at.step # "name" THEN [probes EXCEPT ![at.name].conclusive = FALSE] ELSE probes
      BY <2>1 DEF StoppedProbes
    <3> QED
      BY <1>1, <2>1, <2>2, <3>1
  <2>3. CASE \E answer \in Answers : Hear(answer)
    BY <2>1, <2>3, HearIsSafe
  <2> QED
    BY <1>4, <2>2, <2>3 DEF Lookup
<1>5. CASE HaltCheck
  <2>1. UNCHANGED <<check, family, names, at, heard, probes, statuses, verdict>>
    BY <1>5 DEF HaltCheck
  <2>2. PICK cause \in {"token", "overdue"} : halted' = [halted EXCEPT ![cause] = TRUE]
    BY <1>5 DEF HaltCheck
  <2>3. halted' \in [token : BOOLEAN, overdue : BOOLEAN]
    BY <2>2 DEF CheckSafe, CheckParts
  <2> QED
    BY <2>1, <2>3, WaitingIsSafe
<1> QED
  BY <1>2, <1>3, <1>4, <1>5 DEF CheckNext, CheckStep

LEMMA CheckStaysSafe == ASSUME CheckSafe, UNCHANGED checkVars PROVE CheckSafe'
<1>1. UNCHANGED <<check, family, names, at, halted, heard, probes, statuses, verdict>>
  BY DEF checkVars
<1>2. halted' \in [token : BOOLEAN, overdue : BOOLEAN]
  BY <1>1 DEF CheckSafe, CheckParts
<1> QED
  BY <1>1, <1>2, WaitingIsSafe

LEMMA VerdictTypes == ASSUME CheckSafe PROVE verdict \in Proofs \cup {"none", "not applicable", "detected", "not detected"}
<1>1. CheckParts /\ VerdictParts /\ DnssecParts
  BY DEF CheckSafe
<1>2. finish_wildcard_observation(probes) \in {"indeterminate", "detected", "not detected"}
  BY DEF finish_wildcard_observation
<1>3. check = "dnssec" => aggregate_dnssec_status(ToSet(statuses)) \in Proofs
  <2> SUFFICES ASSUME check = "dnssec" PROVE aggregate_dnssec_status(ToSet(statuses)) \in Proofs
    OBVIOUS
  <2>1. statuses \in Seq(Proofs)
    BY <1>1 DEF DnssecParts
  <2>2. ToSet(statuses) \in SUBSET Proofs
    BY <2>1, LenProperties DEF ToSet
  <2> QED
    BY <2>2, Aggregated
<1>4. Concluded(probes, statuses) \in Proofs \cup {"none", "detected", "not detected"}
  <2>1. CASE check = "dnssec"
    BY <1>3, <2>1 DEF Concluded
  <2>2. CASE check = "wildcard"
    BY <1>2, <2>2 DEF Concluded, Proofs
  <2>3. CASE check = "dangling"
    BY <2>3 DEF Concluded
  <2> QED
    BY <1>1, <2>1, <2>2, <2>3 DEF CheckParts
<1> QED
  BY <1>1, <1>4 DEF VerdictParts

LEMMA LenOfRow == ASSUME NEW n \in Nat, NEW S, NEW f \in [1 .. n -> S] PROVE Len(f) = n /\ DOMAIN f = 1 .. n
OBVIOUS

LEMMA NothingIn == DOMAIN <<>> = {}
OBVIOUS

LEMMA SecondOfTwo == 2 \in 1 .. 2
OBVIOUS

LEMMA CheckTypes == ASSUME CheckSafe PROVE CheckTypeOK
<1>1. CheckParts /\ HeardParts /\ WildcardParts /\ DnssecParts /\ DanglingParts
  BY DEF CheckSafe
<1>2. Len(QueryTypes) \in Nat /\ Len(names) \in Nat
  BY <1>1, TypesToAsk DEF CheckParts
<1>3. at.name \in 1 .. Len(names) + 1 /\ at.type \in 1 .. Len(QueryTypes) + 1
  <2>1. \A m \in Nat : 1 \in 1 .. m + 1 /\ \A i \in 1 .. m : i \in 1 .. m + 1
    OBVIOUS
  <2> QED
    BY <1>1, <1>2, <2>1 DEF CheckParts
<1>4. /\ at.step \in {"name", "ask", "wait", "done"} /\ at.state \in {"running", "completed", "cancelled", "timed out"}
      /\ (at.state # "running" <=> Done) /\ halted \in [token : BOOLEAN, overdue : BOOLEAN]
  BY <1>1 DEF CheckParts
<1>5. Len(heard) = Len(names)
  BY <1>1, <1>2, LenOfRow DEF HeardParts
<1>6. \A i \in DOMAIN probes : Cardinality(probes[i].fingerprints) <= MaxDnsRecords
  <2>1. CASE check = "wildcard"
    <3>1. probes \in Seq(Probe) /\ \A i \in 1 .. Len(probes) : ProbeOf(probes[i], heard[i])
      BY <1>1, <2>1 DEF WildcardParts
    <3> QED
      BY <3>1, LenProperties DEF ProbeOf
  <2>2. CASE check # "wildcard"
    <3>1. probes = <<>>
      BY <1>1, <2>2 DEF WildcardParts
    <3> QED
      BY <3>1, NothingIn
  <2> QED
    BY <2>1, <2>2
<1>7. \A i \in DOMAIN statuses : statuses[i] \in Proofs \cup {"unasked", "resolved", "nxdomain", "no address"}
  <2>1. CASE check = "wildcard"
    <3>1. statuses = <<>>
      BY <1>1, <2>1 DEF WildcardParts
    <3> QED
      BY <3>1, NothingIn
  <2>2. CASE check = "dnssec"
    <3>1. statuses \in Seq(Proofs)
      BY <1>1, <2>2 DEF DnssecParts
    <3>2. \A i \in DOMAIN statuses : statuses[i] \in Proofs
      BY <3>1, MemberOfRow
    <3> QED
      BY <3>2
  <2>3. CASE check = "dangling"
    <3>1. statuses \in [1 .. Len(names) -> {"resolved", "nxdomain", "no address", "indeterminate"}]
      BY <1>1, <2>3 DEF DanglingParts
    <3> QED
      BY <3>1 DEF Proofs
  <2> QED
    BY <1>1, <2>1, <2>2, <2>3 DEF CheckParts
<1> QED
  BY <1>3, <1>4, <1>5, <1>6, <1>7, VerdictTypes DEF CheckTypeOK

LEMMA WildcardEarned == ASSUME CheckSafe PROVE WildcardIsEarned
<1> SUFFICES ASSUME check = "wildcard" PROVE WildcardIsEarned
  BY DEF WildcardIsEarned
<1>1. CheckParts /\ HeardParts /\ VerdictParts /\ WildcardParts
  BY DEF CheckSafe
<1>2. /\ probes \in Seq(Probe) /\ Len(probes) <= Len(names)
      /\ \A i \in 1 .. Len(probes) : ProbeOf(probes[i], heard[i])
      /\ at.state \in {"cancelled", "timed out"} => Len(probes) # 2 \/ ~probes[2].conclusive
  BY <1>1 DEF WildcardParts
<1>3. /\ Len(names) # 0 => Len(names) = 2
      /\ at.state # "running" <=> Done
      /\ at.state \in {"running", "completed", "cancelled", "timed out"}
      /\ Len(names) = 0 => at.state = "completed"
      /\ at.state = "completed" /\ Len(names) # 0 => at.name = Len(names)
  BY <1>1 DEF CheckParts
<1>4. verdict = IF ~Done THEN "none" ELSE IF Len(names) = 0 THEN "not applicable" ELSE finish_wildcard_observation(probes)
  BY <1>1 DEF VerdictParts, Concluded
<1>5. DOMAIN probes = 1 .. Len(probes)
  BY <1>2, LenProperties
<1>6. at.state \in {"cancelled", "timed out"} => verdict = "indeterminate"
  <2> SUFFICES ASSUME at.state \in {"cancelled", "timed out"} PROVE verdict = "indeterminate"
    OBVIOUS
  <2>1. verdict = finish_wildcard_observation(probes)
    BY <1>3, <1>4
  <2>2. Len(probes) # 2 \/ ~probes[2].conclusive
    BY <1>2
  <2>3. CASE Len(probes) # 2
    BY <2>1, <2>3 DEF finish_wildcard_observation
  <2>4. CASE Len(probes) = 2 /\ ~probes[2].conclusive
    <3>1. 2 \in DOMAIN probes
      <4>1. Len(probes) = 2
        BY <2>4
      <4>2. DOMAIN probes = 1 .. 2
        BY <1>5, <4>1
      <4> QED
        BY <4>2, SecondOfTwo
    <3> QED
      BY <2>1, <2>4, <3>1 DEF finish_wildcard_observation
  <2> QED
    BY <2>2, <2>3, <2>4
<1>7. ASSUME verdict \in {"detected", "not detected"}
      PROVE  /\ AllAsked(1) /\ AllAsked(2) /\ verdict = finish_wildcard_observation(probes) /\ Len(probes) = 2
             /\ \A i \in 1 .. 2 : ProbeOf(probes[i], heard[i]) /\ probes[i].conclusive /\ ~probes[i].limited
  <2>1. Done /\ Len(names) # 0 /\ verdict = finish_wildcard_observation(probes)
    BY <1>4, <1>7
  <2>2. at.state = "completed"
    BY <1>3, <1>6, <1>7, <2>1
  <2>3. at.name = 2
    BY <1>3, <2>1, <2>2
  <2>4. AllAsked(2) /\ AllAsked(1)
    <3>1. 1 \in 1 .. 2 - 1
      OBVIOUS
    <3> QED
      BY <1>1, <2>1, <2>2, <2>3, <3>1 DEF HeardParts
  <2>5. Len(probes) = 2 /\ \A i \in DOMAIN probes : probes[i].conclusive /\ ~probes[i].limited
    BY <1>7, <2>1 DEF finish_wildcard_observation
  <2> QED
    BY <1>2, <1>5, <2>1, <2>4, <2>5
<1>8. Values(1) = Said(heard[1]) /\ Values(2) = Said(heard[2])
  BY DEF Values, Said, SaidBy
<1>9. verdict = "detected" => /\ Values(1) = Values(2) /\ Values(1) # {} /\ AllAsked(1) /\ AllAsked(2)
                              /\ \A i \in 1 .. 2 : \A a \in ToSet(heard[i]) : Positive(a) \/ wildcard_negative_response(a)
  <2> SUFFICES ASSUME verdict = "detected"
               PROVE  /\ Values(1) = Values(2) /\ Values(1) # {} /\ AllAsked(1) /\ AllAsked(2)
                      /\ \A i \in 1 .. 2 : \A a \in ToSet(heard[i]) : Positive(a) \/ wildcard_negative_response(a)
    OBVIOUS
  <2>1. probes[1].fingerprints # {} /\ probes[1].fingerprints = probes[2].fingerprints
    BY <1>7 DEF finish_wildcard_observation
  <2>2. \A i \in 1 .. 2 : probes[i].fingerprints = Said(heard[i])
    BY <1>7 DEF ProbeOf
  <2>3. \A i \in 1 .. 2 : \A a \in ToSet(heard[i]) : Positive(a) \/ wildcard_negative_response(a)
    BY <1>7 DEF ProbeOf
  <2> QED
    BY <1>7, <1>8, <2>1, <2>2, <2>3
<1>10. verdict = "not detected" => /\ AllAsked(1) /\ AllAsked(2)
                                   /\ \A i \in 1 .. 2 : \A a \in ToSet(heard[i]) : negative_code(a) \in {"NXDomain", "NoError"}
  <2> SUFFICES ASSUME verdict = "not detected"
               PROVE  /\ AllAsked(1) /\ AllAsked(2)
                      /\ \A i \in 1 .. 2 : \A a \in ToSet(heard[i]) : negative_code(a) \in {"NXDomain", "NoError"}
    OBVIOUS
  <2>1. \A i \in 1 .. 2 : probes[i].all_negative
    BY <1>7 DEF finish_wildcard_observation
  <2>2. \A i \in 1 .. 2 : \A a \in ToSet(heard[i]) : wildcard_negative_response(a)
    BY <1>7, <2>1 DEF ProbeOf
  <2> QED
    BY <1>7, <2>2 DEF wildcard_negative_response
<1> QED
  BY <1>6, <1>9, <1>10 DEF WildcardIsEarned

LEMMA DanglingConclusive == ASSUME CheckSafe PROVE DanglingIsConclusive
<1> SUFFICES ASSUME check = "dangling", NEW i \in DOMAIN names
             PROVE  LET first == FirstOf(names, i)
                        said == [t \in DOMAIN heard[first] |-> dangling_outcome(heard[first][t], QueryTypes[t])]
                    IN  /\ statuses[i] = "nxdomain" => AllAsked(first) /\ \A t \in DOMAIN said : said[t] = "nxdomain"
                        /\ statuses[i] = "resolved" => \E t \in DOMAIN said : said[t] = "resolved"
                        /\ ~AllAsked(first) => statuses[i] = "indeterminate"
                        /\ at.state = "completed" => statuses[i] = statuses[first]
  BY DEF DanglingIsConclusive, FirstOf
<1> DEFINE first == FirstOf(names, i)
<1>1. i \in 1 .. Len(names)
  BY DEF CheckSafe, CheckParts
<1>2. /\ statuses[i] # "indeterminate" => AllAsked(first) /\ statuses[i] = Classified(heard[first], QueryTypes)
      /\ at.state = "completed" => statuses[i] = statuses[first]
  BY <1>1 DEF CheckSafe, DanglingParts
<1> HIDE DEF first
<1>3. /\ Classified(heard[first], QueryTypes) = "nxdomain" =>
            \A t \in DOMAIN heard[first] : dangling_outcome(heard[first][t], QueryTypes[t]) = "nxdomain"
      /\ Classified(heard[first], QueryTypes) = "resolved" =>
            \E t \in DOMAIN heard[first] : dangling_outcome(heard[first][t], QueryTypes[t]) = "resolved"
  BY ClassifiedFacts
<1> DEFINE said == [t \in DOMAIN heard[first] |-> dangling_outcome(heard[first][t], QueryTypes[t])]
<1>4. statuses[i] = "nxdomain" => AllAsked(first) /\ \A t \in DOMAIN said : said[t] = "nxdomain"
  BY <1>2, <1>3
<1>5. statuses[i] = "resolved" => \E t \in DOMAIN said : said[t] = "resolved"
  BY <1>2, <1>3
<1> QED
  BY <1>2, <1>4, <1>5 DEF first

LEMMA SecureProved == ASSUME CheckSafe PROVE SecureIsProved
<1> SUFFICES ASSUME check = "dnssec", verdict \in {"secure", "insecure"}
             PROVE  /\ AllAsked(1)
                    /\ \A a \in ToSet(heard[1]) :
                          ProofsIn(a) # {} /\ ProofsIn(a) \subseteq (IF verdict = "secure" THEN {"secure"} ELSE {"secure", "insecure"})
  BY DEF SecureIsProved, ProofsIn
<1>1. CheckParts /\ HeardParts /\ VerdictParts /\ DnssecParts
  BY DEF CheckSafe
<1>2. Done /\ Len(names) # 0 /\ verdict = aggregate_dnssec_status(ToSet(statuses))
  BY <1>1 DEF VerdictParts, Concluded
<1>3. Len(names) = 1 /\ at.state = "completed" /\ at.name = 1
  BY <1>1, <1>2 DEF CheckParts
<1>4. AllAsked(1)
  BY <1>1, <1>2, <1>3 DEF HeardParts
<1>5. /\ statuses \in Seq(Proofs) /\ Len(statuses) = Len(heard[1])
      /\ \A t \in 1 .. Len(statuses) : statuses[t] = dnssec_status(heard[1][t])
  BY <1>1, <1>2 DEF DnssecParts
<1>6. heard[1] \in Seq(Answers)
  BY <1>1, <1>3 DEF HeardParts
<1>7. ToSet(statuses) \in SUBSET Proofs
  BY <1>5, LenProperties DEF ToSet
<1>8. ASSUME NEW a \in ToSet(heard[1]) PROVE a \in Answers /\ dnssec_status(a) \in ToSet(statuses)
  <2>1. PICK t \in 1 .. Len(heard[1]) : a = heard[1][t]
    BY <1>6, LenProperties DEF ToSet
  <2>2. t \in DOMAIN statuses /\ statuses[t] = dnssec_status(a)
    BY <1>5, <2>1, LenProperties
  <2>3. a \in Answers
    BY <1>6, <2>1
  <2> QED
    BY <2>2, <2>3 DEF ToSet
<1>9. CASE verdict = "secure"
  <2>1. ToSet(statuses) \subseteq {"secure"}
    BY <1>2, <1>7, <1>9, Aggregated
  <2> QED
    BY <1>4, <1>8, <1>9, <2>1, StatusOfAnswer
<1>10. CASE verdict = "insecure"
  <2>1. ToSet(statuses) \subseteq {"secure", "insecure"}
    BY <1>2, <1>7, <1>10, Aggregated
  <2>2. ASSUME NEW a \in ToSet(heard[1]) PROVE ProofsIn(a) # {} /\ ProofsIn(a) \subseteq {"secure", "insecure"}
    <3>1. a \in Answers /\ dnssec_status(a) \in {"secure", "insecure"}
      BY <1>8, <2>1
    <3> QED
      BY <3>1, StatusOfAnswer
  <2> QED
    BY <1>4, <1>10, <2>2
<1> QED
  BY <1>9, <1>10

-----------------------------------------------------------------------------
\* The three parts together: one of them runs and the other two stand still,
\* so the invariant of the module is the conjunction of theirs.

DnsSafe == part \in {"transfer", "names", "baseline"} /\ TransferSafe /\ CheckSafe /\ BaselineSafe

LEMMA DnsInitIsSafe == ASSUME DnsInit PROVE DnsSafe
<1>1. part \in {"transfer", "names", "baseline"} /\ TransferInit /\ CheckInit /\ BaselineInit
  BY DEF DnsInit
<1>2. TransferSafe
  BY <1>1, TransferInitIsSafe
<1>3. CheckSafe
  BY <1>1, CheckInitIsSafe
<1>4. BaselineSafe
  BY <1>1, BaselineInitIsSafe
<1> QED
  BY <1>1, <1>2, <1>3, <1>4 DEF DnsSafe

LEMMA DnsStepIsSafe == ASSUME DnsSafe, [DnsNext]_dnsVars PROVE DnsSafe'
<1>1. part \in {"transfer", "names", "baseline"} /\ TransferSafe /\ CheckSafe /\ BaselineSafe
  BY DEF DnsSafe
<1>2. CASE TransferOnly(TransferNext)
  <2>1. TransferNext /\ UNCHANGED part /\ UNCHANGED checkVars /\ UNCHANGED baselineVars
    BY <1>2 DEF TransferOnly
  <2>2. TransferSafe'
    BY <1>1, <2>1, TransferStepIsSafe
  <2>3. CheckSafe'
    BY <1>1, <2>1, CheckStaysSafe
  <2>4. BaselineSafe'
    BY <1>1, <2>1, BaselineStaysSafe
  <2> QED
    BY <1>1, <2>1, <2>2, <2>3, <2>4 DEF DnsSafe
<1>3. CASE NamesOnly(CheckNext)
  <2>1. CheckNext /\ UNCHANGED part /\ UNCHANGED transferVars /\ UNCHANGED baselineVars
    BY <1>3 DEF NamesOnly
  <2>2. TransferSafe'
    BY <1>1, <2>1, TransferStaysSafe
  <2>3. CheckSafe'
    BY <1>1, <2>1, CheckStepIsSafe
  <2>4. BaselineSafe'
    BY <1>1, <2>1, BaselineStaysSafe
  <2> QED
    BY <1>1, <2>1, <2>2, <2>3, <2>4 DEF DnsSafe
<1>4. CASE BaselineOnly(BaselineNext)
  <2>1. BaselineNext /\ UNCHANGED part /\ UNCHANGED transferVars /\ UNCHANGED checkVars
    BY <1>4 DEF BaselineOnly
  <2>2. TransferSafe'
    BY <1>1, <2>1, TransferStaysSafe
  <2>3. CheckSafe'
    BY <1>1, <2>1, CheckStaysSafe
  <2>4. BaselineSafe'
    BY <1>1, <2>1, BaselineStepIsSafe
  <2> QED
    BY <1>1, <2>1, <2>2, <2>3, <2>4 DEF DnsSafe
<1>5. CASE UNCHANGED dnsVars
  <2>1. UNCHANGED part /\ UNCHANGED transferVars /\ UNCHANGED checkVars /\ UNCHANGED baselineVars
    BY <1>5 DEF dnsVars
  <2>2. TransferSafe'
    BY <1>1, <2>1, TransferStaysSafe
  <2>3. CheckSafe'
    BY <1>1, <2>1, CheckStaysSafe
  <2>4. BaselineSafe'
    BY <1>1, <2>1, BaselineStaysSafe
  <2> QED
    BY <1>1, <2>1, <2>2, <2>3, <2>4 DEF DnsSafe
<1> QED
  BY <1>2, <1>3, <1>4, <1>5 DEF DnsNext

\* In every run of the DNS analysis the three parts are safe.
THEOREM DnsSafety == DnsSpec => []DnsSafe
<1>1. DnsInit => DnsSafe
  BY DnsInitIsSafe
<1>2. DnsSafe /\ [DnsNext]_dnsVars => DnsSafe'
  BY DnsStepIsSafe
<1> QED
  BY <1>1, <1>2, PTL DEF DnsSpec

\* However the servers and the resolvers answer, nothing the analysis reads,
\* keeps or counts passes its limit; the octets, messages and records counted of
\* a transfer are those of the frames that came over the wire; and each attempt
\* is at an endpoint that the name servers' addresses gave.
THEOREM BoundedTheorem == DnsSpec => []DnsIsBounded
<1>1. DnsSafe => DnsIsBounded
  <2> SUFFICES ASSUME DnsSafe PROVE DnsIsBounded
    OBVIOUS
  <2>1. part \in {"transfer", "names", "baseline"} /\ TransferSafe /\ CheckSafe /\ BaselineSafe
    BY DEF DnsSafe
  <2>2. TransferTypeOK /\ CountsAreOfFrames /\ AttemptsAreEndpoints
    BY <2>1, TransferTypes
  <2>3. CheckTypeOK
    BY <2>1, CheckTypes
  <2>4. BaselineTypeOK
    BY <2>1, BaselineTypes
  <2> QED
    BY <2>1, <2>2, <2>3, <2>4 DEF DnsIsBounded, DnsTypeOK
<1> QED
  BY <1>1, DnsSafety, PTL

\* A transfer is called allowed only when a whole zone came (check_axfr_endpoint); a
\* wildcard detected or excluded only when both unused names were asked everything
\* (finish_wildcard_observation); a destination NXDOMAIN only when every lookup of its
\* name said so (classify_dangling_outcomes); and an answer secure, or insecure, only
\* as the proofs of all its records are (analyze_dnssec).
THEOREM EarnedTheorem == DnsSpec => []VerdictsAreEarned
<1>1. DnsSafe => VerdictsAreEarned
  <2> SUFFICES ASSUME DnsSafe PROVE VerdictsAreEarned
    OBVIOUS
  <2>1. TransferSafe /\ CheckSafe
    BY DEF DnsSafe
  <2>2. AllowedIsWhole
    BY <2>1, TransferTypes
  <2>3. WildcardIsEarned /\ DanglingIsConclusive /\ SecureIsProved
    BY <2>1, WildcardEarned, DanglingConclusive, SecureProved
  <2> QED
    BY <2>2, <2>3 DEF VerdictsAreEarned
<1> QED
  BY <1>1, DnsSafety, PTL

\* The baseline's chain is a path of answered aliases that follows no name twice and
\* ends for a reason (ordered_cname_chain), and no record that was answered is missing
\* without a word (analyze_dns_baseline_for_scan).
THEOREM BaselineTheorem == DnsSpec => []BaselineIsTold
<1>1. DnsSafe => BaselineIsTold
  BY DEF DnsSafe, BaselineSafe, BaselineIsTold
<1> QED
  BY <1>1, DnsSafety, PTL
=============================================================================
