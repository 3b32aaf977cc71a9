---------------------------- MODULE SourceProofs ----------------------------
(***************************************************************************)
(* What a passive check keeps, whatever services answer, fail or withhold  *)
(* and whenever it is stopped, for every value of the limits.              *)
(***************************************************************************)
EXTENDS Sources, TLAPS, SequenceTheorems, FiniteSetTheorems, WellFoundedInduction

-----------------------------------------------------------------------------
(* The least, the greatest, and the first few.                             *)

\* A set of naturals with a member has a least one.
LEMMA LeastNatural ==
    ASSUME NEW S, S \subseteq Nat, S # {}
    PROVE  Min(S) \in S /\ \A m \in S : Min(S) <= m
<1>1. IsWellFoundedOn(OpToRel(<, Nat), Nat)
  BY NatLessThanWellFounded
<1>2. PICK x \in S : \A y \in S : ~ (<<y, x>> \in OpToRel(<, Nat))
  BY <1>1, WFMin
<1>3. ASSUME NEW y \in S PROVE x <= y
  <2>1. ~(y < x)
    BY <1>2 DEF OpToRel
  <2> QED
    BY <2>1
<1> QED
  BY <1>3 DEF Min

LEMMA GreatestNatural ==
    ASSUME NEW S, S \subseteq Nat, S # {}, NEW bound \in Nat, \A m \in S : m <= bound
    PROVE  Max(S) \in S /\ \A m \in S : m <= Max(S)
<1> DEFINE rest == {k \in Nat : bound - k \in S}
           least == Min(rest)
<1>1. rest # {} /\ rest \subseteq Nat
  <2>1. PICK m \in S : TRUE
    OBVIOUS
  <2>2. bound - m \in Nat /\ bound - (bound - m) = m
    OBVIOUS
  <2>3. bound - m \in rest
    BY <2>2
  <2> QED
    BY <2>3
<1>2. least \in rest /\ \A k \in rest : least <= k
  <2> HIDE DEF rest
  <2> QED
    BY <1>1, LeastNatural
<1>3. bound - least \in S /\ least \in Nat
  BY <1>2
<1>4. ASSUME NEW m \in S PROVE m <= bound - least
  <2>1. bound - m \in Nat /\ bound - (bound - m) = m
    OBVIOUS
  <2>2. least <= bound - m
    BY <1>2, <2>1
  <2> HIDE DEF least
  <2> QED
    BY <1>3, <2>2
<1> HIDE DEF least
<1> QED
  BY <1>3, <1>4 DEF Max

LEMMA LesserOfTwo ==
    ASSUME NEW a \in Nat, NEW b \in Nat
    PROVE  Min({a, b}) = IF a <= b THEN a ELSE b
<1>1. Min({a, b}) \in {a, b} /\ \A m \in {a, b} : Min({a, b}) <= m
  BY LeastNatural
<1> HIDE DEF Min
<1> QED
  BY <1>1

LEMMA GreaterOfTwo ==
    ASSUME NEW a \in Nat, NEW b \in Nat
    PROVE  Max({a, b}) = IF a <= b THEN b ELSE a
<1>1. \A m \in {a, b} : m <= a + b
  OBVIOUS
<1>2. Max({a, b}) \in {a, b} /\ \A m \in {a, b} : m <= Max({a, b})
  BY <1>1, GreatestNatural
<1> HIDE DEF Max
<1> QED
  BY <1>2

\* The place of an element in an order: ahead[x] is what comes before it.
Ordered(S, ahead) ==
    /\ \A x, y \in S : x # y => x \in ahead[y] \/ y \in ahead[x]
    /\ \A x \in S : ahead[x] \subseteq S /\ x \notin ahead[x]
    /\ \A x, y, z \in S : x \in ahead[y] /\ y \in ahead[z] => x \in ahead[z]

LEMMA RanksDiffer ==
    ASSUME NEW S, IsFiniteSet(S), NEW ahead, Ordered(S, ahead), NEW x \in S
    PROVE  /\ Cardinality(ahead[x]) \in Nat /\ Cardinality(ahead[x]) < Cardinality(S)
           /\ IsFiniteSet(ahead[x]) /\ Cardinality(S) \in Nat
           /\ \A y \in S : x \in ahead[y] => Cardinality(ahead[x]) < Cardinality(ahead[y])
<1>1. \A T \in SUBSET S : /\ IsFiniteSet(T) /\ Cardinality(T) \in Nat /\ Cardinality(T) <= Cardinality(S)
  BY FS_Subset, FS_CardinalityType
<1>2. ahead[x] \in SUBSET S /\ x \notin ahead[x] /\ Cardinality(S) \in Nat
  BY FS_CardinalityType DEF Ordered
<1>3. ASSUME NEW T \in SUBSET S, ahead[x] \subseteq T, x \in T
      PROVE  Cardinality(ahead[x]) < Cardinality(T)
  <2>1. IsFiniteSet(T) /\ ahead[x] \in SUBSET T /\ ahead[x] # T
    BY <1>1, <1>2, <1>3
  <2>2. /\ Cardinality(ahead[x]) <= Cardinality(T)
        /\ Cardinality(ahead[x]) # Cardinality(T)
    BY <2>1, FS_Subset
  <2> QED
    BY <1>1, <1>2, <2>2
<1>4. Cardinality(ahead[x]) < Cardinality(S)
  BY <1>2, <1>3
<1>5. ASSUME NEW y \in S, x \in ahead[y] PROVE Cardinality(ahead[x]) < Cardinality(ahead[y])
  <2>1. ahead[y] \in SUBSET S /\ ahead[x] \subseteq ahead[y]
    BY <1>5 DEF Ordered
  <2> QED
    BY <1>3, <1>5, <2>1
<1> QED
  BY <1>1, <1>2, <1>4, <1>5

\* The first n of an order are n at most.
LEMMA FirstsAreFew ==
    ASSUME NEW S, IsFiniteSet(S), NEW ahead, Ordered(S, ahead), NEW n \in Nat
    PROVE  /\ IsFiniteSet({x \in S : Cardinality(ahead[x]) < n})
           /\ Cardinality({x \in S : Cardinality(ahead[x]) < n}) <= n
<1> DEFINE T == {x \in S : Cardinality(ahead[x]) < n}
           f == [x \in T |-> Cardinality(ahead[x]) + 1]
<1>1. f \in [T -> 1 .. n]
  BY RanksDiffer
<1>2. \A x, y \in T : f[x] = f[y] => x = y
  <2> SUFFICES ASSUME NEW x \in T, NEW y \in T, f[x] = f[y], x # y PROVE FALSE
    OBVIOUS
  <2>1. x \in ahead[y] \/ y \in ahead[x]
    BY DEF Ordered
  <2>2. Cardinality(ahead[x]) = Cardinality(ahead[y]) /\ Cardinality(ahead[x]) \in Nat
    BY RanksDiffer
  <2>3. x \in ahead[y] => Cardinality(ahead[x]) < Cardinality(ahead[y])
    BY RanksDiffer
  <2>4. y \in ahead[x] => Cardinality(ahead[y]) < Cardinality(ahead[x])
    BY RanksDiffer
  <2> QED
    BY <2>1, <2>2, <2>3, <2>4
<1>3. f \in Injection(T, 1 .. n)
  BY <1>1, <1>2 DEF Injection, IsInjective
<1>4. IsFiniteSet(1 .. n) /\ Cardinality(1 .. n) = n
  BY FS_Interval
<1> HIDE DEF f, T
<1>5. IsFiniteSet(T) /\ Cardinality(T) <= Cardinality(1 .. n)
  BY <1>3, <1>4, FS_Injection
<1> QED
  BY <1>4, <1>5 DEF T

\* Every place up to the number of elements is somebody's.
LEMMA EveryRankIsTaken ==
    ASSUME NEW S, IsFiniteSet(S), NEW ahead, Ordered(S, ahead), NEW i \in 1 .. Cardinality(S)
    PROVE  \E x \in S : Cardinality(ahead[x]) = i - 1
<1> DEFINE f == [x \in S |-> Cardinality(ahead[x]) + 1]
           n == Cardinality(S)
<1>1. n \in Nat
  BY FS_CardinalityType
<1>2. f \in [S -> 1 .. n]
  <2> SUFFICES ASSUME NEW x \in S PROVE Cardinality(ahead[x]) + 1 \in 1 .. n
    OBVIOUS
  <2>1. Cardinality(ahead[x]) \in Nat /\ Cardinality(ahead[x]) < n
    BY RanksDiffer
  <2> HIDE DEF n
  <2> QED
    BY <1>1, <2>1
<1>3. \A x, y \in S : f[x] = f[y] => x = y
  <2> SUFFICES ASSUME NEW x \in S, NEW y \in S, f[x] = f[y], x # y PROVE FALSE
    OBVIOUS
  <2>1. x \in ahead[y] \/ y \in ahead[x]
    BY DEF Ordered
  <2>2. Cardinality(ahead[x]) = Cardinality(ahead[y]) /\ Cardinality(ahead[x]) \in Nat
    BY RanksDiffer
  <2>3. x \in ahead[y] => Cardinality(ahead[x]) < Cardinality(ahead[y])
    BY RanksDiffer
  <2>4. y \in ahead[x] => Cardinality(ahead[y]) < Cardinality(ahead[x])
    BY RanksDiffer
  <2> QED
    BY <2>1, <2>2, <2>3, <2>4
<1>4. f \in Injection(S, 1 .. n)
  BY <1>2, <1>3 DEF Injection, IsInjective
<1>5. IsFiniteSet(1 .. n) /\ Cardinality(1 .. n) = n
  <2> HIDE DEF n
  <2> QED
    BY <1>1, FS_Interval
<1> HIDE DEF f
<1>6. f \in Surjection(S, 1 .. n)
  BY <1>4, <1>5, FS_Injection
<1>7. PICK x \in S : f[x] = i
  BY <1>6 DEF Surjection
<1> QED
  BY <1>7, RanksDiffer DEF f

-----------------------------------------------------------------------------
(* Clients                                                                 *)

FetchSafe == FetchTypeOK /\ PinnedIsPublic

\* What any check may do to the clients and the stop: a stop is not taken back.
FetchGoesOn == FetchSafe' /\ (ending.token => ending'.token)

LEMMA ClientIsSafe ==
    ASSUME FetchSafe, UNCHANGED ending, NEW host, NEW outcome, ClientFor(host, outcome)
    PROVE  FetchGoesOn
<1>1. ending' = ending /\ ending \in [token : BOOLEAN, overdue : BOOLEAN]
  BY DEF FetchSafe, FetchTypeOK
<1>2. CASE UNCHANGED pinned
  BY <1>1, <1>2 DEF FetchGoesOn, FetchSafe, FetchTypeOK, PinnedIsPublic
<1>3. ASSUME host \notin DOMAIN pinned, NEW addresses \in Resolutions, outcome = validated_destinations(addresses),
             outcome = "client",
             pinned' = [h \in DOMAIN pinned \cup {host} |-> IF h = host THEN addresses ELSE pinned[h]]
      PROVE  FetchGoesOn
  <2>1. addresses # {} /\ \A a \in addresses : is_public_destination(a)
    BY <1>3 DEF validated_destinations
  <2>2. \A h \in DOMAIN pinned' : pinned'[h] # {} /\ \A a \in pinned'[h] : is_public_destination(a)
    BY <1>3, <2>1 DEF FetchSafe, FetchTypeOK, PinnedIsPublic
  <2> QED
    BY <1>1, <2>2 DEF FetchGoesOn, FetchSafe, FetchTypeOK, PinnedIsPublic
<1> QED
  BY <1>2, <1>3 DEF ClientFor

LEMMA StopIsSafe == ASSUME FetchSafe, EndSource PROVE FetchGoesOn
<1>1. pinned' = pinned
  BY DEF EndSource
<1>2. PICK cause \in {"token", "overdue"} : ending' = [ending EXCEPT ![cause] = TRUE]
  BY DEF EndSource
<1>3. ending' \in [token : BOOLEAN, overdue : BOOLEAN] /\ (ending.token => ending'.token)
  BY <1>2 DEF FetchSafe, FetchTypeOK
<1> QED
  BY <1>1, <1>3 DEF FetchGoesOn, FetchSafe, FetchTypeOK, PinnedIsPublic

LEMMA UnchangedIsSafe == ASSUME FetchSafe, UNCHANGED fetchVars PROVE FetchGoesOn
BY DEF fetchVars, FetchGoesOn, FetchSafe, FetchTypeOK, PinnedIsPublic

\* A client's stop, and a request's, are the scan's.
LEMMA StopsAreTold ==
    ASSUME FetchSafe
    PROVE  /\ \A host, outcome : ClientFor(host, outcome) /\ outcome = "Cancelled" => ending.token
           /\ "Cancelled" \in Failures => ending.token
           /\ Failures # {}
<1>1. ASSUME NEW host, NEW outcome, ClientFor(host, outcome), outcome = "Cancelled" PROVE ending.token
  BY <1>1 DEF ClientFor, StopOf, validated_destinations
<1>2. "Cancelled" \in Failures => ending.token
  BY DEF Failures, StopOf
<1>3. Failures # {}
  BY DEF Failures
<1> QED
  BY <1>1, <1>2, <1>3

-----------------------------------------------------------------------------
(* Registries and routes                                                   *)

Entries == Seq([prefix : [network : Nat, length : 0 .. Width], endpoint : STRING])
Requests == [address : eligible_primary_addresses, host : IF kind = "bgp" THEN {"collector"} ELSE STRING]
Nothing == [observations |-> {}, complete |-> TRUE, status |-> "none", skip |-> "none"]
Preparing == {"bootstrap 4", "bootstrap 6", "clients"}

LookupParts ==
    /\ kind \in {"rdap", "bgp"} /\ hosts \in HostSets /\ before \in Statuses
    /\ lookupAt \in {"begin", "bootstrap 4", "bootstrap 6", "clients", "lookups", "done"}
    /\ entries \in [BOOLEAN -> Entries]
    /\ asking \subseteq eligible_primary_addresses /\ waiting \cup flying \subseteq Requests
    /\ IsFiniteSet(flying) /\ Cardinality(flying) <= MaxLookupConcurrency
    /\ results = [found |-> results.found, failures |-> results.failures]

Phases ==
    /\ lookupAt \in {"begin", "bootstrap 4", "bootstrap 6"} => waiting = {}
    /\ lookupAt \in Preparing => results.found = <<>> /\ (kind = "bgp" => waiting = {})
    /\ lookupAt # "lookups" => flying = {}
    /\ lookupAt \notin Preparing => asking = {}
    /\ lookupAt = "begin" => results = [found |-> <<>>, failures |-> {}]
    /\ lookupAt # "done" => registered = Nothing

\* The registry of the longest prefix that holds the address of a request.
Asks(request) ==
    \E i \in DOMAIN entries[request.address.v6] :
        LET entry == entries[request.address.v6][i]
        IN  /\ entry.endpoint = request.host /\ contains(entry.prefix, request.address.n)
            /\ \A j \in DOMAIN entries[request.address.v6] :
                  LET other == entries[request.address.v6][j].prefix
                  IN  contains(other, request.address.n) => other.length <= entry.prefix.length
Responsible == kind = "rdap" => \A request \in waiting \cup flying : Asks(request)

\* While nothing failed, every address is yet to be asked about, or was answered.
Accounted ==
    lookupAt \in Preparing \cup {"lookups"} /\ results.failures = {} =>
        \A a \in Eligible : \/ a \in asking \/ a \in DOMAIN results.found
                            \/ \E request \in waiting \cup flying : request.address = a

Registered ==
    lookupAt = "done" => /\ registered.status \in Statuses
                         /\ registered.skip \in {"none", "no address", "stopped", "incomplete"}

LookupSafe == /\ LookupParts /\ Phases /\ Responsible /\ Accounted /\ Registered
              /\ EvidenceIsOfAddress /\ SilentIsWhole /\ StatusOnlyWorsens

LEMMA LookupConstants ==
    /\ MaxLookupAddresses \in Nat \ {0} /\ MaxLookupConcurrency \in Nat \ {0}
    /\ MaxBgpOriginAsns \in Nat /\ MaxLookupBytes \in Nat
BY LookupAssumption

LEMMA HostFacts ==
    ASSUME LookupParts
    PROVE  /\ IsFiniteSet(hosts) /\ Eligible \subseteq hosts /\ eligible_primary_addresses \subseteq Eligible
           /\ \A a \in hosts : a.v6 \in BOOLEAN /\ a.n \in Nat
           /\ \A a, b \in hosts : a.v6 = b.v6 /\ a.n = b.n => a = b
           /\ \A S \in SUBSET hosts : IsFiniteSet(S) /\ Cardinality(S) \in Nat
<1> DEFINE Addresses == [v6 : BOOLEAN, n : 0 .. 2 ^ Width - 1]
<1>1. hosts \subseteq Addresses /\ IsFiniteSet(hosts)
  BY LookupAssumption DEF LookupParts
<1>2. \A a, b \in Addresses : a.v6 = b.v6 /\ a.n = b.n => a = b
  OBVIOUS
<1>3. \A a \in Addresses : a.v6 \in BOOLEAN /\ a.n \in Nat
  OBVIOUS
<1>4. Eligible \subseteq hosts /\ eligible_primary_addresses \subseteq Eligible
  BY DEF Eligible, eligible_primary_addresses
<1>5. \A S \in SUBSET hosts : IsFiniteSet(S) /\ Cardinality(S) \in Nat
  BY <1>1, FS_Subset, FS_CardinalityType
<1> HIDE DEF Addresses
<1> QED
  BY <1>1, <1>2, <1>3, <1>4, <1>5

LEMMA AddressesAreOrdered ==
    ASSUME LookupParts, NEW S, S \subseteq hosts
    PROVE  Ordered(S, [a \in S |-> {b \in S : Earlier(b, a)}])
<1> DEFINE ahead == [a \in S |-> {b \in S : Earlier(b, a)}]
<1>1. \A a \in S : a.v6 \in BOOLEAN /\ a.n \in Nat
  BY HostFacts
<1>2. \A x, y \in S : x # y => Earlier(x, y) \/ Earlier(y, x)
  BY <1>1, HostFacts DEF Earlier
<1>3. \A x \in S : ~Earlier(x, x)
  BY <1>1 DEF Earlier
<1>4. \A x, y, z \in S : Earlier(x, y) /\ Earlier(y, z) => Earlier(x, z)
  BY <1>1 DEF Earlier
<1>5. \A x, y \in S : x \in ahead[y] <=> Earlier(x, y)
  OBVIOUS
<1> QED
  BY <1>2, <1>3, <1>4, <1>5 DEF Ordered

\* Within the limit no address is left out.
LEMMA NoneIsLeftOut ==
    ASSUME LookupParts, ~Truncated
    PROVE  eligible_primary_addresses = Eligible
<1> DEFINE ahead == [a \in Eligible |-> {b \in Eligible : Earlier(b, a)}]
<1>1. Eligible \subseteq hosts /\ IsFiniteSet(Eligible) /\ Cardinality(Eligible) \in Nat
  BY HostFacts
<1>2. Ordered(Eligible, ahead)
  BY <1>1, AddressesAreOrdered
<1>3. ASSUME NEW a \in Eligible PROVE a \in eligible_primary_addresses
  <2>1. ahead[a] = {b \in Eligible : Earlier(b, a)}
    OBVIOUS
  <2> HIDE DEF ahead
  <2>2. Cardinality(ahead[a]) < Cardinality(Eligible) /\ Cardinality(ahead[a]) \in Nat
    BY <1>1, <1>2, RanksDiffer
  <2>3. Cardinality(Eligible) <= MaxLookupAddresses
    BY <1>1, LookupConstants DEF Truncated
  <2>4. Cardinality({b \in Eligible : Earlier(b, a)}) < MaxLookupAddresses
    BY <1>1, <2>1, <2>2, <2>3, LookupConstants
  <2> QED
    BY <2>4 DEF eligible_primary_addresses
<1> QED
  BY <1>3 DEF eligible_primary_addresses

LEMMA FirstIsAsked == ASSUME LookupParts, asking # {} PROVE First \in asking
<1> DEFINE ahead == [a \in asking |-> {b \in asking : Earlier(b, a)}]
<1>1. asking \subseteq hosts
  BY HostFacts DEF LookupParts
<1>2. IsFiniteSet(asking) /\ Cardinality(asking) \in Nat /\ Cardinality(asking) # 0
  BY <1>1, HostFacts, FS_EmptySet
<1>3. Ordered(asking, ahead)
  BY <1>1, AddressesAreOrdered
<1>4. 1 \in 1 .. Cardinality(asking)
  BY <1>2
<1>5. \A x \in asking : ahead[x] = {b \in asking : Earlier(b, x)}
  OBVIOUS
<1>6. \E x \in asking : Cardinality(ahead[x]) = 1 - 1
  <2> HIDE DEF ahead
  <2> QED
    BY <1>2, <1>3, <1>4, EveryRankIsTaken
<1>7. PICK x \in asking : Cardinality(ahead[x]) = 0
  BY <1>6
<1>8. ahead[x] = {}
  <2>1. ahead[x] \in SUBSET hosts
    BY <1>1
  <2>2. IsFiniteSet(ahead[x])
    BY <2>1, HostFacts
  <2> HIDE DEF ahead
  <2> QED
    BY <1>7, <2>2, FS_EmptySet
<1>9. \A b \in asking : x = b \/ Earlier(x, b)
  <2>1. \A b \in asking : b \notin ahead[x]
    BY <1>8
  <2> HIDE DEF ahead
  <2>2. \A b \in asking : x # b => x \in ahead[b]
    BY <1>3, <2>1 DEF Ordered
  <2>3. \A b \in asking : x \in ahead[b] => Earlier(x, b)
    BY <1>5
  <2> QED
    BY <2>2, <2>3
<1> QED
  BY <1>9 DEF First

\* The endpoint asked is of the longest prefix that holds the address.
LEMMA LongestIsResponsible ==
    ASSUME NEW address, NEW found \in Entries, longest_bootstrap_endpoint(address, found) # "none"
    PROVE  \E i \in DOMAIN found :
              /\ found[i].endpoint = longest_bootstrap_endpoint(address, found)
              /\ contains(found[i].prefix, address.n)
              /\ \A j \in DOMAIN found :
                    contains(found[j].prefix, address.n) => found[j].prefix.length <= found[i].prefix.length
<1> DEFINE matching == {i \in DOMAIN found : contains(found[i].prefix, address.n)}
           longest == {i \in matching : \A j \in matching : found[j].prefix.length <= found[i].prefix.length}
           lengths == {found[i].prefix.length : i \in matching}
<1>1. DOMAIN found = 1 .. Len(found) /\ Len(found) \in Nat
      /\ \A i \in DOMAIN found : found[i].prefix.length \in 0 .. Width
  <2> DEFINE T == [prefix : [network : Nat, length : 0 .. Width], endpoint : STRING]
  <2>1. found \in Seq(T) /\ \A t \in T : t.prefix.length \in 0 .. Width
    BY DEF Entries
  <2> HIDE DEF T
  <2> QED
    BY <2>1
<1>2. longest_bootstrap_endpoint(address, found) = IF matching = {} THEN "none" ELSE found[Max(longest)].endpoint
  BY DEF longest_bootstrap_endpoint
<1>3. matching # {} /\ matching \subseteq DOMAIN found
  BY <1>2
<1>4. lengths \subseteq Nat /\ lengths # {} /\ \A m \in lengths : m <= Width
  BY <1>1, <1>3, FetchAssumption
<1>5. Max(lengths) \in lengths /\ \A m \in lengths : m <= Max(lengths)
  <2>1. Width \in Nat
    BY FetchAssumption
  <2> HIDE DEF lengths
  <2> QED
    BY <1>4, <2>1, GreatestNatural
<1>6. longest # {}
  <2> DEFINE most == Max(lengths)
  <2> HIDE DEF most
  <2>1. most \in lengths /\ \A m \in lengths : m <= most
    BY <1>5 DEF most
  <2>2. PICK i \in matching : found[i].prefix.length = most
    BY <2>1
  <2>3. \A j \in matching : found[j].prefix.length <= found[i].prefix.length
    BY <2>1, <2>2
  <2> QED
    BY <2>3
<1>7. longest \subseteq Nat /\ \A i \in longest : i <= Len(found)
  BY <1>1
<1>8. Max(longest) \in longest
  <2> HIDE DEF longest
  <2> QED
    BY <1>1, <1>6, <1>7, GreatestNatural
<1> DEFINE i == Max(longest)
<1>9. i \in matching /\ \A j \in matching : found[j].prefix.length <= found[i].prefix.length
  BY <1>8
<1>10. found[i].endpoint = longest_bootstrap_endpoint(address, found)
  BY <1>2, <1>3
<1> HIDE DEF i
<1> QED
  BY <1>9, <1>10

LEMMA HostsStay ==
    ASSUME UNCHANGED <<kind, hosts>>
    PROVE  /\ Eligible' = Eligible /\ eligible_primary_addresses' = eligible_primary_addresses
           /\ Requests' = Requests /\ Truncated' = Truncated
BY DEF Eligible, eligible_primary_addresses, Requests, Truncated

LEMMA LookupStarts == ASSUME LookupInit PROVE FetchSafe /\ LookupSafe
<1>1. FetchSafe
  BY DEF LookupInit, FetchInit, FetchSafe, FetchTypeOK, PinnedIsPublic
<1>2. IsFiniteSet(flying) /\ Cardinality(flying) <= MaxLookupConcurrency
  BY FS_EmptySet, LookupConstants DEF LookupInit
<1>3. entries \in [BOOLEAN -> Entries]
  BY DEF LookupInit, Entries
<1>4. LookupParts
  BY <1>2, <1>3 DEF LookupInit, LookupParts
<1>5. Phases
  BY DEF LookupInit, Phases, Preparing, Nothing
<1>6. Responsible /\ Accounted /\ Registered /\ EvidenceIsOfAddress /\ SilentIsWhole /\ StatusOnlyWorsens
  BY DEF LookupInit, Responsible, Accounted, Registered, Preparing, EvidenceIsOfAddress, SilentIsWhole,
         StatusOnlyWorsens
<1> QED
  BY <1>1, <1>4, <1>5, <1>6 DEF LookupSafe

\* Nothing is said of the report before the check is done.
LEMMA NothingSaidYet ==
    ASSUME lookupAt' # "done" PROVE Registered' /\ SilentIsWhole' /\ StatusOnlyWorsens'
BY DEF Registered, SilentIsWhole, StatusOnlyWorsens

LEMMA FinishIsSafe ==
    ASSUME LookupSafe, lookupAt # "done", UNCHANGED <<kind, hosts, before, entries, results>>,
           NEW found, NEW failures, NEW stop \in Stops \cup {"none"}, Finish(found, failures, stop),
           stop = "Cancelled" => ending'.token,
           stop = "none" /\ failures = {} => DOMAIN found = Eligible
    PROVE  LookupSafe'
<1> DEFINE status == IF stop = "Cancelled" /\ before # "failed" THEN "interrupted"
                     ELSE IF (stop = "Deadline" \/ (stop = "none" /\ failures # {})) /\ before = "completed"
                     THEN "partial" ELSE before
           skip == IF stop # "none" THEN "stopped" ELSE IF failures # {} THEN "incomplete" ELSE "none"
<1>1. /\ lookupAt' = "done" /\ asking' = {} /\ waiting' = {} /\ flying' = {}
      /\ registered' = [observations |-> DOMAIN found, complete |-> failures = {} /\ stop = "none",
                        status |-> status, skip |-> skip]
  BY DEF Finish
<1>2. Eligible' = Eligible /\ eligible_primary_addresses' = eligible_primary_addresses
  BY HostsStay
<1>3. /\ registered'.observations = DOMAIN found /\ registered'.complete = (failures = {} /\ stop = "none")
      /\ registered'.status = status /\ registered'.skip = skip
  <2> HIDE DEF status, skip
  <2> QED
    BY <1>1
<1>4. before \in Statuses
  BY DEF LookupSafe, LookupParts
<1>5. LookupParts'
  <2>1. IsFiniteSet({}) /\ Cardinality({}) <= MaxLookupConcurrency
    BY FS_EmptySet, LookupConstants
  <2> QED
    BY <1>1, <1>2, <2>1 DEF LookupSafe, LookupParts
<1>6. Phases' /\ Responsible' /\ Accounted'
  BY <1>1 DEF Phases, Responsible, Accounted, Preparing
<1>7. EvidenceIsOfAddress'
  BY <1>2 DEF LookupSafe, EvidenceIsOfAddress
<1>8. Registered'
  BY <1>1, <1>3, <1>4 DEF Registered, Statuses
<1>9. SilentIsWhole'
  <2>1. registered'.skip = "none" => registered'.observations = Eligible /\ registered'.complete
    BY <1>3
  <2>2. before = "completed" /\ registered'.status = "completed" => registered'.observations = Eligible
    BY <1>3 DEF Stops
  <2>3. registered'.complete <=> registered'.skip \in {"none", "no address"}
    BY <1>3
  <2> QED
    BY <1>2, <2>1, <2>2, <2>3 DEF SilentIsWhole
<1>10. StatusOnlyWorsens'
  BY <1>3, <1>4 DEF StatusOnlyWorsens, Statuses
<1> QED
  BY <1>5, <1>6, <1>7, <1>8, <1>9, <1>10 DEF LookupSafe

LEMMA BeginIsSafe == ASSUME LookupSafe, Begin PROVE LookupSafe'
<1>1. lookupAt = "begin" /\ UNCHANGED <<kind, hosts, entries, waiting, flying, before, fetchVars>>
  BY DEF Begin
<1>2. Eligible' = Eligible /\ eligible_primary_addresses' = eligible_primary_addresses
  BY <1>1, HostsStay
<1>3. /\ LookupParts /\ Phases /\ registered = Nothing /\ waiting = {} /\ flying = {}
      /\ results = [found |-> <<>>, failures |-> {}] /\ asking = {}
  BY <1>1 DEF LookupSafe, Phases, Preparing
<1>4. CASE Eligible = {}
  <2>1. lookupAt' = "done" /\ UNCHANGED <<asking, results>>
        /\ registered' = [Nothing EXCEPT !.status = before, !.skip = "no address"]
    BY <1>3, <1>4 DEF Begin
  <2>2. registered' = [observations |-> {}, complete |-> TRUE, status |-> before, skip |-> "no address"]
    BY <2>1 DEF Nothing
  <2>3. LookupParts'
    BY <1>1, <1>2, <1>3, <2>1 DEF LookupParts
  <2>4. Phases' /\ Responsible' /\ Accounted' /\ EvidenceIsOfAddress'
    BY <1>1, <1>3, <2>1 DEF Phases, Preparing, Responsible, Accounted, EvidenceIsOfAddress
  <2>5. before \in Statuses
    BY <1>3 DEF LookupParts
  <2>6. /\ registered'.status = before /\ registered'.skip = "no address" /\ registered'.complete
        /\ before' = before
    BY <1>1, <2>2
  <2>7. Registered' /\ StatusOnlyWorsens'
    BY <2>5, <2>6 DEF Registered, StatusOnlyWorsens, Statuses
  <2>8. SilentIsWhole'
    BY <2>6 DEF SilentIsWhole
  <2> QED
    BY <2>3, <2>4, <2>7, <2>8 DEF LookupSafe
<1>5. CASE Eligible # {}
  <2>1. /\ lookupAt' = (IF kind = "rdap" THEN "bootstrap 4" ELSE "clients") /\ UNCHANGED registered
        /\ results' = (IF Truncated THEN [results EXCEPT !.failures = {"address limit"}] ELSE results)
        /\ asking' = eligible_primary_addresses
    BY <1>5 DEF Begin
  <2>2. /\ results' = [found |-> <<>>, failures |-> IF Truncated THEN {"address limit"} ELSE {}]
        /\ results'.found = <<>> /\ results'.failures = (IF Truncated THEN {"address limit"} ELSE {})
    BY <1>3, <2>1
  <2>3. LookupParts'
    BY <1>1, <1>2, <1>3, <2>1, <2>2 DEF LookupParts
  <2>4. /\ lookupAt' \in {"bootstrap 4", "clients"} /\ waiting' = {} /\ flying' = {} /\ registered' = Nothing
        /\ results'.found = <<>>
    BY <1>1, <1>3, <2>1, <2>2
  <2>6. Phases' /\ lookupAt' # "done"
    BY <2>4 DEF Phases, Preparing
  <2>8. \A request \in waiting' \cup flying' : FALSE
    BY <2>4
  <2>9. DOMAIN results'.found = {}
    <3>1. results'.found = <<>>
      BY <2>4
    <3> QED
      BY <3>1
  <2>7. Responsible' /\ EvidenceIsOfAddress'
    BY <2>8, <2>9 DEF Responsible, EvidenceIsOfAddress
  <2>5. Accounted'
    BY <1>2, <1>3, <2>1, <2>2, NoneIsLeftOut DEF Accounted
  <2> QED
    BY <2>3, <2>5, <2>6, <2>7, NothingSaidYet DEF LookupSafe
<1> QED
  BY <1>4, <1>5

\* What may fail and what may be had, when a client or an answer is awaited.
LEMMA FailureIsSafe ==
    ASSUME LookupSafe, lookupAt # "done", NEW reason, Cannot(reason)
    PROVE  /\ results' = [found |-> results.found, failures |-> results.failures \cup {reason}]
           /\ results'.found = results.found /\ results'.failures # {}
<1>1. results = [found |-> results.found, failures |-> results.failures]
  BY DEF LookupSafe, LookupParts
<1> DEFINE f == results.found
           g == results.failures
<1>2. results = [found |-> f, failures |-> g]
  BY <1>1
<1>3. results' = [results EXCEPT !.failures = g \cup {reason}]
  BY DEF Cannot
<1> HIDE DEF f, g
<1>4. results' = [found |-> f, failures |-> g \cup {reason}]
  BY <1>2, <1>3
<1> QED
  BY <1>4 DEF f, g

LEMMA BootstrapIsSafe == ASSUME FetchSafe, LookupSafe, Bootstrap PROVE FetchGoesOn /\ LookupSafe'
<1>1. /\ lookupAt \in {"bootstrap 4", "bootstrap 6"} /\ UNCHANGED <<kind, hosts, before, ending>>
      /\ LookupParts /\ Phases /\ waiting = {} /\ flying = {} /\ registered = Nothing /\ results.found = <<>>
  BY DEF Bootstrap, LookupSafe, Phases, Preparing
<1>2. Eligible' = Eligible /\ eligible_primary_addresses' = eligible_primary_addresses /\ Requests' = Requests
  BY <1>1, HostsStay
\* The next family, or the clients, whatever this one brought.
<1>3. ASSUME lookupAt' = Next4, UNCHANGED <<asking, waiting, flying, registered>>, entries' \in [BOOLEAN -> Entries],
             \/ UNCHANGED results
             \/ \E reason : Cannot(reason)
      PROVE  LookupSafe'
  <2>1. lookupAt' \in {"bootstrap 6", "clients"}
    BY <1>3 DEF Next4
  <2>2. /\ results' = [found |-> results'.found, failures |-> results'.failures] /\ results'.found = results.found
        /\ results'.failures = {} => results.failures = {}
    <3>1. CASE UNCHANGED results
      BY <1>1, <3>1 DEF LookupParts
    <3>2. ASSUME NEW reason, Cannot(reason) 
          PROVE  /\ results' = [found |-> results.found, failures |-> results.failures \cup {reason}]
                 /\ results'.found = results.found /\ results'.failures # {}
      BY <1>1, <3>2, FailureIsSafe
    <3> QED
      BY <1>3, <3>1, <3>2
  <2>3. LookupParts'
    BY <1>1, <1>2, <1>3, <2>1, <2>2 DEF LookupParts
  <2>4. waiting' = {} /\ flying' = {} /\ registered' = Nothing /\ results'.found = <<>>
    BY <1>1, <1>3, <2>2
  <2>5. Phases' /\ lookupAt' # "done"
    BY <2>1, <2>4 DEF Phases, Preparing
  <2>6. (\A request \in waiting' \cup flying' : FALSE) /\ DOMAIN results'.found = {}
    BY <2>4
  <2>7. Responsible' /\ EvidenceIsOfAddress'
    BY <2>6 DEF Responsible, EvidenceIsOfAddress
  <2>8. Accounted'
    BY <1>1, <1>2, <1>3, <2>1, <2>2 DEF LookupSafe, Accounted, Preparing
  <2> QED
    BY <2>3, <2>5, <2>7, <2>8, NothingSaidYet DEF LookupSafe
<1>4. CASE \A a \in asking : a.v6 # Family
  <2>1. lookupAt' = Next4 /\ UNCHANGED <<entries, asking, waiting, flying, results, registered, pinned>>
    BY <1>4 DEF Bootstrap
  <2>2. LookupSafe'
    BY <1>1, <1>3, <2>1 DEF LookupParts
  <2>3. FetchGoesOn
    BY <1>1, <2>1, UnchangedIsSafe DEF fetchVars
  <2> QED
    BY <2>2, <2>3
<1>5. ASSUME NEW outcome \in ClientOutcomes, ClientFor("bootstrap", outcome),
             IF outcome \in Stops THEN Finish(<<>>, results.failures, outcome) /\ UNCHANGED <<entries, results>>
             ELSE IF outcome # "client"
             THEN /\ lookupAt' = Next4 /\ Cannot("bootstrap " \o outcome) /\ UNCHANGED <<entries, asking, waiting, flying, registered>>
             ELSE \/ \E failure \in Failures :
                        IF failure \in Stops THEN Finish(<<>>, results.failures, failure) /\ UNCHANGED <<entries, results>>
                        ELSE /\ lookupAt' = Next4 /\ Cannot("bootstrap " \o failure)
                             /\ UNCHANGED <<entries, asking, waiting, flying, registered>>
                  \/ \E bootstrap \in Bootstraps :
                        /\ ~ending.token /\ lookupAt' = Next4 /\ UNCHANGED <<asking, waiting, flying, registered>>
                        /\ IF get_bounded(bootstrap, MaxLookupBytes) = "body" /\ ParsesBootstrap(bootstrap)
                           THEN entries' = [entries EXCEPT ![Family] = bootstrap.entries] /\ UNCHANGED results
                           ELSE Cannot("bootstrap invalid") /\ UNCHANGED entries
      PROVE  FetchGoesOn /\ LookupSafe'
  <2>1. FetchGoesOn
    BY <1>1, <1>5, ClientIsSafe
  <2>2. ASSUME NEW stop \in Stops, Finish(<<>>, results.failures, stop), UNCHANGED <<entries, results>>,
               stop = "Cancelled" => ending.token
        PROVE  LookupSafe'
    <3>1. stop # "none" /\ stop \in Stops \cup {"none"} /\ (stop = "Cancelled" => ending'.token) /\ lookupAt # "done"
      BY <1>1, <2>2 DEF Stops
    <3> QED
      BY <1>1, <2>2, <3>1, FinishIsSafe
  <2>3. CASE outcome \in Stops
    <3>1. Finish(<<>>, results.failures, outcome) /\ UNCHANGED <<entries, results>>
      BY <1>5, <2>3
    <3>2. outcome = "Cancelled" => ending.token
      BY <1>5, StopsAreTold
    <3> QED
      BY <2>1, <2>2, <2>3, <3>1, <3>2
  <2>4. ASSUME NEW reason, lookupAt' = Next4, Cannot(reason), UNCHANGED <<entries, asking, waiting, flying, registered>>
        PROVE  LookupSafe'
    <3>1. entries' \in [BOOLEAN -> Entries]
      BY <1>1, <2>4 DEF LookupParts
    <3> QED
      BY <1>3, <2>4, <3>1
  <2>5. CASE outcome \notin Stops /\ outcome # "client"
    <3>1. /\ lookupAt' = Next4 /\ Cannot("bootstrap " \o outcome)
          /\ UNCHANGED <<entries, asking, waiting, flying, registered>>
      BY <1>5, <2>5
    <3> QED
      BY <2>1, <2>4, <3>1
  <2>6. ASSUME NEW failure \in Failures,
               IF failure \in Stops THEN Finish(<<>>, results.failures, failure) /\ UNCHANGED <<entries, results>>
               ELSE /\ lookupAt' = Next4 /\ Cannot("bootstrap " \o failure)
                    /\ UNCHANGED <<entries, asking, waiting, flying, registered>>
        PROVE  LookupSafe'
    BY <2>2, <2>4, <2>6, StopsAreTold
  <2>7. ASSUME NEW bootstrap \in Bootstraps,
               lookupAt' = Next4, UNCHANGED <<asking, waiting, flying, registered>>,
               entries' = [entries EXCEPT ![Family] = bootstrap.entries], UNCHANGED results
        PROVE  LookupSafe'
    <3>1. bootstrap.entries \in Entries
      BY LookupAssumption DEF Entries
    <3>2. Family \in BOOLEAN
      BY DEF Family
    <3>3. entries \in [BOOLEAN -> Entries]
      BY <1>1 DEF LookupParts
    <3> HIDE DEF Family
    <3>4. entries' \in [BOOLEAN -> Entries]
      BY <2>7, <3>1, <3>2, <3>3
    <3> QED
      BY <1>3, <2>7, <3>4
  <2>8. CASE outcome = "client"
    <3>1. outcome \notin Stops
      BY <2>8 DEF Stops
    <3>2. \/ \E failure \in Failures :
                IF failure \in Stops THEN Finish(<<>>, results.failures, failure) /\ UNCHANGED <<entries, results>>
                ELSE /\ lookupAt' = Next4 /\ Cannot("bootstrap " \o failure)
                     /\ UNCHANGED <<entries, asking, waiting, flying, registered>>
          \/ \E bootstrap \in Bootstraps :
                /\ ~ending.token /\ lookupAt' = Next4 /\ UNCHANGED <<asking, waiting, flying, registered>>
                /\ IF get_bounded(bootstrap, MaxLookupBytes) = "body" /\ ParsesBootstrap(bootstrap)
                   THEN entries' = [entries EXCEPT ![Family] = bootstrap.entries] /\ UNCHANGED results
                   ELSE Cannot("bootstrap invalid") /\ UNCHANGED entries
      BY <1>5, <2>8, <3>1
    <3>3. ASSUME NEW bootstrap \in Bootstraps,
                 lookupAt' = Next4, UNCHANGED <<asking, waiting, flying, registered>>,
                 IF get_bounded(bootstrap, MaxLookupBytes) = "body" /\ ParsesBootstrap(bootstrap)
                 THEN entries' = [entries EXCEPT ![Family] = bootstrap.entries] /\ UNCHANGED results
                 ELSE Cannot("bootstrap invalid") /\ UNCHANGED entries
          PROVE  LookupSafe'
      <4>1. CASE get_bounded(bootstrap, MaxLookupBytes) = "body" /\ ParsesBootstrap(bootstrap)
        BY <2>7, <3>3, <4>1
      <4>2. CASE ~(get_bounded(bootstrap, MaxLookupBytes) = "body" /\ ParsesBootstrap(bootstrap))
        <5>1. Cannot("bootstrap invalid") /\ UNCHANGED <<entries, asking, waiting, flying, registered>>
          BY <3>3, <4>2
        <5> QED
          BY <2>4, <3>3, <5>1
      <4> QED
        BY <4>1, <4>2
    <3> QED
      BY <2>1, <2>6, <3>2, <3>3
  <2> QED
    BY <2>1, <2>3, <2>5, <2>8
<1> QED
  BY <1>4, <1>5 DEF Bootstrap

LEMMA RdapClientIsSafe == ASSUME FetchSafe, LookupSafe, RdapClient PROVE FetchGoesOn /\ LookupSafe'
<1>1. /\ lookupAt = "clients" /\ kind = "rdap" /\ UNCHANGED <<kind, hosts, entries, before, ending>>
      /\ LookupParts /\ Phases /\ flying = {} /\ registered = Nothing /\ results.found = <<>>
  BY DEF RdapClient, LookupSafe, Phases, Preparing
<1>2. Eligible' = Eligible /\ eligible_primary_addresses' = eligible_primary_addresses /\ Requests' = Requests
  BY <1>1, HostsStay
<1>3. CASE asking = {}
  <2>1. lookupAt' = "lookups" /\ UNCHANGED <<asking, waiting, flying, results, registered, pinned>>
    BY <1>3 DEF RdapClient
  <2>2. FetchGoesOn
    BY <1>1, <2>1, UnchangedIsSafe DEF fetchVars
  <2>3. LookupParts' /\ Phases'
    BY <1>1, <1>2, <1>3, <2>1 DEF LookupParts, Phases, Preparing
  <2>4. Responsible'
    BY <1>1, <2>1 DEF LookupSafe, Responsible, Asks
  <2>5. Accounted'
    BY <1>1, <1>2, <2>1 DEF LookupSafe, Accounted, Preparing
  <2>6. DOMAIN results'.found = {}
    <3>1. results'.found = <<>>
      BY <1>1, <2>1
    <3> QED
      BY <3>1
  <2>7. EvidenceIsOfAddress' /\ lookupAt' # "done"
    BY <2>1, <2>6 DEF EvidenceIsOfAddress
  <2> QED
    BY <2>2, <2>3, <2>4, <2>5, <2>7, NothingSaidYet DEF LookupSafe
<1>4. ASSUME asking # {}
      PROVE  FetchGoesOn /\ LookupSafe'
  <2> DEFINE address == First
             endpoint == longest_bootstrap_endpoint(First, entries[First.v6])
  <2>1. address \in asking /\ address \in hosts /\ address.v6 \in BOOLEAN /\ asking \subseteq eligible_primary_addresses
    BY <1>1, <1>4, FirstIsAsked, HostFacts DEF LookupParts
  <2>2. entries[address.v6] \in Entries
    BY <1>1, <2>1 DEF LookupParts
  <2> HIDE DEF address, endpoint
  \* The address is settled: a request for it waits, or a failure says that there is none.
  <2>3. ASSUME asking' = asking \ {address}, UNCHANGED <<lookupAt, flying, registered>>,
               \/ UNCHANGED waiting /\ \E reason : Cannot(reason)
               \/ /\ waiting' = waiting \cup {[address |-> address, host |-> endpoint]} /\ endpoint # "none"
                  /\ UNCHANGED results
        PROVE  LookupSafe'
    <3>1. /\ results' = [found |-> results'.found, failures |-> results'.failures] /\ results'.found = results.found
          /\ results'.failures = {} => results' = results /\ waiting' = waiting \cup {[address |-> address, host |-> endpoint]}
      <4>1. CASE UNCHANGED results /\ waiting' = waiting \cup {[address |-> address, host |-> endpoint]}
        BY <1>1, <4>1 DEF LookupParts
      <4>2. ASSUME NEW reason, Cannot(reason)
            PROVE  /\ results' = [found |-> results.found, failures |-> results.failures \cup {reason}]
                   /\ results'.found = results.found /\ results'.failures # {}
        BY <1>1, <4>2, FailureIsSafe
      <4> QED
        BY <2>3, <4>1, <4>2
    <3>2. endpoint # "none" => /\ endpoint \in STRING
                               /\ \E i \in DOMAIN entries[address.v6] :
                                     /\ entries[address.v6][i].endpoint = endpoint
                                     /\ contains(entries[address.v6][i].prefix, address.n)
                                     /\ \A j \in DOMAIN entries[address.v6] :
                                           contains(entries[address.v6][j].prefix, address.n) =>
                                              entries[address.v6][j].prefix.length <= entries[address.v6][i].prefix.length
      <4> DEFINE found == entries[address.v6]
      <4>1. found \in Entries
        BY <2>2
      <4>2. endpoint = longest_bootstrap_endpoint(address, found)
        BY DEF address, endpoint
      <4> HIDE DEF found
      <4>3. endpoint # "none" =>
               \E i \in DOMAIN found :
                  /\ found[i].endpoint = endpoint
                  /\ contains(found[i].prefix, address.n)
                  /\ \A j \in DOMAIN found :
                        contains(found[j].prefix, address.n) => found[j].prefix.length <= found[i].prefix.length
        BY <4>1, <4>2, LongestIsResponsible
      <4>4. \A i \in DOMAIN found : found[i].endpoint \in STRING
        <5> DEFINE T == [prefix : [network : Nat, length : 0 .. Width], endpoint : STRING]
        <5>1. found \in Seq(T) /\ \A t \in T : t.endpoint \in STRING
          BY <4>1 DEF Entries
        <5> HIDE DEF T
        <5> QED
          BY <5>1
      <4> QED
        BY <4>3, <4>4 DEF found
    <3> DEFINE request == [address |-> address, host |-> endpoint]
    <3>3. request.address = address /\ request.host = endpoint
      OBVIOUS
    <3>4. endpoint # "none" => request \in Requests
      BY <1>1, <2>1, <3>2 DEF Requests
    <3>5. endpoint # "none" => Asks(request)
      BY <3>2, <3>3 DEF Asks
    <3> HIDE DEF request
    <3>6. waiting' = waiting \/ (waiting' = waiting \cup {request} /\ endpoint # "none")
      BY <2>3 DEF request
    <3>7. LookupParts'
      BY <1>1, <1>2, <2>3, <3>1, <3>4, <3>6 DEF LookupParts
    <3>8. Phases'
      BY <1>1, <2>3, <3>1 DEF Phases, Preparing
    <3>9. \A other : Asks(other)' <=> Asks(other)
      BY <1>1 DEF Asks
    <3>10. Responsible'
      BY <1>1, <2>3, <3>5, <3>6, <3>9 DEF LookupSafe, Responsible
    <3>11. Accounted'
      <4> SUFFICES ASSUME results'.failures = {}, NEW a \in Eligible
                   PROVE  \/ a \in asking' \/ a \in DOMAIN results'.found
                          \/ \E other \in waiting' \cup flying' : other.address = a
        BY <1>2 DEF Accounted
      <4>1. results' = results /\ waiting' = waiting \cup {request}
        BY <3>1 DEF request
      <4>2. a \in asking \/ a \in DOMAIN results.found \/ \E other \in waiting \cup flying : other.address = a
        BY <1>1, <4>1 DEF LookupSafe, Accounted, Preparing
      <4> QED
        BY <2>3, <3>3, <4>1, <4>2
    <3>12. DOMAIN results'.found = {}
      <4>1. results'.found = <<>>
        BY <1>1, <3>1
      <4> QED
        BY <4>1
    <3>13. EvidenceIsOfAddress' /\ lookupAt' # "done"
      BY <1>1, <2>3, <3>12 DEF EvidenceIsOfAddress
    <3> QED
      BY <3>7, <3>8, <3>10, <3>11, <3>13, NothingSaidYet DEF LookupSafe
  <2>4. CASE endpoint = "none"
    <3>1. asking' = asking \ {address} /\ Cannot("no endpoint") /\ UNCHANGED <<lookupAt, waiting, flying, registered, pinned>>
      BY <1>4, <2>4 DEF RdapClient, address, endpoint
    <3>2. FetchGoesOn
      BY <1>1, <3>1, UnchangedIsSafe DEF fetchVars
    <3> QED
      BY <2>3, <3>1, <3>2
  <2>5. CASE endpoint # "none"
    <3>1. PICK outcome \in ClientOutcomes :
             /\ ClientFor(endpoint, outcome)
             /\ IF outcome \in Stops THEN Finish(<<>>, results.failures, outcome) /\ UNCHANGED results
                ELSE /\ asking' = asking \ {address} /\ UNCHANGED <<lookupAt, flying, registered>>
                     /\ IF outcome # "client" THEN Cannot(outcome) /\ UNCHANGED waiting
                        ELSE /\ waiting' = waiting \cup {[address |-> address, host |-> endpoint]}
                             /\ UNCHANGED results
      BY <1>4, <2>5 DEF RdapClient, address, endpoint
    <3>2. FetchGoesOn
      BY <1>1, <3>1, ClientIsSafe
    <3>3. CASE outcome \in Stops
      <4>1. Finish(<<>>, results.failures, outcome) /\ UNCHANGED results /\ (outcome = "Cancelled" => ending'.token)
        BY <1>1, <3>1, <3>3, StopsAreTold
      <4>2. outcome \in Stops \cup {"none"} /\ outcome # "none" /\ lookupAt # "done"
        BY <1>1, <3>3 DEF Stops
      <4>3. LookupSafe'
        BY <1>1, <4>1, <4>2, FinishIsSafe
      <4> QED
        BY <3>2, <4>3
    <3>4. CASE outcome \notin Stops
      <4>1. LookupSafe'
        BY <2>3, <2>5, <3>1, <3>4
      <4> QED
        BY <3>2, <4>1
    <3> QED
      BY <3>3, <3>4
  <2> QED
    BY <2>4, <2>5
<1> QED
  BY <1>3, <1>4

LEMMA BgpClientIsSafe == ASSUME FetchSafe, LookupSafe, BgpClient PROVE FetchGoesOn /\ LookupSafe'
<1>1. /\ lookupAt = "clients" /\ kind = "bgp" /\ UNCHANGED <<kind, hosts, entries, before, ending, results>>
      /\ LookupParts /\ Phases /\ flying = {} /\ waiting = {} /\ registered = Nothing /\ results.found = <<>>
  BY DEF BgpClient, LookupSafe, Phases, Preparing
<1>2. Eligible' = Eligible /\ eligible_primary_addresses' = eligible_primary_addresses /\ Requests' = Requests
  BY <1>1, HostsStay
<1>3. PICK outcome \in ClientOutcomes :
         /\ ClientFor("collector", outcome)
         /\ IF outcome = "client"
            THEN /\ lookupAt' = "lookups" /\ asking' = {} /\ UNCHANGED <<flying, registered>>
                 /\ waiting' = {[address |-> a, host |-> "collector"] : a \in asking}
            ELSE IF outcome \in Stops THEN Finish(<<>>, results.failures, outcome)
            ELSE Finish(<<>>, results.failures \cup {outcome}, "none")
  BY DEF BgpClient
<1>4. FetchGoesOn
  BY <1>1, <1>3, ClientIsSafe
<1>5. CASE outcome = "client"
  <2>1. lookupAt' = "lookups" /\ asking' = {} /\ UNCHANGED <<flying, registered>>
        /\ waiting' = {[address |-> a, host |-> "collector"] : a \in asking}
    BY <1>3, <1>5
  <2>2. waiting' \subseteq Requests
    <3>1. asking \subseteq eligible_primary_addresses
      BY <1>1 DEF LookupParts
    <3>2. ASSUME NEW a \in asking PROVE [address |-> a, host |-> "collector"] \in Requests
      <4>1. a \in eligible_primary_addresses
        BY <3>1
      <4> QED
        BY <1>1, <4>1 DEF Requests
    <3> QED
      BY <2>1, <3>2
  <2>3. LookupParts' /\ Phases'
    BY <1>1, <1>2, <2>1, <2>2 DEF LookupParts, Phases, Preparing
  <2>4. Responsible'
    BY <1>1 DEF Responsible
  <2>5. Accounted'
    <3> SUFFICES ASSUME results.failures = {}, NEW a \in Eligible
                 PROVE  a \in DOMAIN results.found \/ \E request \in waiting' \cup flying' : request.address = a
      BY <1>1, <1>2 DEF Accounted
    <3>1. a \in asking \/ a \in DOMAIN results.found
      BY <1>1 DEF LookupSafe, Accounted, Preparing
    <3>2. [address |-> a, host |-> "collector"].address = a
      OBVIOUS
    <3> QED
      BY <2>1, <3>1, <3>2
  <2>6. EvidenceIsOfAddress' /\ lookupAt' # "done"
    BY <1>1, <1>2, <2>1 DEF LookupSafe, EvidenceIsOfAddress
  <2> QED
    BY <1>4, <2>3, <2>4, <2>5, <2>6, NothingSaidYet DEF LookupSafe
<1>6. CASE outcome \in Stops
  <2>1. Finish(<<>>, results.failures, outcome) /\ (outcome = "Cancelled" => ending'.token)
    BY <1>1, <1>3, <1>6, StopsAreTold DEF Stops
  <2>2. outcome \in Stops \cup {"none"} /\ outcome # "none" /\ lookupAt # "done"
    BY <1>1, <1>6 DEF Stops
  <2>3. LookupSafe'
    BY <1>1, <2>1, <2>2, FinishIsSafe
  <2> QED
    BY <1>4, <2>3
<1>7. CASE outcome # "client" /\ outcome \notin Stops
  <2>1. Finish(<<>>, results.failures \cup {outcome}, "none") /\ results.failures \cup {outcome} # {}
    BY <1>3, <1>7
  <2>2. "none" \in Stops \cup {"none"} /\ lookupAt # "done"
    BY <1>1
  <2>3. LookupSafe'
    BY <1>1, <2>1, <2>2, FinishIsSafe
  <2> QED
    BY <1>4, <2>3
<1> QED
  BY <1>5, <1>6, <1>7

LEMMA StartIsSafe == ASSUME LookupSafe, StartRequest PROVE LookupSafe'
<1>1. /\ lookupAt = "lookups" /\ Cardinality(flying) < MaxLookupConcurrency
      /\ UNCHANGED <<kind, lookupAt, hosts, entries, asking, results, before, registered>>
      /\ LookupParts /\ Phases
  BY DEF StartRequest, LookupSafe
<1>2. PICK request \in waiting : flying' = flying \cup {request} /\ waiting' = waiting \ {request}
  BY DEF StartRequest
<1>3. Eligible' = Eligible /\ eligible_primary_addresses' = eligible_primary_addresses /\ Requests' = Requests
  BY <1>1, HostsStay
<1>4. waiting' \cup flying' = waiting \cup flying
  BY <1>2
<1>5. IsFiniteSet(flying') /\ Cardinality(flying') <= MaxLookupConcurrency
  <2>1. IsFiniteSet(flying) /\ Cardinality(flying) \in Nat
    BY <1>1, FS_CardinalityType DEF LookupParts
  <2>2. IsFiniteSet(flying') /\ Cardinality(flying') \in {Cardinality(flying), Cardinality(flying) + 1}
    BY <1>2, <2>1, FS_AddElement
  <2> QED
    BY <1>1, <2>1, <2>2, LookupConstants
<1>6. LookupParts' /\ Phases'
  BY <1>1, <1>3, <1>4, <1>5 DEF LookupParts, Phases, Preparing
<1>7. Responsible' /\ Accounted'
  BY <1>1, <1>3, <1>4 DEF LookupSafe, Responsible, Asks, Accounted, Preparing
<1>8. EvidenceIsOfAddress' /\ lookupAt' # "done"
  BY <1>1, <1>3 DEF LookupSafe, EvidenceIsOfAddress
<1> QED
  BY <1>6, <1>7, <1>8, NothingSaidYet DEF LookupSafe

\* No more origins are kept than the limit says, the least numbers of them.
LEMMA OriginsAreFew ==
    ASSUME NEW asns, asns \subseteq Nat, IsFiniteSet(asns)
    PROVE  Cardinality({n \in asns : Cardinality({m \in asns : m < n}) < MaxBgpOriginAsns}) <= MaxBgpOriginAsns
<1> DEFINE ahead == [n \in asns |-> {m \in asns : m < n}]
<1>1. Ordered(asns, ahead)
  BY DEF Ordered
<1>2. {n \in asns : Cardinality(ahead[n]) < MaxBgpOriginAsns} =
         {n \in asns : Cardinality({m \in asns : m < n}) < MaxBgpOriginAsns}
  OBVIOUS
<1> HIDE DEF ahead
<1>3. Cardinality({n \in asns : Cardinality(ahead[n]) < MaxBgpOriginAsns}) <= MaxBgpOriginAsns
  BY <1>1, FirstsAreFew, LookupConstants
<1> QED
  BY <1>2, <1>3

\* What is kept of an answer that is not invalid is about the address.
About(a, e) ==
    /\ kind = "rdap" /\ e.response.range = "whole" => a.n \in e.response.start .. e.response.end
    /\ kind = "bgp" /\ e.response.prefix # "none" => contains(e.response.routed, a.n)
    /\ e.asns # {} => e.response.prefix # "none" /\ Cardinality(e.asns) <= MaxBgpOriginAsns

LEMMA RegistrationIsAbout ==
    ASSUME kind = "rdap", NEW response \in RdapResponses, NEW a, a.n \in Nat,
           NEW parsed, parsed = Registration(response, a), parsed # "invalid"
    PROVE  About(a, Evidence(response, parsed))
<1> DEFINE e == Evidence(response, parsed)
<1>1. e.response = response /\ e.asns = {}
  BY DEF Evidence
<1>2. response.start \in Nat /\ response.end \in Nat
  BY LookupAssumption
<1>3. response.range # "none" => response.start <= a.n /\ a.n <= response.end
  BY DEF Registration
<1>4. response.range = "whole" => a.n \in response.start .. response.end
  BY <1>2, <1>3
<1> HIDE DEF e
<1>5. About(a, e)
  BY <1>1, <1>4 DEF About
<1> QED
  BY <1>5 DEF e

LEMMA RouteIsAbout ==
    ASSUME kind = "bgp", NEW response \in BgpResponses, NEW a,
           NEW parsed, parsed = Route(response, a), parsed # "invalid"
    PROVE  About(a, Evidence(response, parsed))
<1> DEFINE e == Evidence(response, parsed)
           few == {n \in response.asns : Cardinality({m \in response.asns : m < n}) < MaxBgpOriginAsns}
<1>1. e.response = response /\ e.asns = IF parsed = "discarded" THEN {} ELSE few
  BY DEF Evidence
<1>2. Cardinality(few) <= MaxBgpOriginAsns
  BY LookupAssumption, OriginsAreFew
<1>3. response.prefix # "none" => contains(response.routed, a.n)
  BY DEF Route
<1>4. parsed # "discarded" /\ response.prefix = "none" => response.asns = {}
  BY DEF Route
<1>5. response.asns = {} => few = {}
  OBVIOUS
<1> HIDE DEF e, few
<1>6. About(a, e)
  BY <1>1, <1>2, <1>3, <1>4, <1>5 DEF About
<1> QED
  BY <1>6 DEF e

\* A request is answered or fails: what was found stays, and more may be.
LEMMA AnswerIsSafe ==
    ASSUME LookupSafe, lookupAt = "lookups", UNCHANGED <<kind, hosts, entries, before, lookupAt, asking, waiting, registered>>,
           NEW request \in flying, flying' = flying \ {request},
           results' = [found |-> results'.found, failures |-> results'.failures],
           results'.failures = {} => results.failures = {} /\ DOMAIN results'.found = DOMAIN results.found \cup {request.address},
           \A a \in DOMAIN results'.found :
              \/ a \in DOMAIN results.found /\ results'.found[a] = results.found[a]
              \/ a = request.address /\ About(a, results'.found[a])
    PROVE  LookupSafe'
<1>1. LookupParts /\ Phases
  BY DEF LookupSafe
<1>2. Eligible' = Eligible /\ eligible_primary_addresses' = eligible_primary_addresses /\ Requests' = Requests
  BY HostsStay
<1>3. IsFiniteSet(flying') /\ Cardinality(flying') <= MaxLookupConcurrency
  <2>1. IsFiniteSet(flying) /\ Cardinality(flying) \in Nat /\ Cardinality(flying) <= MaxLookupConcurrency
    BY <1>1, FS_CardinalityType DEF LookupParts
  <2>2. IsFiniteSet(flying') /\ Cardinality(flying') <= Cardinality(flying) /\ Cardinality(flying') \in Nat
    <3>1. flying' \in SUBSET flying
      OBVIOUS
    <3>2. IsFiniteSet(flying') /\ Cardinality(flying') <= Cardinality(flying)
      BY <2>1, <3>1, FS_Subset
    <3> QED
      BY <3>2, FS_CardinalityType
  <2> QED
    BY <2>1, <2>2, LookupConstants
<1>4. request \in Requests /\ request.address \in Eligible
  BY <1>1, HostFacts DEF LookupParts, Requests
<1>5. LookupParts'
  BY <1>1, <1>2, <1>3 DEF LookupParts
<1>6. Phases'
  BY <1>1 DEF Phases, Preparing
<1>7. Responsible'
  BY DEF LookupSafe, Responsible, Asks
<1>8. Accounted'
  <2> SUFFICES ASSUME results'.failures = {}, NEW a \in Eligible
               PROVE  \/ a \in DOMAIN results'.found
                      \/ \E other \in waiting' \cup flying' : other.address = a
    BY <1>2 DEF Accounted
  <2>1. a \in asking \/ a \in DOMAIN results.found \/ \E other \in waiting \cup flying : other.address = a
    BY DEF LookupSafe, Accounted, Preparing
  <2>2. asking = {}
    BY <1>1 DEF Phases, Preparing
  <2> QED
    BY <2>1, <2>2
<1>9. EvidenceIsOfAddress'
  <2> SUFFICES ASSUME NEW a \in DOMAIN results'.found
               PROVE  a \in Eligible /\ About(a, results'.found[a])
    BY <1>2 DEF EvidenceIsOfAddress, About
  <2> QED
    BY <1>4 DEF LookupSafe, EvidenceIsOfAddress, About
<1> QED
  BY <1>5, <1>6, <1>7, <1>8, <1>9, NothingSaidYet DEF LookupSafe

LEMMA RespondIsSafe ==
    ASSUME FetchSafe, LookupSafe, lookupAt = "lookups", UNCHANGED <<kind, hosts, entries, before, fetchVars>>,
           NEW request \in flying, Respond(request)
    PROVE  LookupSafe'
<1>1. lookupAt # "done" /\ ending' = ending
  BY DEF fetchVars
<1>2. request.address.n \in Nat
  BY HostFacts DEF LookupSafe, LookupParts, Requests
<1>3. ASSUME NEW reason, Cannot(reason), flying' = flying \ {request}, UNCHANGED <<lookupAt, asking, waiting, registered>>
      PROVE  LookupSafe'
  <2>1. /\ results' = [found |-> results.found, failures |-> results.failures \cup {reason}]
        /\ results'.found = results.found /\ results'.failures # {}
    BY <1>1, <1>3, FailureIsSafe
  <2>2. results' = [found |-> results'.found, failures |-> results'.failures]
    BY <2>1
  <2> QED
    BY <1>3, <2>1, <2>2, AnswerIsSafe
<1>4. ASSUME NEW failure \in Failures,
             IF failure \in Stops THEN Finish(results.found, results.failures, failure) /\ UNCHANGED results
             ELSE flying' = flying \ {request} /\ Cannot(failure) /\ UNCHANGED <<lookupAt, asking, waiting, registered>>
      PROVE  LookupSafe'
  <2>1. CASE failure \in Stops
    <3>1. Finish(results.found, results.failures, failure) /\ UNCHANGED results /\ (failure = "Cancelled" => ending'.token)
      BY <1>1, <1>4, <2>1, StopsAreTold
    <3>2. failure \in Stops \cup {"none"} /\ failure # "none"
      BY <2>1 DEF Stops
    <3> QED
      BY <1>1, <3>1, <3>2, FinishIsSafe
  <2>2. CASE failure \notin Stops
    BY <1>3, <1>4, <2>2
  <2> QED
    BY <2>1, <2>2
<1>5. ASSUME flying' = flying \ {request}, UNCHANGED <<lookupAt, asking, waiting, registered>>,
             NEW response \in IF kind = "rdap" THEN RdapResponses ELSE BgpResponses,
             LET fetched == get_bounded(response, MaxLookupBytes)
                 parsed == IF kind = "rdap" THEN Registration(response, request.address) ELSE Route(response, request.address)
                 kept == [a \in DOMAIN results.found \cup {request.address} |->
                             IF a = request.address THEN Evidence(response, parsed) ELSE results.found[a]]
             IN  IF fetched # "body" THEN Cannot(fetched)
                 ELSE IF parsed = "invalid" THEN Cannot("invalid")
                 ELSE results' = [results EXCEPT !.found = kept,
                                                 !.failures = IF parsed = "complete" THEN @ ELSE @ \cup {"incomplete"}]
      PROVE  LookupSafe'
  <2> DEFINE fetched == get_bounded(response, MaxLookupBytes)
             parsed == IF kind = "rdap" THEN Registration(response, request.address) ELSE Route(response, request.address)
             evidence == Evidence(response, parsed)
             kept == [a \in DOMAIN results.found \cup {request.address} |->
                         IF a = request.address THEN evidence ELSE results.found[a]]
             failures == IF parsed = "complete" THEN results.failures ELSE results.failures \cup {"incomplete"}
  <2>1. CASE fetched # "body"
    <3>1. Cannot(fetched)
      BY <1>5, <2>1
    <3> QED
      BY <1>3, <1>5, <3>1
  <2>2. CASE fetched = "body" /\ parsed = "invalid"
    <3>1. Cannot("invalid")
      BY <1>5, <2>2
    <3> QED
      BY <1>3, <1>5, <3>1
  <2>3. CASE fetched = "body" /\ parsed # "invalid"
    <3>1. About(request.address, evidence)
      <4>1. kind \in {"rdap", "bgp"}
        BY DEF LookupSafe, LookupParts
      <4>2. CASE kind = "rdap"
        BY <1>2, <2>3, <4>2, RegistrationIsAbout
      <4>3. CASE kind = "bgp"
        BY <2>3, <4>3, RouteIsAbout
      <4> QED
        BY <4>1, <4>2, <4>3
    <3>2. results' = [results EXCEPT !.found = kept, !.failures = failures]
      BY <1>5, <2>3
    <3>3. failures = {} => results.failures = {}
      OBVIOUS
    <3> HIDE DEF evidence, failures
    <3>4. /\ DOMAIN kept = DOMAIN results.found \cup {request.address}
          /\ \A a \in DOMAIN kept : IF a = request.address THEN kept[a] = evidence
                                     ELSE a \in DOMAIN results.found /\ kept[a] = results.found[a]
      OBVIOUS
    <3> HIDE DEF kept
    <3>5. results = [found |-> results.found, failures |-> results.failures]
      BY DEF LookupSafe, LookupParts
    <3>6. results' = [found |-> kept, failures |-> failures]
      BY <3>2, <3>5
    <3>7. results'.found = kept /\ results'.failures = failures
      BY <3>6
    <3>8. \A a \in DOMAIN kept : \/ a \in DOMAIN results.found /\ kept[a] = results.found[a]
                                 \/ a = request.address /\ About(a, kept[a])
      BY <3>1, <3>4
    <3> QED
      BY <1>5, <3>3, <3>4, <3>6, <3>7, <3>8, AnswerIsSafe
  <2> QED
    BY <2>1, <2>2, <2>3
<1> QED
  BY <1>4, <1>5 DEF Respond

LEMMA LookupStepIsSafe == ASSUME FetchSafe, LookupSafe, LookupNext PROVE FetchGoesOn /\ LookupSafe'
<1>1. CASE Begin
  BY <1>1, BeginIsSafe, UnchangedIsSafe DEF Begin
<1>2. CASE Bootstrap
  BY <1>2, BootstrapIsSafe
<1>3. CASE RdapClient
  BY <1>3, RdapClientIsSafe
<1>4. CASE BgpClient
  BY <1>4, BgpClientIsSafe
<1>5. CASE StartRequest
  BY <1>5, StartIsSafe, UnchangedIsSafe DEF StartRequest
<1>6. CASE ReceiveResponse
  BY <1>6, RespondIsSafe, UnchangedIsSafe DEF ReceiveResponse
<1>7. CASE AllAnswered
  <2>1. /\ lookupAt = "lookups" /\ waiting = {} /\ flying = {} /\ Finish(results.found, results.failures, "none")
        /\ UNCHANGED <<kind, hosts, entries, results, before, fetchVars>>
    BY <1>7 DEF AllAnswered
  <2>2. results.failures = {} => DOMAIN results.found = Eligible
    <3>1. asking = {}
      BY <2>1 DEF LookupSafe, Phases, Preparing
    <3>2. results.failures = {} => \A a \in Eligible : a \in DOMAIN results.found
      BY <2>1, <3>1 DEF LookupSafe, Accounted
    <3>3. \A a \in DOMAIN results.found : a \in Eligible
      BY DEF LookupSafe, EvidenceIsOfAddress
    <3> QED
      BY <3>2, <3>3
  <2>3. "none" \in Stops \cup {"none"} /\ lookupAt # "done"
    BY <2>1
  <2>4. LookupSafe'
    BY <2>1, <2>2, <2>3, FinishIsSafe
  <2> QED
    BY <2>1, <2>4, UnchangedIsSafe
<1>8. CASE EndLookups
  <2>1. /\ lookupAt # "done" /\ EndSource
        /\ UNCHANGED <<kind, lookupAt, hosts, entries, asking, waiting, flying, results, before, registered>>
    BY <1>8 DEF EndLookups
  <2>2. Eligible' = Eligible /\ eligible_primary_addresses' = eligible_primary_addresses /\ Requests' = Requests
    BY <2>1, HostsStay
  <2>3. LookupParts' /\ Phases'
    BY <2>1, <2>2 DEF LookupSafe, LookupParts, Phases, Preparing
  <2>4. Responsible' /\ Accounted'
    BY <2>1, <2>2 DEF LookupSafe, Responsible, Asks, Accounted, Preparing
  <2>5. EvidenceIsOfAddress' /\ lookupAt' # "done"
    BY <2>1, <2>2 DEF LookupSafe, EvidenceIsOfAddress
  <2>6. LookupSafe'
    BY <2>3, <2>4, <2>5, NothingSaidYet DEF LookupSafe
  <2> QED
    BY <2>1, <2>6, StopIsSafe
<1> QED
  BY <1>1, <1>2, <1>3, <1>4, <1>5, <1>6, <1>7, <1>8 DEF LookupNext, LookupStep

\* While another check runs, this one stays as it is and the stop is not taken back.
LEMMA LookupsUndisturbed ==
    ASSUME LookupSafe, UNCHANGED lookupsOnly, ending.token => ending'.token
    PROVE  LookupSafe'
<1>1. UNCHANGED <<kind, lookupAt, hosts, entries, asking, waiting, flying, results, before, registered>>
  BY DEF lookupsOnly
<1>2. Eligible' = Eligible /\ eligible_primary_addresses' = eligible_primary_addresses /\ Requests' = Requests
  BY <1>1, HostsStay
<1>3. LookupParts' /\ Phases' /\ Registered'
  BY <1>1, <1>2 DEF LookupSafe, LookupParts, Phases, Preparing, Registered
<1>4. Responsible' /\ Accounted'
  BY <1>1, <1>2 DEF LookupSafe, Responsible, Asks, Accounted, Preparing
<1>5. EvidenceIsOfAddress'
  BY <1>1, <1>2 DEF LookupSafe, EvidenceIsOfAddress
<1>6. SilentIsWhole'
  BY <1>1, <1>2 DEF LookupSafe, SilentIsWhole
<1>7. StatusOnlyWorsens'
  BY <1>1 DEF LookupSafe, StatusOnlyWorsens
<1> QED
  BY <1>3, <1>4, <1>5, <1>6, <1>7 DEF LookupSafe

-----------------------------------------------------------------------------
(* The certificate log                                                     *)

LEMMA MembersAreFew ==
    ASSUME NEW n \in Nat, NEW f, DOMAIN f = 1 .. n
    PROVE  IsFiniteSet({f[i] : i \in 1 .. n}) /\ Cardinality({f[i] : i \in 1 .. n}) <= n
<1> DEFINE T == {f[i] : i \in 1 .. n}
           g == [i \in 1 .. n |-> f[i]]
<1>1. g \in Surjection(1 .. n, T)
  BY DEF Surjection
<1>2. IsFiniteSet(1 .. n) /\ Cardinality(1 .. n) = n
  BY FS_Interval
<1> HIDE DEF T, g
<1>3. IsFiniteSet(T) /\ Cardinality(T) <= Cardinality(1 .. n)
  BY <1>1, <1>2, FS_Surjection
<1> QED
  BY <1>2, <1>3 DEF T

LEMMA LengthIs ==
    ASSUME NEW n \in Nat, NEW s, s = [i \in 1 .. n |-> s[i]]
    PROVE  Len(s) = n /\ s \in Seq({s[i] : i \in 1 .. n})
<1> DEFINE S == {s[i] : i \in 1 .. n}
<1>1. s \in [1 .. n -> S]
  OBVIOUS
<1> HIDE DEF S
<1>2. s \in Seq(S)
  BY <1>1, SeqDef
<1>3. DOMAIN s = 1 .. n /\ DOMAIN s = 1 .. Len(s) /\ Len(s) \in Nat
  BY <1>1, <1>2, LenProperties
<1> QED
  BY <1>2, <1>3 DEF S

Names == [wildcard : BOOLEAN, name : Nat]
Issuances == [id : BOOLEAN, names : Seq(Names)]

LEMMA FoundIsFinite ==
    ASSUME NEW issued \in Seq(Issuances)
    PROVE  /\ Found(issued) \subseteq Names /\ IsFiniteSet(Found(issued)) /\ Cardinality(Found(issued)) \in Nat
<1> DEFINE n == Len(issued)
           sets == [i \in 1 .. n |-> ToSet(issued[i].names)]
           all == {sets[i] : i \in 1 .. n}
<1>1. n \in Nat /\ DOMAIN issued = 1 .. n /\ \A i \in 1 .. n : issued[i].names \in Seq(Names)
  <2>1. \A i \in 1 .. n : issued[i] \in Issuances
    OBVIOUS
  <2> QED
    BY <2>1 DEF Issuances
<1>2. ASSUME NEW i \in 1 .. n PROVE sets[i] \subseteq Names /\ IsFiniteSet(sets[i])
  <2> DEFINE s == issued[i].names
  <2>1. s \in Seq(Names) /\ sets[i] = ToSet(s)
    BY <1>1
  <2> HIDE DEF s, sets, n
  <2>2. Len(s) \in Nat /\ DOMAIN s = 1 .. Len(s) /\ \A j \in 1 .. Len(s) : s[j] \in Names
    BY <2>1
  <2>3. sets[i] = {s[j] : j \in 1 .. Len(s)}
    BY <2>1, <2>2 DEF ToSet
  <2>4. IsFiniteSet({s[j] : j \in 1 .. Len(s)})
    BY <2>2, MembersAreFew
  <2> QED
    BY <2>2, <2>3, <2>4
<1>3. UNION {ToSet(issued[i].names) : i \in DOMAIN issued} = UNION all
  BY <1>1
<1>4. DOMAIN sets = 1 .. n
  OBVIOUS
<1> HIDE DEF n, sets
<1>5. IsFiniteSet(all)
  BY <1>1, <1>4, MembersAreFew
<1>6. \A T \in all : T \subseteq Names /\ IsFiniteSet(T)
  BY <1>2
<1> HIDE DEF all
<1>7. IsFiniteSet(UNION all) /\ UNION all \subseteq Names
  BY <1>5, <1>6, FS_UNION
<1>8. Found(issued) \subseteq UNION all
  BY <1>3 DEF Found
<1>9. IsFiniteSet(Found(issued))
  BY <1>7, <1>8, FS_Subset
<1> QED
  BY <1>7, <1>8, <1>9, FS_CardinalityType

LEMMA NamesAreOrdered ==
    ASSUME NEW S, S \subseteq Names
    PROVE  Ordered(S, [n \in S |-> {m \in S : Sooner(m, n)}])
<1> DEFINE ahead == [n \in S |-> {m \in S : Sooner(m, n)}]
<1>1. \A n \in S : n.wildcard \in BOOLEAN /\ n.name \in Nat
  BY DEF Names
<1>2. \A m, n \in Names : m.wildcard = n.wildcard /\ m.name = n.name => m = n
  BY DEF Names
<1>3. \A m, n \in S : m # n => Sooner(m, n) \/ Sooner(n, m)
  BY <1>1, <1>2 DEF Sooner
<1>4. \A n \in S : ~Sooner(n, n)
  BY <1>1 DEF Sooner
<1>5. \A m, n, o \in S : Sooner(m, n) /\ Sooner(n, o) => Sooner(m, o)
  BY <1>1 DEF Sooner
<1>6. \A m, n \in S : m \in ahead[n] <=> Sooner(m, n)
  OBVIOUS
<1> QED
  BY <1>3, <1>4, <1>5, <1>6 DEF Ordered

\* Every place has a name, and every name its place.
LEMMA NthIsFound ==
    ASSUME NEW S, S \subseteq Names, IsFiniteSet(S)
    PROVE  /\ \A i \in 1 .. Cardinality(S) : Nth(S, i) \in S
           /\ \A n \in S : \E i \in 1 .. Cardinality(S) : Nth(S, i) = n
<1> DEFINE ahead == [n \in S |-> {m \in S : Sooner(m, n)}]
           rank(n) == Cardinality({m \in S : Sooner(m, n)})
<1>1. Ordered(S, ahead) /\ Cardinality(S) \in Nat
  BY NamesAreOrdered, FS_CardinalityType
<1>2. \A n \in S : Cardinality(ahead[n]) = rank(n)
  OBVIOUS
<1> HIDE DEF ahead
<1>3. ASSUME NEW i \in 1 .. Cardinality(S)
      PROVE  \E n \in S : rank(n) = i - 1
  <2>1. PICK n \in S : Cardinality(ahead[n]) = i - 1
    BY <1>1, EveryRankIsTaken
  <2> QED
    BY <1>2, <2>1
<1>4. \A i \in 1 .. Cardinality(S) : Nth(S, i) \in S /\ rank(Nth(S, i)) = i - 1
  BY <1>3 DEF Nth
<1>5. \A m, n \in S : m # n => rank(m) # rank(n)
  <2> SUFFICES ASSUME NEW m \in S, NEW n \in S, m # n, Cardinality(ahead[m]) = Cardinality(ahead[n]) PROVE FALSE
    BY <1>2
  <2>1. m \in ahead[n] \/ n \in ahead[m]
    BY <1>1 DEF Ordered
  <2>2. Cardinality(ahead[m]) \in Nat
    BY <1>1, RanksDiffer
  <2>3. m \in ahead[n] => Cardinality(ahead[m]) < Cardinality(ahead[n])
    BY <1>1, RanksDiffer
  <2>4. n \in ahead[m] => Cardinality(ahead[n]) < Cardinality(ahead[m])
    BY <1>1, RanksDiffer
  <2> QED
    BY <2>1, <2>2, <2>3, <2>4
<1>6. ASSUME NEW n \in S PROVE \E i \in 1 .. Cardinality(S) : Nth(S, i) = n
  <2>1. Cardinality(ahead[n]) \in Nat /\ Cardinality(ahead[n]) < Cardinality(S)
    BY <1>1, RanksDiffer
  <2>2. rank(n) \in Nat /\ rank(n) < Cardinality(S)
    BY <1>2, <2>1
  <2> DEFINE i == rank(n) + 1
  <2>3. i \in 1 .. Cardinality(S) /\ i - 1 = rank(n)
    BY <1>1, <2>2
  <2> HIDE DEF i
  <2>4. Nth(S, i) \in S /\ rank(Nth(S, i)) = rank(n)
    BY <1>4, <2>3
  <2>5. Nth(S, i) = n
    BY <1>5, <2>4
  <2> QED
    BY <2>3, <2>5
<1> QED
  BY <1>4, <1>6

Listed(issued) == Min({Cardinality(Found(issued)), MaxCtCandidates})

LEMMA LogConstants ==
    /\ MaxCtPages \in Nat \ {0} /\ MaxCtDnsConcurrency \in Nat \ {0} /\ MaxCtCandidates \in Nat
    /\ \A response \in LogResponses : response.page \in Seq(Issuances)
BY LogAssumption DEF Issuances, Names

LEMMA KeptIsLesser ==
    ASSUME NEW issued \in Seq(Issuances)
    PROVE  /\ Listed(issued) \in Nat /\ Listed(issued) <= MaxCtCandidates
           /\ Listed(issued) <= Cardinality(Found(issued)) /\ Cardinality(Found(issued)) \in Nat
           /\ Cardinality(Found(issued)) <= MaxCtCandidates => Listed(issued) = Cardinality(Found(issued))
           /\ Listed(issued) = Min({MaxCtCandidates, Cardinality(Found(issued))})
<1> DEFINE a == Cardinality(Found(issued))
           b == MaxCtCandidates
<1>1. a \in Nat /\ b \in Nat
  BY FoundIsFinite, LogConstants
<1> HIDE DEF a, b
<1>2. Min({a, b}) = IF a <= b THEN a ELSE b
  BY <1>1, LesserOfTwo
<1>3. Listed(issued) = Min({a, b}) /\ {a, b} = {b, a}
  BY DEF Listed, a, b
<1>4. Listed(issued) = Min({b, a})
  BY <1>3
<1> HIDE DEF Min
<1> QED
  BY <1>1, <1>2, <1>3, <1>4 DEF a, b

LEMMA ListedAreFound ==
    ASSUME NEW issued \in Seq(Issuances), NEW i \in 1 .. Listed(issued)
    PROVE  Nth(Found(issued), i) \in Found(issued) /\ Nth(Found(issued), i) \in Names
<1> DEFINE n == Listed(issued)
           all == Cardinality(Found(issued))
<1>1. n \in Nat /\ all \in Nat /\ n <= all
  BY KeptIsLesser
<1>2. i \in 1 .. n
  OBVIOUS
<1> HIDE DEF n, all
<1>3. i \in 1 .. all
  BY <1>1, <1>2
<1> QED
  BY <1>3, FoundIsFinite, NthIsFound DEF all

Plain == {i \in DOMAIN candidates : ~candidates[i].name.wildcard}

LogParts ==
    /\ logAt \in {"page", "verify", "done", "failed"} /\ issuances \in Seq(Issuances)
    /\ paging \in [pages : 0 .. MaxCtPages, ended : BOOLEAN] /\ logComplete \in BOOLEAN
    /\ logAt = "page" => paging.pages < MaxCtPages
    /\ IsFiniteSet(asked) /\ Cardinality(asked) <= MaxCtDnsConcurrency

\* While pages are read nothing is listed, and an Err has nothing to list.
Paging ==
    logAt \in {"page", "failed"} =>
        /\ candidates = <<>> /\ unasked = {} /\ asked = {} /\ answers = <<>> /\ logErrors = {} /\ ~logComplete
        /\ logAt = "failed" => issuances = <<>>

\* Afterwards the candidates are the names found, in their order.
Listing ==
    logAt \in {"verify", "done"} =>
        /\ candidates = [i \in 1 .. Listed(issuances) |-> candidates[i]]
        /\ \A i \in 1 .. Listed(issuances) :
              candidates[i] = [name |-> Nth(Found(issuances), i), status |-> candidates[i].status,
                               issued |-> candidates[i].issued]
        /\ logComplete => paging.ended /\ Cardinality(Found(issuances)) <= MaxCtCandidates
        /\ logComplete <=> logErrors = {}

\* Every name but a wildcard is yet to be asked for, asked for or answered.
Verifying ==
    logAt = "verify" =>
        /\ unasked \cup asked \cup DOMAIN answers = Plain
        /\ \A i \in DOMAIN answers : answers[i] \in Conclusive \cup {"Indeterminate"}
        /\ \A i \in DOMAIN candidates : candidates[i].status = "NotChecked"

Verdicts ==
    logAt = "done" =>
        \A i \in DOMAIN candidates :
            IF i \notin Plain THEN candidates[i].status = "NotChecked"
            ELSE candidates[i].status \in IF logComplete THEN Conclusive ELSE Conclusive \cup {"Indeterminate"}

LogSafe == LogParts /\ Paging /\ Listing /\ Verifying /\ Verdicts

LEMMA LogStarts == ASSUME LogInit PROVE FetchSafe /\ LogSafe
<1>1. FetchSafe
  BY DEF LogInit, FetchInit, FetchSafe, FetchTypeOK, PinnedIsPublic
<1>2. logAt \in {"page", "failed"} /\ issuances \in Seq(Issuances) /\ paging \in [pages : 0 .. MaxCtPages, ended : BOOLEAN]
      /\ paging.pages < MaxCtPages
  BY LogConstants DEF LogInit
<1>3. IsFiniteSet(asked) /\ Cardinality(asked) <= MaxCtDnsConcurrency
  BY LogConstants, FS_EmptySet DEF LogInit
<1>4. LogParts
  BY <1>2, <1>3 DEF LogInit, LogParts
<1>5. Paging
  BY DEF LogInit, Paging
<1>6. Listing /\ Verifying /\ Verdicts
  BY <1>2 DEF Listing, Verifying, Verdicts
<1> QED
  BY <1>1, <1>4, <1>5, <1>6 DEF LogSafe

\* The loop over the pages ends, at the end of the log or with what is missing said.
LEMMA CloseIsSafe ==
    ASSUME LogSafe, logAt = "page", NEW ended \in BOOLEAN, NEW errors, Close(issuances', ended, errors),
           issuances' \in Seq(Issuances), paging' \in [pages : 0 .. MaxCtPages, ended : BOOLEAN],
           ended => paging'.ended /\ errors = {}, UNCHANGED <<asked, answers>>
    PROVE  LogSafe'
<1> DEFINE issued == issuances'
           found == ct_candidates(issued)
           n == Listed(issued)
           cut == Cardinality(Found(issued)) > MaxCtCandidates
<1>1. /\ logAt' = "verify" /\ candidates' = found
      /\ unasked' = {i \in DOMAIN found : ~found[i].name.wildcard}
      /\ logComplete' = (ended /\ ~cut)
      /\ logErrors' = errors \cup (IF ~ended /\ errors = {} THEN {"page limit"} ELSE {})
                             \cup (IF cut THEN {"candidate limit"} ELSE {})
  BY DEF Close
<1>2. asked' = {} /\ answers' = <<>>
  BY DEF LogSafe, Paging
<1>3. /\ found = [i \in 1 .. n |-> [name |-> Nth(Found(issued), i), status |-> "NotChecked",
                                    issued |-> Cardinality(Occurrences(Nth(Found(issued), i), issued))]]
  BY DEF ct_candidates, Listed
<1>4. n \in Nat /\ (~cut => Cardinality(Found(issued)) <= MaxCtCandidates)
  <2> DEFINE all == Cardinality(Found(issued))
  <2>1. n \in Nat /\ all \in Nat /\ MaxCtCandidates \in Nat
    BY KeptIsLesser, LogConstants
  <2> HIDE DEF all, n
  <2>2. ~(all > MaxCtCandidates) => all <= MaxCtCandidates
    BY <2>1
  <2> QED
    BY <2>1, <2>2 DEF all
<1>5. Listed(issuances)' = n /\ Found(issuances)' = Found(issued)
  BY DEF Listed, Found
<1> HIDE DEF cut
<1>6. LogParts'
  <2>1. IsFiniteSet(asked') /\ Cardinality(asked') <= MaxCtDnsConcurrency
    BY <1>2, FS_EmptySet, LogConstants
  <2>2. logComplete' \in BOOLEAN
    BY <1>1
  <2> QED
    BY <1>1, <2>1, <2>2 DEF LogParts
<1>7. Paging' /\ Verdicts'
  BY <1>1 DEF Paging, Verdicts
<1>8. logComplete' <=> logErrors' = {}
  BY <1>1
<1>9. logComplete' => paging'.ended /\ Cardinality(Found(issued)) <= MaxCtCandidates
  BY <1>1, <1>4
<1> HIDE DEF found, n
<1>10. /\ DOMAIN found = 1 .. n /\ found = [i \in 1 .. n |-> found[i]]
       /\ \A i \in 1 .. n : /\ found[i].status = "NotChecked"
                            /\ found[i] = [name |-> Nth(Found(issued), i), status |-> found[i].status,
                                           issued |-> found[i].issued]
  BY <1>3
<1>11. Listing'
  BY <1>1, <1>5, <1>8, <1>9, <1>10 DEF Listing
<1>12. Verifying'
  <2>1. Plain' = unasked'
    BY <1>1 DEF Plain
  <2>2. DOMAIN answers' = {}
    BY <1>2
  <2>3. \A i \in DOMAIN candidates' : candidates'[i].status = "NotChecked"
    BY <1>1, <1>10
  <2> QED
    BY <1>2, <2>1, <2>2, <2>3 DEF Verifying
<1> QED
  BY <1>6, <1>7, <1>11, <1>12 DEF LogSafe

LEMMA PageFailsIsSafe ==
    ASSUME LogSafe, logAt = "page", NEW reason, PageFails(reason)
    PROVE  LogSafe'
<1>1. UNCHANGED <<issuances, paging, asked, answers>> /\ LogParts
  BY DEF PageFails, LogSafe
<1>2. CASE issuances = <<>>
  <2>1. logAt' = "failed" /\ UNCHANGED <<candidates, unasked, logErrors, logComplete>>
    BY <1>2 DEF PageFails
  <2>2. LogParts'
    BY <1>1, <2>1 DEF LogParts
  <2>3. Paging'
    BY <1>1, <1>2, <2>1 DEF LogSafe, Paging
  <2>4. Listing' /\ Verifying' /\ Verdicts'
    BY <2>1 DEF Listing, Verifying, Verdicts
  <2> QED
    BY <2>2, <2>3, <2>4 DEF LogSafe
<1>3. CASE issuances # <<>>
  <2>1. Close(issuances, FALSE, {reason})
    BY <1>3 DEF PageFails
  <2>2. Close(issuances', FALSE, {reason})
    BY <1>1, <2>1
  <2>3. issuances' \in Seq(Issuances) /\ paging' \in [pages : 0 .. MaxCtPages, ended : BOOLEAN]
    BY <1>1 DEF LogParts
  <2> QED
    BY <1>1, <2>2, <2>3, CloseIsSafe
<1> QED
  BY <1>2, <1>3

LEMMA PageReadIsSafe ==
    ASSUME LogSafe, logAt = "page", NEW response \in LogResponses, PageRead(response)
    PROVE  LogSafe'
<1> DEFINE fetched == get_bounded(response, MaxCtResponseBytes)
<1>1. LogParts /\ issuances \in Seq(Issuances) /\ response.page \in Seq(Issuances)
      /\ paging \in [pages : 0 .. MaxCtPages, ended : BOOLEAN] /\ paging.pages < MaxCtPages /\ MaxCtPages \in Nat
  BY LogConstants DEF LogSafe, LogParts
<1>2. CASE fetched # "body" \/ ~response.valid \/ (response.page # <<>> /\ ~Last(response.page).id)
  <2>1. \E reason : PageFails(reason)
    BY <1>2 DEF PageRead
  <2> QED
    BY <2>1, PageFailsIsSafe
<1>3. CASE fetched = "body" /\ response.valid /\ response.page = <<>>
  <2>1. /\ paging' = [pages |-> paging.pages + 1, ended |-> TRUE] /\ UNCHANGED <<issuances, asked, answers>>
        /\ Close(issuances, TRUE, {})
    BY <1>3 DEF PageRead
  <2>2. Close(issuances', TRUE, {})
    BY <2>1
  <2>3. paging.pages + 1 \in 0 .. MaxCtPages
    BY <1>1
  <2>4. paging' \in [pages : 0 .. MaxCtPages, ended : BOOLEAN] /\ paging'.ended
    BY <2>1, <2>3
  <2>5. issuances' \in Seq(Issuances)
    BY <1>1, <2>1
  <2> QED
    BY <2>1, <2>2, <2>4, <2>5, CloseIsSafe
<1>4. CASE fetched = "body" /\ response.valid /\ response.page # <<>> /\ Last(response.page).id
  <2>1. /\ paging' = [paging EXCEPT !.pages = @ + 1] /\ issuances' = issuances \o response.page
        /\ UNCHANGED <<asked, answers>>
        /\ IF paging.pages + 1 = MaxCtPages THEN Close(issuances', FALSE, {})
           ELSE UNCHANGED <<logAt, candidates, unasked, logErrors, logComplete>>
    BY <1>4 DEF PageRead
  <2>2. issuances' \in Seq(Issuances)
    BY <1>1, <2>1, ConcatProperties
  <2>3. paging.pages + 1 \in 0 .. MaxCtPages
    BY <1>1
  <2>4. paging' \in [pages : 0 .. MaxCtPages, ended : BOOLEAN] /\ paging'.pages = paging.pages + 1
    BY <1>1, <2>1, <2>3
  <2>5. CASE paging.pages + 1 = MaxCtPages
    BY <2>1, <2>2, <2>4, <2>5, CloseIsSafe
  <2>6. CASE paging.pages + 1 # MaxCtPages
    <3>1. UNCHANGED <<logAt, candidates, unasked, logErrors, logComplete, asked, answers>>
      BY <2>1, <2>6
    <3>2. paging'.pages < MaxCtPages
      BY <2>3, <2>4, <2>6, <1>1
    <3>3. LogParts'
      BY <1>1, <2>2, <2>4, <3>1, <3>2 DEF LogParts
    <3>4. Paging' /\ Listing' /\ Verifying' /\ Verdicts'
      BY <3>1 DEF LogSafe, Paging, Listing, Verifying, Verdicts
    <3> QED
      BY <3>3, <3>4 DEF LogSafe
  <2> QED
    BY <2>5, <2>6
<1> QED
  BY <1>2, <1>3, <1>4

LEMMA FetchPageIsSafe == ASSUME FetchSafe, LogSafe, FetchPage PROVE FetchGoesOn /\ LogSafe'
<1>1. logAt = "page" /\ ending' = ending
  BY DEF FetchPage
<1>2. PICK outcome \in ClientOutcomes :
         /\ ClientFor("certspotter", outcome)
         /\ IF outcome # "client" THEN PageFails(outcome)
            ELSE \/ \E failure \in Failures : PageFails(failure)
                 \/ ~ending.token /\ \E response \in LogResponses : PageRead(response)
  BY DEF FetchPage
<1>3. FetchGoesOn
  BY <1>1, <1>2, ClientIsSafe
<1>4. (\E reason : PageFails(reason)) \/ \E response \in LogResponses : PageRead(response)
  BY <1>2
<1>5. ASSUME NEW reason, PageFails(reason) PROVE LogSafe'
  BY <1>1, <1>5, PageFailsIsSafe
<1>6. ASSUME NEW response \in LogResponses, PageRead(response) PROVE LogSafe'
  BY <1>1, <1>6, PageReadIsSafe
<1> QED
  BY <1>3, <1>4, <1>5, <1>6

\* What is listed keeps its names when the lookups' results are put with it.
LEMMA SettledIsSafe ==
    ASSUME LogSafe, logAt = "verify", NEW statuses, NEW whole \in BOOLEAN, Settled(statuses, whole),
           UNCHANGED <<issuances, paging, asked>>, DOMAIN statuses = Plain,
           \A i \in DOMAIN statuses : /\ statuses[i] \in Conclusive \cup {"Indeterminate"}
                                      /\ whole => statuses[i] \in Conclusive
    PROVE  LogSafe'
<1> DEFINE n == Listed(issuances)
           found == Found(issuances)
<1>1. /\ logAt' = "done" /\ logComplete' = (logComplete /\ whole)
      /\ candidates' = [i \in DOMAIN candidates |->
                            IF i \in DOMAIN statuses THEN [candidates[i] EXCEPT !.status = statuses[i]] ELSE candidates[i]]
      /\ logErrors' = logErrors \cup (IF whole THEN {} ELSE {"verification incomplete"})
  BY DEF Settled
<1>2. /\ LogParts /\ Listing /\ Verifying /\ (logComplete <=> logErrors = {}) /\ logComplete \in BOOLEAN
      /\ logComplete => paging.ended /\ Cardinality(found) <= MaxCtCandidates
  BY DEF LogSafe, LogParts, Listing
<1>3. Listed(issuances)' = n /\ Found(issuances)' = found
  BY DEF Listed, Found
<1> HIDE DEF n, found
<1>4. /\ DOMAIN candidates = 1 .. n
      /\ \A i \in 1 .. n : /\ candidates[i] = [name |-> Nth(found, i), status |-> candidates[i].status,
                                              issued |-> candidates[i].issued]
                           /\ candidates[i].status = "NotChecked"
  <2>1. candidates = [i \in 1 .. n |-> candidates[i]]
    BY <1>2 DEF Listing, n
  <2>2. DOMAIN candidates = 1 .. n
    BY <2>1
  <2>3. \A i \in 1 .. n : candidates[i] = [name |-> Nth(found, i), status |-> candidates[i].status,
                                           issued |-> candidates[i].issued]
    BY <1>2 DEF Listing, n, found
  <2>4. \A i \in DOMAIN candidates : candidates[i].status = "NotChecked"
    BY <1>2 DEF Verifying
  <2> QED
    BY <2>2, <2>3, <2>4
<1>5. DOMAIN candidates' = 1 .. n /\ candidates' = [i \in 1 .. n |-> candidates'[i]]
  BY <1>1, <1>4
<1>6. ASSUME NEW i \in 1 .. n
      PROVE  /\ candidates'[i] = [name |-> Nth(found, i), status |-> candidates'[i].status,
                                  issued |-> candidates'[i].issued]
             /\ candidates'[i].name = candidates[i].name
             /\ candidates'[i].status = IF i \in Plain THEN statuses[i] ELSE "NotChecked"
  <2>1. CASE i \in Plain
    <3>1. candidates'[i] = [candidates[i] EXCEPT !.status = statuses[i]]
      BY <1>1, <1>4, <2>1
    <3>2. candidates'[i] = [name |-> Nth(found, i), status |-> statuses[i], issued |-> candidates[i].issued]
      BY <1>4, <3>1
    <3> QED
      BY <1>4, <2>1, <3>2
  <2>2. CASE i \notin Plain
    <3>1. candidates'[i] = candidates[i]
      BY <1>1, <1>4, <2>2
    <3> QED
      BY <1>4, <2>2, <3>1
  <2> QED
    BY <2>1, <2>2
<1>7. LogParts'
  BY <1>1, <1>2 DEF LogParts
<1>8. Paging' /\ Verifying'
  BY <1>1 DEF Paging, Verifying
<1>9. (logComplete' <=> logErrors' = {}) /\ (logComplete' => logComplete /\ whole)
  BY <1>1, <1>2
<1>10. Listing'
  BY <1>1, <1>2, <1>3, <1>5, <1>6, <1>9 DEF Listing, n, found
<1>11. Plain' = Plain
  BY <1>4, <1>5, <1>6 DEF Plain
<1>12. Verdicts'
  <2> SUFFICES ASSUME NEW i \in 1 .. n
               PROVE  IF i \notin Plain THEN candidates'[i].status = "NotChecked"
                      ELSE candidates'[i].status \in IF logComplete' THEN Conclusive ELSE Conclusive \cup {"Indeterminate"}
    BY <1>5, <1>11 DEF Verdicts
  <2>1. CASE i \in Plain
    <3>1. candidates'[i].status = statuses[i]
      BY <1>6, <2>1
    <3>2. statuses[i] \in Conclusive \cup {"Indeterminate"} /\ (logComplete' => statuses[i] \in Conclusive)
      <4>1. i \in DOMAIN statuses
        BY <2>1
      <4>2. statuses[i] \in Conclusive \cup {"Indeterminate"}
        BY <4>1
      <4>3. whole => statuses[i] \in Conclusive
        BY <4>1
      <4> QED
        BY <1>9, <4>2, <4>3
    <3> QED
      BY <2>1, <3>1, <3>2
  <2>2. CASE i \notin Plain
    BY <1>6, <2>2
  <2> QED
    BY <2>1, <2>2
<1> QED
  BY <1>7, <1>8, <1>10, <1>12 DEF LogSafe

LEMMA AskIsSafe == ASSUME LogSafe, Ask PROVE LogSafe'
<1> DEFINE least == Min(unasked)
<1>1. /\ logAt = "verify" /\ unasked # {} /\ Cardinality(asked) < MaxCtDnsConcurrency
      /\ asked' = asked \cup {least} /\ unasked' = unasked \ {least}
      /\ UNCHANGED <<logAt, issuances, paging, candidates, answers, logErrors, logComplete>>
      /\ LogParts /\ Listing /\ Verifying
  BY DEF Ask, LogSafe
<1>2. unasked \subseteq Nat
  <2>1. unasked \subseteq DOMAIN candidates
    BY <1>1 DEF Verifying, Plain
  <2>2. DOMAIN candidates = 1 .. Listed(issuances)
    BY <1>1 DEF Listing
  <2>3. 1 .. Listed(issuances) \subseteq Nat
    <3> DEFINE n == Listed(issuances)
    <3>1. n \in Nat
      BY <1>1, KeptIsLesser DEF LogParts
    <3> HIDE DEF n
    <3>2. 1 .. n \subseteq Nat
      BY <3>1
    <3> QED
      BY <3>2 DEF n
  <2> QED
    BY <2>1, <2>2, <2>3
<1>3. least \in unasked
  BY <1>1, <1>2, LeastNatural
<1> HIDE DEF least
<1>4. IsFiniteSet(asked') /\ Cardinality(asked') <= MaxCtDnsConcurrency
  <2>1. IsFiniteSet(asked) /\ Cardinality(asked) \in Nat
    BY <1>1, FS_CardinalityType DEF LogParts
  <2>2. IsFiniteSet(asked') /\ Cardinality(asked') \in {Cardinality(asked), Cardinality(asked) + 1}
    BY <1>1, <2>1, FS_AddElement
  <2> QED
    BY <1>1, <2>1, <2>2, LogConstants
<1>5. LogParts'
  BY <1>1, <1>4 DEF LogParts
<1>6. Paging' /\ Verdicts'
  BY <1>1 DEF Paging, Verdicts
<1>7. Listing'
  BY <1>1 DEF Listing, Listed, Found
<1>8. Verifying'
  BY <1>1, <1>3 DEF Verifying, Plain
<1> QED
  BY <1>5, <1>6, <1>7, <1>8 DEF LogSafe

LEMMA AnsweredIsSafe == ASSUME LogSafe, Answered PROVE LogSafe'
<1>1. PICK i \in asked : Answer(i)
  BY DEF Answered
<1>2. /\ logAt = "verify" /\ asked' = asked \ {i} /\ LogParts /\ Listing /\ Verifying
      /\ UNCHANGED <<logAt, issuances, paging, candidates, unasked, logErrors, logComplete>>
  BY <1>1 DEF Answered, Answer, LogSafe
<1>3. PICK answer \in Conclusive \cup {"Indeterminate"} :
         answers' = [j \in DOMAIN answers \cup {i} |-> IF j = i THEN answer ELSE answers[j]]
  BY <1>1 DEF Answer
<1>4. IsFiniteSet(asked') /\ Cardinality(asked') <= MaxCtDnsConcurrency
  <2>1. IsFiniteSet(asked) /\ Cardinality(asked) \in Nat /\ Cardinality(asked) <= MaxCtDnsConcurrency
    BY <1>2, FS_CardinalityType DEF LogParts
  <2>2. asked' \in SUBSET asked
    BY <1>2
  <2>3. IsFiniteSet(asked') /\ Cardinality(asked') <= Cardinality(asked)
    BY <2>1, <2>2, FS_Subset
  <2>4. Cardinality(asked') \in Nat
    BY <2>3, FS_CardinalityType
  <2> QED
    BY <2>1, <2>3, <2>4, LogConstants
<1>5. LogParts'
  BY <1>2, <1>4 DEF LogParts
<1>6. Paging' /\ Verdicts'
  BY <1>2 DEF Paging, Verdicts
<1>7. Listing'
  BY <1>2 DEF Listing, Listed, Found
<1>8. Verifying'
  <2>1. DOMAIN answers' = DOMAIN answers \cup {i}
    BY <1>3
  <2>2. unasked' \cup asked' \cup DOMAIN answers' = Plain
    BY <1>2, <2>1 DEF Verifying
  <2>3. \A j \in DOMAIN answers' : answers'[j] \in Conclusive \cup {"Indeterminate"}
    BY <1>2, <1>3 DEF Verifying
  <2>4. Plain' = Plain
    BY <1>2 DEF Plain
  <2> QED
    BY <1>2, <2>2, <2>3, <2>4 DEF Verifying
<1> QED
  BY <1>5, <1>6, <1>7, <1>8 DEF LogSafe

LEMMA LogUndisturbed == ASSUME LogSafe, UNCHANGED logOnly PROVE LogSafe'
<1>1. UNCHANGED <<logAt, issuances, paging, candidates, unasked, asked, answers, logErrors, logComplete>>
  BY DEF logOnly
<1>2. LogParts'
  BY <1>1 DEF LogSafe, LogParts
<1>3. Paging'
  BY <1>1 DEF LogSafe, Paging
<1>4. Listing'
  <2>1. Listing
    BY DEF LogSafe
  <2> QED
    BY <1>1, <2>1 DEF Listing
<1>5. Plain' = Plain
  BY <1>1 DEF Plain
<1>6. Verifying' /\ Verdicts'
  BY <1>1, <1>5 DEF LogSafe, Verifying, Verdicts
<1> QED
  BY <1>2, <1>3, <1>4, <1>6 DEF LogSafe

LEMMA LogStepIsSafe == ASSUME FetchSafe, LogSafe, LogNext PROVE FetchGoesOn /\ LogSafe'
<1>1. CASE FetchPage
  BY <1>1, FetchPageIsSafe
<1>2. CASE NoResolver
  <2> DEFINE statuses == [i \in unasked |-> "Indeterminate"]
  <2>1. /\ logAt = "verify" /\ asked = {} /\ answers = <<>> /\ Settled(statuses, FALSE)
        /\ UNCHANGED <<issuances, paging, asked, answers, fetchVars>>
    BY <1>2 DEF NoResolver
  <2>2. unasked = Plain
    <3>1. unasked \cup asked \cup DOMAIN answers = Plain
      BY <2>1 DEF LogSafe, Verifying
    <3>2. DOMAIN answers = {}
      BY <2>1
    <3> QED
      BY <2>1, <3>1, <3>2
  <2>3. DOMAIN statuses = Plain /\ \A i \in DOMAIN statuses : statuses[i] \in Conclusive \cup {"Indeterminate"}
    BY <2>2
  <2> HIDE DEF statuses
  <2>4. LogSafe'
    BY <2>1, <2>3, SettledIsSafe
  <2> QED
    BY <2>1, <2>4, UnchangedIsSafe
<1>3. CASE Ask
  BY <1>3, AskIsSafe, UnchangedIsSafe DEF Ask
<1>4. CASE Answered
  BY <1>4, AnsweredIsSafe, UnchangedIsSafe DEF Answered, Answer
<1>5. CASE Verified
  <2> DEFINE whole == \A i \in DOMAIN answers : answers[i] # "Indeterminate"
  <2>1. /\ logAt = "verify" /\ unasked = {} /\ asked = {} /\ Settled(answers, whole)
        /\ UNCHANGED <<issuances, paging, unasked, asked, answers, fetchVars>>
    BY <1>5 DEF Verified
  <2>2. DOMAIN answers = Plain /\ \A i \in DOMAIN answers : answers[i] \in Conclusive \cup {"Indeterminate"}
    BY <2>1 DEF LogSafe, Verifying
  <2>3. whole \in BOOLEAN /\ \A i \in DOMAIN answers : whole => answers[i] \in Conclusive
    BY <2>2
  <2> HIDE DEF whole
  <2>4. LogSafe'
    BY <2>1, <2>2, <2>3, SettledIsSafe
  <2> QED
    BY <2>1, <2>4, UnchangedIsSafe
<1>6. CASE EndLog
  <2>1. /\ EndSource
        /\ UNCHANGED <<logAt, issuances, paging, candidates, unasked, asked, answers, logErrors, logComplete>>
    BY <1>6 DEF EndLog
  <2>2. LogSafe'
    <3>1. UNCHANGED logOnly
      BY <2>1 DEF logOnly
    <3> QED
      BY <3>1, LogUndisturbed
  <2> QED
    BY <2>1, <2>2, StopIsSafe
<1> QED
  BY <1>1, <1>2, <1>3, <1>4, <1>5, <1>6 DEF LogNext, LogStep

\* What the invariant says of the log's observation.
LEMMA LogIsTold ==
    ASSUME LogSafe
    PROVE  CompleteLogIsWhole /\ PagesAreKept /\ (FetchTypeOK => LogTypeOK)
<1> DEFINE n == Listed(issuances)
           found == Found(issuances)
<1>1. /\ LogParts /\ n \in Nat /\ n <= MaxCtCandidates /\ found \subseteq Names /\ IsFiniteSet(found)
      /\ Cardinality(found) <= MaxCtCandidates => n = Cardinality(found)
      /\ n = Min({MaxCtCandidates, Cardinality(found)})
  BY KeptIsLesser, FoundIsFinite DEF LogSafe, LogParts
<1>2. ASSUME logAt \in {"verify", "done"}
      PROVE  /\ DOMAIN candidates = 1 .. n /\ Len(candidates) = n
             /\ \A i \in 1 .. n : candidates[i].name = Nth(found, i)
             /\ logComplete => paging.ended /\ n = Cardinality(found)
             /\ logComplete <=> logErrors = {}
  <2>1. /\ candidates = [i \in 1 .. n |-> candidates[i]]
        /\ \A i \in 1 .. n : candidates[i] = [name |-> Nth(found, i), status |-> candidates[i].status,
                                             issued |-> candidates[i].issued]
        /\ logComplete => paging.ended /\ Cardinality(found) <= MaxCtCandidates
        /\ logComplete <=> logErrors = {}
    BY <1>2 DEF LogSafe, Listing
  <2> HIDE DEF n, found
  <2>2. Len(candidates) = n
    BY <1>1, <2>1, LengthIs
  <2>3. DOMAIN candidates = 1 .. n
    BY <2>1
  <2>4. \A i \in 1 .. n : candidates[i].name = Nth(found, i)
    BY <2>1
  <2> QED
    BY <1>1, <2>1, <2>2, <2>3, <2>4
<1>3. logAt = "done" => /\ \A i \in DOMAIN candidates : candidates[i].name.wildcard <=> candidates[i].status = "NotChecked"
                        /\ logComplete => \A i \in DOMAIN candidates :
                              candidates[i].name.wildcard \/ candidates[i].status \in Conclusive
  BY DEF LogSafe, Verdicts, Plain, Conclusive
<1>4. ASSUME logAt = "done", logComplete
      PROVE  {candidates[i].name : i \in DOMAIN candidates} = found
  <2>1. /\ \A i \in 1 .. n : Nth(found, i) \in found
        /\ \A x \in found : \E i \in 1 .. n : Nth(found, i) = x
    <3>1. n = Cardinality(found)
      BY <1>2, <1>4
    <3> HIDE DEF n, found
    <3>2. /\ \A i \in 1 .. Cardinality(found) : Nth(found, i) \in found
          /\ \A x \in found : \E i \in 1 .. Cardinality(found) : Nth(found, i) = x
      BY <1>1, NthIsFound
    <3> QED
      BY <3>1, <3>2
  <2> HIDE DEF n, found
  <2> QED
    BY <1>2, <1>4, <2>1
<1>5. CompleteLogIsWhole
  BY <1>2, <1>3, <1>4 DEF CompleteLogIsWhole
<1>6. PagesAreKept
  <2>1. logAt = "failed" => issuances = <<>>
    BY DEF LogSafe, Paging
  <2> QED
    BY <1>1, <1>2, <1>3, <2>1 DEF PagesAreKept
<1>7. FetchTypeOK => LogTypeOK
  <2>1. logAt \in {"page", "failed"} => DOMAIN candidates = {} /\ Len(candidates) = 0
    BY DEF LogSafe, Paging
  <2>2. Len(candidates) <= MaxCtCandidates
    <3> HIDE DEF n
    <3> QED
      BY <1>1, <1>2, <2>1, LogConstants DEF LogParts
  <2>3. \A i \in DOMAIN candidates : candidates[i].status \in Conclusive \cup {"NotChecked", "Indeterminate"}
    BY <1>1, <2>1 DEF LogSafe, LogParts, Verifying, Verdicts
  <2> QED
    BY <1>1, <2>2, <2>3 DEF LogTypeOK, LogParts
<1> QED
  BY <1>5, <1>6, <1>7

-----------------------------------------------------------------------------
(* Related domains                                                         *)

\* An answer of the service: the names that parse, and whether it may be cut.
FullAnswer(f) ==
    /\ f.state = "ok" /\ f.names \subseteq Nat \ {0}
    /\ ~f.cut => IsFiniteSet(f.names) /\ Cardinality(f.names) < MaxRelatedDomains

RelatedSafe ==
    /\ relatedAt \in {"begin", "client", "join", "done", "failed"} /\ related.candidates \subseteq Nat \ {0, TargetName}
    /\ IF relatedAt \in {"begin", "failed"} THEN Cardinality(DOMAIN fetches) \in {0, 2}
       ELSE /\ DOMAIN fetches = nameservers /\ Cardinality(nameservers) = 2
            /\ \A ns \in nameservers : fetches[ns].state \in {"none", "failed"} \/ FullAnswer(fetches[ns])
    /\ RelatedAtBoth

LEMMA RelatedStarts == ASSUME RelatedInit PROVE FetchSafe /\ RelatedSafe
<1>1. FetchSafe
  BY DEF RelatedInit, FetchInit, FetchSafe, FetchTypeOK, PinnedIsPublic
<1>2. DOMAIN fetches = {} /\ related.candidates = {} /\ relatedAt = "begin"
  BY DEF RelatedInit
<1>3. Cardinality(DOMAIN fetches) = 0
  BY <1>2, FS_EmptySet
<1> QED
  BY <1>1, <1>2, <1>3 DEF RelatedSafe, RelatedAtBoth

LEMMA ReverseIsFull ==
    ASSUME NEW response \in ReverseResponses
    PROVE  LET f == fetch_reverse_ns(response) IN f.state = "failed" \/ FullAnswer(f)
<1> DEFINE names == response.names
           read == SubSeq(names, 1, Min({Len(names), MaxRelatedDomains}))
           all == ToSet(read) \ {0}
           cut == Len(names) >= MaxRelatedDomains
           f == fetch_reverse_ns(response)
<1>1. names \in Seq(Nat) /\ Len(names) \in Nat /\ MaxRelatedDomains \in Nat
  <2>1. names \in Seq(Nat) /\ MaxRelatedDomains \in Nat
    BY RelatedAssumption
  <2> HIDE DEF names
  <2> QED
    BY <2>1
<1>2. f = [state |-> "failed"] \/ f = [state |-> "ok", cut |-> cut, names |-> all]
  BY DEF fetch_reverse_ns
<1> DEFINE most == Min({Len(names), MaxRelatedDomains})
<1>3. most \in Nat /\ most <= Len(names) /\ (~cut => most < MaxRelatedDomains)
  <2> DEFINE len == Len(names)
  <2>1. len \in Nat
    BY <1>1
  <2> HIDE DEF len
  <2>2. Min({len, MaxRelatedDomains}) = IF len <= MaxRelatedDomains THEN len ELSE MaxRelatedDomains
    BY <1>1, <2>1, LesserOfTwo
  <2> HIDE DEF Min
  <2> QED
    BY <1>1, <2>1, <2>2 DEF len
<1>4. read = SubSeq(names, 1, most)
  OBVIOUS
<1> HIDE DEF most, read, names, cut
<1>5. read \in Seq(Nat) /\ Len(read) = most
  BY <1>1, <1>3, <1>4, SubSeqProperties
<1>6. DOMAIN read = 1 .. most /\ \A i \in 1 .. most : read[i] \in Nat
  BY <1>5
<1>7. ToSet(read) = {read[i] : i \in 1 .. most}
  BY <1>6 DEF ToSet
<1>8. IsFiniteSet(ToSet(read)) /\ Cardinality(ToSet(read)) <= most
  BY <1>3, <1>6, <1>7, MembersAreFew
<1>9. all \subseteq Nat \ {0}
  BY <1>6, <1>7
<1>10. IsFiniteSet(all) /\ (~cut => Cardinality(all) < MaxRelatedDomains)
  <2>1. all \in SUBSET ToSet(read)
    OBVIOUS
  <2> HIDE DEF all
  <2>2. IsFiniteSet(all) /\ Cardinality(all) <= Cardinality(ToSet(read))
    BY <1>8, <2>1, FS_Subset
  <2>3. Cardinality(all) \in Nat /\ Cardinality(ToSet(read)) \in Nat
    BY <1>8, <2>2, FS_CardinalityType
  <2> QED
    BY <1>1, <1>3, <1>8, <2>2, <2>3
<1> HIDE DEF all, f
<1>11. f = [state |-> "ok", cut |-> cut, names |-> all] => FullAnswer(f)
  <2> SUFFICES ASSUME f = [state |-> "ok", cut |-> cut, names |-> all] PROVE FullAnswer(f)
    OBVIOUS
  <2>1. f.state = "ok" /\ f.names = all /\ f.cut = cut
    OBVIOUS
  <2> QED
    BY <1>9, <1>10, <2>1 DEF FullAnswer
<1>12. f = [state |-> "failed"] => f.state = "failed"
  OBVIOUS
<1> QED
  BY <1>2, <1>11, <1>12 DEF f

LEMMA JoinedIsSafe == ASSUME RelatedSafe, Joined PROVE RelatedSafe'
<1>1. /\ relatedAt = "join" /\ relatedAt' = "done" /\ UNCHANGED <<nameservers, fetches>>
      /\ \A ns \in nameservers : fetches[ns].state # "none"
  BY DEF Joined
<1>2. /\ DOMAIN fetches = nameservers /\ Cardinality(nameservers) = 2 /\ nameservers # {}
      /\ \A ns \in nameservers : fetches[ns].state = "failed" \/ FullAnswer(fetches[ns])
  BY <1>1, FS_EmptySet DEF RelatedSafe
<1>3. CASE \E ns \in nameservers : fetches[ns].state = "failed"
  <2> DEFINE silent == {ns \in nameservers : fetches[ns].state = "failed"}
  <2>1. related' = [candidates |-> {}, complete |-> FALSE, errors |-> silent] /\ silent # {}
    BY <1>3 DEF Joined
  <2> HIDE DEF silent
  <2>2. related'.candidates = {} /\ ~related'.complete /\ related'.errors # {}
    BY <2>1
  <2>3. RelatedAtBoth'
    BY <2>2 DEF RelatedAtBoth
  <2> QED
    BY <1>1, <1>2, <2>2, <2>3 DEF RelatedSafe, FullAnswer
<1>4. CASE ~\E ns \in nameservers : fetches[ns].state = "failed"
  <2> DEFINE shared == {n \in UNION {fetches[ns].names : ns \in nameservers} :
                            \A ns \in nameservers : n \in fetches[ns].names} \ {TargetName}
             cut == \E ns \in nameservers : fetches[ns].cut
             first == {n \in shared : Cardinality({m \in shared : m < n}) < MaxRelatedDomains}
             errors == IF cut THEN nameservers ELSE {}
  <2>1. related' = [candidates |-> first, complete |-> ~cut, errors |-> errors]
    BY <1>4 DEF Joined
  <2>2. \A ns \in nameservers : FullAnswer(fetches[ns])
    BY <1>2, <1>4
  <2>3. \A n \in first : n # TargetName /\ \A ns \in nameservers : n \in fetches[ns].names
    OBVIOUS
  <2>4. first \subseteq Nat \ {0, TargetName}
    BY <1>2, <2>2, <2>3 DEF FullAnswer
  <2>5. ~cut <=> errors = {}
    BY <1>2
  <2>6. ~cut => \A ns \in nameservers : fetches[ns].state = "ok" /\ Cardinality(fetches[ns].names) < MaxRelatedDomains
    BY <2>2 DEF FullAnswer
  <2>7. \A ns \in nameservers : fetches[ns].state = "ok"
    BY <2>2 DEF FullAnswer
  <2> HIDE DEF first, cut, errors
  <2>8. related'.candidates = first /\ related'.complete = (~cut) /\ related'.errors = errors
    BY <2>1
  <2>9. RelatedAtBoth'
    BY <1>1, <2>3, <2>5, <2>6, <2>7, <2>8 DEF RelatedAtBoth
  <2>10. \A ns \in nameservers : FullAnswer(fetches[ns])'
    BY <1>1, <2>2 DEF FullAnswer
  <2> QED
    BY <1>1, <1>2, <2>4, <2>8, <2>9, <2>10 DEF RelatedSafe
<1> QED
  BY <1>3, <1>4

LEMMA RelatedStepIsSafe == ASSUME FetchSafe, RelatedSafe, RelatedNext PROVE FetchGoesOn /\ RelatedSafe'
<1>1. CASE BeginRelated
  <2>1. /\ relatedAt = "begin" /\ UNCHANGED <<nameservers, related, fetchVars>>
        /\ \/ /\ Cardinality(nameservers) = 2 /\ relatedAt' = "client"
              /\ fetches' = [ns \in nameservers |-> [state |-> "none"]]
           \/ relatedAt' = "failed" /\ UNCHANGED fetches
    BY <1>1 DEF BeginRelated
  <2>2. CASE relatedAt' = "failed" /\ UNCHANGED fetches
    <3>1. RelatedSafe'
      BY <2>1, <2>2 DEF RelatedSafe, RelatedAtBoth
    <3> QED
      BY <2>1, <3>1, UnchangedIsSafe
  <2>3. CASE /\ Cardinality(nameservers) = 2 /\ relatedAt' = "client"
             /\ fetches' = [ns \in nameservers |-> [state |-> "none"]]
    <3>1. DOMAIN fetches' = nameservers /\ \A ns \in nameservers : fetches'[ns].state = "none"
      BY <2>3
    <3>2. RelatedSafe'
      BY <2>1, <2>3, <3>1 DEF RelatedSafe, RelatedAtBoth
    <3> QED
      BY <2>1, <3>2, UnchangedIsSafe
  <2> QED
    BY <2>1, <2>2, <2>3
<1>2. CASE RelatedClient
  <2>1. /\ relatedAt = "client" /\ UNCHANGED <<nameservers, fetches, related, ending>> /\ relatedAt' \in {"join", "failed"}
        /\ \E outcome \in ClientOutcomes : ClientFor("reverse-ns", outcome)
    BY <1>2 DEF RelatedClient
  <2>2. FetchGoesOn
    BY <2>1, ClientIsSafe
  <2>3. RelatedSafe'
    BY <2>1 DEF RelatedSafe, RelatedAtBoth, FullAnswer
  <2> QED
    BY <2>2, <2>3
<1>3. CASE ReverseAnswer
  <2>1. PICK ns \in nameservers :
           /\ relatedAt = "join" /\ UNCHANGED <<relatedAt, nameservers, related, fetchVars>>
           /\ \/ fetches' = [fetches EXCEPT ![ns] = [state |-> "failed"]]
              \/ \E response \in ReverseResponses : fetches' = [fetches EXCEPT ![ns] = fetch_reverse_ns(response)]
    BY <1>3 DEF ReverseAnswer
  <2>2. /\ DOMAIN fetches = nameservers /\ Cardinality(nameservers) = 2
        /\ \A x \in nameservers : fetches[x].state \in {"none", "failed"} \/ FullAnswer(fetches[x])
    BY <2>1 DEF RelatedSafe
  <2>3. PICK f : fetches' = [fetches EXCEPT ![ns] = f] /\ (f.state = "failed" \/ FullAnswer(f))
    <3>1. CASE fetches' = [fetches EXCEPT ![ns] = [state |-> "failed"]]
      <4> DEFINE f == [state |-> "failed"]
      <4>1. f.state = "failed" /\ fetches' = [fetches EXCEPT ![ns] = f]
        BY <3>1
      <4> QED
        BY <4>1
    <3>2. ASSUME NEW response \in ReverseResponses, fetches' = [fetches EXCEPT ![ns] = fetch_reverse_ns(response)]
          PROVE  \E f : fetches' = [fetches EXCEPT ![ns] = f] /\ (f.state = "failed" \/ FullAnswer(f))
      <4> DEFINE f == fetch_reverse_ns(response)
      <4>1. f.state = "failed" \/ FullAnswer(f)
        BY ReverseIsFull
      <4>2. fetches' = [fetches EXCEPT ![ns] = f]
        BY <3>2
      <4> HIDE DEF f
      <4> QED
        BY <4>1, <4>2
    <3> QED
      BY <2>1, <3>1, <3>2
  <2>4. /\ DOMAIN fetches' = nameservers
        /\ \A x \in nameservers : fetches'[x] = IF x = ns THEN f ELSE fetches[x]
    BY <2>2, <2>3
  <2>5. \A x \in nameservers : fetches'[x].state \in {"none", "failed"} \/ FullAnswer(fetches'[x])
    BY <2>2, <2>3, <2>4
  <2>6. \A x : FullAnswer(x)' <=> FullAnswer(x)
    BY DEF FullAnswer
  <2>7. RelatedSafe'
    BY <2>1, <2>2, <2>4, <2>5, <2>6 DEF RelatedSafe, RelatedAtBoth
  <2> QED
    BY <2>1, <2>7, UnchangedIsSafe
<1>4. CASE Joined
  BY <1>4, JoinedIsSafe, UnchangedIsSafe DEF Joined
<1>5. CASE EndRelated
  <2>1. EndSource /\ UNCHANGED <<relatedAt, nameservers, fetches, related>>
    BY <1>5 DEF EndRelated
  <2>2. UNCHANGED <<relatedAt, nameservers, fetches, related>>
    BY <2>1
  <2>3. RelatedSafe'
    BY <2>2 DEF RelatedSafe, RelatedAtBoth, FullAnswer
  <2> QED
    BY <2>1, <2>3, StopIsSafe
<1> QED
  BY <1>1, <1>2, <1>3, <1>4, <1>5 DEF RelatedNext, RelatedStep

LEMMA RelatedUndisturbed == ASSUME RelatedSafe, UNCHANGED relatedOnly PROVE RelatedSafe'
BY DEF relatedOnly, RelatedSafe, RelatedAtBoth, FullAnswer

LEMMA RelatedIsTold == ASSUME RelatedSafe, FetchTypeOK PROVE RelatedTypeOK
BY DEF RelatedSafe, RelatedTypeOK

-----------------------------------------------------------------------------
(* Supplied inputs                                                         *)

Networks == [v6 : BOOLEAN, network : Nat, length : Nat, bounded : BOOLEAN]
LookedUp == [name : Nat, dns : BOOLEAN]
Keys == {parse_dkim(records) : records \in DkimAnswers \cup {<<>>}}

\* An observation has its six parts.
Whole(g) ==
    g = [subdomains |-> g.subdomains, dkim |-> g.dkim, networks |-> g.networks, candidates |-> g.candidates,
         complete |-> g.complete, errors |-> g.errors]

SuppliedParts ==
    /\ suppliedAt \in {"begin", "names", "selectors", "done", "failed"}
    /\ supplied.names \in Seq([name : Nat, under : BOOLEAN]) /\ supplied.selectors \in Seq([valid : BOOLEAN])
    /\ supplied.bundle # <<>> => supplied.bundle[1] \in Bundles /\ parse_bundle(supplied.bundle[1])
    /\ Whole(gathered) /\ gathered.subdomains \in Seq(LookedUp) /\ gathered.dkim \in Seq(Keys)

Upcoming ==
    /\ next \in Nat \ {0} /\ (next <= 1 + Len(supplied.names) \/ next <= 1 + Len(supplied.selectors))
    /\ suppliedAt \in {"begin", "names"} => /\ next = Len(gathered.subdomains) + 1 /\ gathered.dkim = <<>>
                                            /\ next <= 1 + Len(supplied.names)
    /\ suppliedAt = "selectors" => next = Len(gathered.dkim) + 1 /\ next <= 1 + Len(supplied.selectors)

NothingMissing ==
    gathered.complete =>
        /\ suppliedAt \in {"selectors", "done"} => Len(gathered.subdomains) = Len(supplied.names)
        /\ suppliedAt = "done" => Len(gathered.dkim) = Len(supplied.selectors)
        /\ \A i \in DOMAIN gathered.subdomains : gathered.subdomains[i].dns

InOrder ==
    \A i \in DOMAIN gathered.subdomains :
        supplied.names[i].under /\ supplied.names[i].name = gathered.subdomains[i].name

Unused == suppliedAt # "done" => gathered.networks = {} /\ gathered.candidates = {}

SuppliedSafe == SuppliedParts /\ Upcoming /\ NothingMissing /\ InOrder /\ Unused /\ BundleIsWhole

LEMMA SuppliedConstants ==
    /\ SubdomainLists \subseteq Seq([name : Nat, under : BOOLEAN]) /\ SelectorLists \subseteq Seq([valid : BOOLEAN])
    /\ \A b \in Bundles : b.networks \in Seq(Networks)
BY SuppliedAssumption DEF Networks

LEMMA SuppliedStarts == ASSUME SuppliedInit PROVE FetchSafe /\ SuppliedSafe
<1>1. FetchSafe
  BY DEF SuppliedInit, FetchInit, FetchSafe, FetchTypeOK, PinnedIsPublic
<1>2. /\ supplied.names \in SubdomainLists /\ supplied.selectors \in SelectorLists
      /\ supplied.bundle \in {<<>>} \cup {<<b>> : b \in Bundles}
      /\ supplied.bundle # <<>> => parse_bundle(supplied.bundle[1])
  BY DEF SuppliedInit
<1>3. supplied.bundle # <<>> => supplied.bundle[1] \in Bundles
  BY <1>2
<1>4. gathered = [subdomains |-> <<>>, dkim |-> <<>>, networks |-> {}, candidates |-> {}, complete |-> TRUE, errors |-> {}]
      /\ suppliedAt = "begin" /\ next = 1
  BY DEF SuppliedInit
<1>5. /\ gathered.subdomains = <<>> /\ gathered.dkim = <<>> /\ gathered.networks = {} /\ gathered.candidates = {}
      /\ gathered.errors = {} /\ gathered.complete = TRUE
  BY <1>4
<1>6. Whole(gathered)
  BY <1>4, <1>5 DEF Whole
<1>7. gathered.subdomains \in Seq(LookedUp) /\ gathered.dkim \in Seq(Keys) /\ Len(gathered.subdomains) = 0
      /\ DOMAIN gathered.subdomains = {}
  BY <1>5
<1>8. supplied.names \in Seq([name : Nat, under : BOOLEAN]) /\ supplied.selectors \in Seq([valid : BOOLEAN])
  BY <1>2, SuppliedConstants
<1>9. SuppliedParts
  BY <1>2, <1>3, <1>4, <1>6, <1>7, <1>8 DEF SuppliedParts
<1>10. Len(supplied.names) \in Nat
  BY <1>8, LenProperties
<1>11. Upcoming
  BY <1>4, <1>5, <1>7, <1>10 DEF Upcoming
<1>12. NothingMissing /\ InOrder /\ Unused /\ BundleIsWhole
  BY <1>4, <1>5, <1>7 DEF NothingMissing, InOrder, Unused, BundleIsWhole
<1> QED
  BY <1>1, <1>9, <1>11, <1>12 DEF SuppliedSafe

\* A host's network is the longest prefix that holds it.
LEMMA NetworkIsClosest ==
    ASSUME NEW b \in Bundles, parse_bundle(b), NEW m \in correlate_networks(b), NEW i \in DOMAIN b.networks,
           Holds(b.networks[i], m.host)
    PROVE  b.networks[i].length <= m.entry.length
<1> DEFINE networks == b.networks
<1>1. networks \in Seq(Networks) /\ Width \in Nat /\ \A j \in DOMAIN networks : networks[j].length <= Width
  BY SuppliedConstants, FetchAssumption DEF parse_bundle
<1>2. PICK h \in {h \in SeenHosts : \E j \in DOMAIN networks : Holds(networks[j], h)} :
         m = [host |-> h, entry |-> networks[Max({j \in DOMAIN networks :
                 Holds(networks[j], h) /\ \A k \in DOMAIN networks :
                     Holds(networks[k], h) => networks[k].length <= networks[j].length})]]
  BY DEF correlate_networks
<1> DEFINE holding == {j \in DOMAIN networks : Holds(networks[j], h)}
           longest == {j \in DOMAIN networks :
                 Holds(networks[j], h) /\ \A k \in DOMAIN networks :
                     Holds(networks[k], h) => networks[k].length <= networks[j].length}
           lengths == {networks[j].length : j \in holding}
           most == Max(lengths)
<1> HIDE DEF networks
<1>3. Len(networks) \in Nat /\ DOMAIN networks = 1 .. Len(networks) /\ \A j \in DOMAIN networks : networks[j].length \in Nat
  <2>1. \A n \in Networks : n.length \in Nat
    BY DEF Networks
  <2> QED
    BY <1>1, <2>1
<1>4. lengths \subseteq Nat /\ lengths # {} /\ \A n \in lengths : n <= Width
  BY <1>1, <1>2, <1>3
<1>5. most \in lengths /\ \A n \in lengths : n <= most
  <2> HIDE DEF lengths
  <2> QED
    BY <1>1, <1>4, GreatestNatural
<1> HIDE DEF most
<1>6. longest # {} /\ longest \subseteq Nat /\ \A j \in longest : j <= Len(networks)
  <2>1. PICK j \in holding : networks[j].length = most
    BY <1>5
  <2>2. \A k \in DOMAIN networks : Holds(networks[k], h) => networks[k].length <= networks[j].length
    BY <1>5, <2>1
  <2>3. j \in longest
    BY <2>1, <2>2
  <2> QED
    BY <1>3, <2>3
<1>7. Max(longest) \in longest
  <2> HIDE DEF longest
  <2> QED
    BY <1>3, <1>6, GreatestNatural
<1>8. m = [host |-> h, entry |-> networks[Max(longest)]]
  BY <1>2
<1> DEFINE last == Max(longest)
<1>9. last \in longest
  BY <1>7
<1> HIDE DEF last
<1>10. m.host = h /\ m.entry = networks[last]
  BY <1>8 DEF last
<1>11. i \in DOMAIN networks /\ Holds(networks[i], h)
  BY <1>10 DEF networks
<1>12. networks[i].length <= networks[last].length
  BY <1>9, <1>11
<1> QED
  BY <1>10, <1>12 DEF networks

LEMMA StoppedParts ==
    ASSUME NEW g, Whole(g), NEW stop
    PROVE  LET s == Stopped(g, stop)
           IN  /\ Whole(s) /\ ~s.complete /\ s.subdomains = g.subdomains /\ s.dkim = g.dkim
               /\ s.networks = g.networks /\ s.candidates = g.candidates
<1> DEFINE a == g.subdomains b == g.dkim c == g.networks d == g.candidates e == g.complete f == g.errors
           s == Stopped(g, stop)
           more == f \cup {stop}
<1>1. g = [subdomains |-> a, dkim |-> b, networks |-> c, candidates |-> d, complete |-> e, errors |-> f]
  BY DEF Whole
<1>2. s = [g EXCEPT !.complete = FALSE, !.errors = more]
  BY DEF Stopped
<1> HIDE DEF a, b, c, d, e, f, s, more
<1>3. s = [subdomains |-> a, dkim |-> b, networks |-> c, candidates |-> d, complete |-> FALSE, errors |-> more]
  BY <1>1, <1>2
<1>4. /\ s.subdomains = a /\ s.dkim = b /\ s.networks = c /\ s.candidates = d /\ s.complete = FALSE /\ s.errors = more
  BY <1>3
<1>5. Whole(s)
  BY <1>3, <1>4 DEF Whole
<1> QED
  BY <1>4, <1>5 DEF s, a, b, c, d

LEMMA CorrelatedParts ==
    ASSUME NEW g, Whole(g)
    PROVE  LET s == Correlated(g)
           IN  /\ Whole(s) /\ s.complete = g.complete /\ s.subdomains = g.subdomains /\ s.dkim = g.dkim
               /\ \/ s.networks = g.networks /\ s.candidates = g.candidates
                  \/ g.complete /\ supplied.bundle # <<>> /\ s.networks = correlate_networks(supplied.bundle[1])
<1> DEFINE a == g.subdomains b == g.dkim c == g.networks d == g.candidates e == g.complete f == g.errors
           s == Correlated(g)
           networks == correlate_networks(supplied.bundle[1])
           cves == correlate_cves(supplied.bundle[1])
<1>1. g = [subdomains |-> a, dkim |-> b, networks |-> c, candidates |-> d, complete |-> e, errors |-> f]
  BY DEF Whole
<1>2. s = g \/ (g.complete /\ supplied.bundle # <<>> /\ s = [g EXCEPT !.networks = networks, !.candidates = cves])
  BY DEF Correlated
<1>3. CASE s = g
  BY <1>3
<1>4. CASE g.complete /\ supplied.bundle # <<>> /\ s = [g EXCEPT !.networks = networks, !.candidates = cves]
  <2>1. g.complete /\ supplied.bundle # <<>>
    BY <1>4
  <2>2. s = [g EXCEPT !.networks = networks, !.candidates = cves]
    BY <1>4
  <2> HIDE DEF a, b, c, d, e, f, s, networks, cves
  <2>3. s = [subdomains |-> a, dkim |-> b, networks |-> networks, candidates |-> cves, complete |-> e, errors |-> f]
    BY <1>1, <2>2
  <2>4. /\ s.subdomains = a /\ s.dkim = b /\ s.networks = networks /\ s.candidates = cves /\ s.complete = e /\ s.errors = f
    BY <2>3
  <2>5. Whole(s)
    BY <2>3, <2>4 DEF Whole
  <2> QED
    BY <2>1, <2>4, <2>5 DEF s, a, b, e, networks
<1> QED
  BY <1>2, <1>3, <1>4

LEMMA LeaveIsSafe ==
    ASSUME SuppliedSafe, suppliedAt \in {"names", "selectors"}, UNCHANGED supplied, NEW g, Whole(g), Leave(g),
           g.subdomains = gathered.subdomains, g.dkim = gathered.dkim,
           g.networks = gathered.networks, g.candidates = gathered.candidates,
           g.complete => gathered.complete /\ next > Len(Inputs)
    PROVE  SuppliedSafe'
<1> DEFINE names == supplied.names
           selectors == supplied.selectors
           subdomains == gathered.subdomains
           dkim == gathered.dkim
<1>1. /\ SuppliedParts /\ Upcoming /\ NothingMissing /\ InOrder /\ gathered.networks = {} /\ gathered.candidates = {}
  BY DEF SuppliedSafe, Unused
<1>2. Len(names) \in Nat /\ Len(selectors) \in Nat /\ Len(subdomains) \in Nat /\ Len(dkim) \in Nat
  BY <1>1, LenProperties DEF SuppliedParts
<1>3. CASE suppliedAt = "names"
  <2>1. suppliedAt' = "selectors" /\ next' = 1 /\ gathered' = g
    BY <1>3 DEF Leave
  <2>2. SuppliedParts'
    BY <1>1, <2>1 DEF SuppliedParts
  <2>3. next = Len(subdomains) + 1 /\ dkim = <<>> /\ next <= 1 + Len(names)
    BY <1>1, <1>3 DEF Upcoming
  <2>4. Len(dkim) = 0
    BY <2>3
  <2>5. next' \in Nat \ {0} /\ next' <= 1 + Len(selectors) /\ next' = Len(dkim) + 1
    BY <1>2, <2>1, <2>4
  <2>6. Upcoming'
    BY <2>1, <2>5 DEF Upcoming
  <2>7. g.complete => Len(subdomains) = Len(names)
    <3>1. g.complete => next > Len(names)
      BY <1>3 DEF Inputs
    <3> HIDE DEF names, subdomains
    <3>2. next > Len(names) => Len(subdomains) = Len(names)
      BY <1>2, <2>3
    <3> QED
      BY <3>1, <3>2
  <2>8. NothingMissing'
    BY <1>1, <2>1, <2>7 DEF NothingMissing
  <2>9. InOrder' /\ Unused' /\ BundleIsWhole'
    BY <1>1, <2>1 DEF InOrder, Unused, BundleIsWhole
  <2> QED
    BY <2>2, <2>6, <2>8, <2>9 DEF SuppliedSafe
<1>4. CASE suppliedAt = "selectors"
  <2> DEFINE s == Correlated(g)
  <2>1. suppliedAt' = "done" /\ next' = next /\ gathered' = s
    BY <1>4 DEF Leave
  <2>2. /\ Whole(s) /\ s.complete = g.complete /\ s.subdomains = subdomains /\ s.dkim = dkim
        /\ \/ s.networks = {} /\ s.candidates = {}
           \/ g.complete /\ supplied.bundle # <<>> /\ s.networks = correlate_networks(supplied.bundle[1])
    BY <1>1, CorrelatedParts
  <2> HIDE DEF s
  <2>3. SuppliedParts'
    BY <1>1, <2>1, <2>2 DEF SuppliedParts
  <2>4. next = Len(dkim) + 1 /\ next <= 1 + Len(selectors) /\ next \in Nat \ {0}
    BY <1>1, <1>4 DEF Upcoming
  <2>5. Upcoming'
    BY <2>1, <2>4 DEF Upcoming
  <2>6. g.complete => Len(dkim) = Len(selectors)
    <3>1. g.complete => next > Len(selectors)
      BY <1>4 DEF Inputs
    <3> HIDE DEF selectors, dkim
    <3>2. next > Len(selectors) => Len(dkim) = Len(selectors)
      BY <1>2, <2>4
    <3> QED
      BY <3>1, <3>2
  <2>7. g.complete => Len(subdomains) = Len(names) /\ \A i \in DOMAIN subdomains : subdomains[i].dns
    BY <1>1, <1>4 DEF NothingMissing
  <2>8. NothingMissing'
    BY <2>1, <2>2, <2>6, <2>7 DEF NothingMissing
  <2>9. InOrder' /\ Unused'
    BY <1>1, <2>1, <2>2 DEF InOrder, Unused
  <2>10. s.networks # {} \/ s.candidates # {} => s.complete
    BY <2>2
  <2>11. ASSUME NEW m \in s.networks, NEW i \in DOMAIN supplied.bundle[1].networks,
                Holds(supplied.bundle[1].networks[i], m.host)
         PROVE  supplied.bundle[1].networks[i].length <= m.entry.length
    <3>1. supplied.bundle # <<>> /\ m \in correlate_networks(supplied.bundle[1])
      BY <2>2, <2>11
    <3>2. supplied.bundle[1] \in Bundles /\ parse_bundle(supplied.bundle[1])
      BY <1>1, <3>1 DEF SuppliedParts
    <3> QED
      BY <2>11, <3>1, <3>2, NetworkIsClosest
  <2>12. BundleIsWhole'
    BY <2>1, <2>10, <2>11 DEF BundleIsWhole
  <2> QED
    BY <2>3, <2>5, <2>8, <2>9, <2>12 DEF SuppliedSafe
<1> QED
  BY <1>3, <1>4

LEMMA StopOrEndIsSafe == ASSUME SuppliedSafe, StopOrEnd PROVE SuppliedSafe'
<1>1. suppliedAt \in {"names", "selectors"} /\ UNCHANGED supplied /\ Whole(gathered)
  BY DEF StopOrEnd, SuppliedSafe, SuppliedParts
<1>2. CASE next > Len(Inputs)
  <2>1. Leave(gathered)
    BY <1>2 DEF StopOrEnd
  <2> QED
    BY <1>1, <1>2, <2>1, LeaveIsSafe
<1>3. CASE ~(next > Len(Inputs))
  <2>1. PICK stop \in StopOf : Leave(Stopped(gathered, stop))
    BY <1>3 DEF StopOrEnd
  <2> DEFINE g == Stopped(gathered, stop)
  <2>2. /\ Whole(g) /\ ~g.complete /\ g.subdomains = gathered.subdomains /\ g.dkim = gathered.dkim
        /\ g.networks = gathered.networks /\ g.candidates = gathered.candidates
    BY <1>1, StoppedParts
  <2>3. Leave(g)
    BY <2>1
  <2> HIDE DEF g
  <2> QED
    BY <1>1, <2>2, <2>3, LeaveIsSafe
<1> QED
  BY <1>2, <1>3

LEMMA AppendIs ==
    ASSUME NEW S, NEW s \in Seq(S), NEW x \in S
    PROVE  /\ Append(s, x) \in Seq(S) /\ Len(Append(s, x)) = Len(s) + 1 /\ Len(s) \in Nat
           /\ DOMAIN Append(s, x) = 1 .. Len(s) + 1 /\ DOMAIN s = 1 .. Len(s)
           /\ \A i \in 1 .. Len(s) + 1 : Append(s, x)[i] = IF i = Len(s) + 1 THEN x ELSE s[i]
OBVIOUS

LEMMA FailIsSafe == ASSUME SuppliedSafe, Fail, suppliedAt # "done" PROVE SuppliedSafe'
<1>1. suppliedAt' = "failed" /\ UNCHANGED <<supplied, next, gathered>>
  BY DEF Fail
<1> QED
  BY <1>1 DEF SuppliedSafe, SuppliedParts, Upcoming, NothingMissing, InOrder, Unused, BundleIsWhole

LEMMA SubdomainIsSafe == ASSUME SuppliedSafe, Subdomain PROVE SuppliedSafe'
<1> DEFINE names == supplied.names
           subdomains == gathered.subdomains
           complete == gathered.complete
<1>1. /\ suppliedAt = "names" /\ next <= Len(names) /\ SuppliedParts /\ InOrder /\ NothingMissing
      /\ next \in Nat \ {0} /\ next = Len(subdomains) + 1 /\ gathered.dkim = <<>>
      /\ gathered.networks = {} /\ gathered.candidates = {}
  BY DEF Subdomain, Reached, Inputs, SuppliedSafe, Upcoming, Unused
<1>2. CASE Fail
  BY <1>1, <1>2, FailIsSafe
<1>3. ASSUME Accepted(next), NEW dns \in BOOLEAN, Kept,
             gathered' = [gathered EXCEPT !.subdomains = Append(@, [name |-> names[next].name, dns |-> dns]),
                                          !.complete = @ /\ dns]
      PROVE  SuppliedSafe'
  <2> DEFINE new == [name |-> names[next].name, dns |-> dns]
             more == Append(subdomains, new)
             all == complete /\ dns
  <2>1. names \in Seq([name : Nat, under : BOOLEAN]) /\ Len(names) \in Nat /\ next \in 1 .. Len(names)
    <3>1. names \in Seq([name : Nat, under : BOOLEAN])
      BY <1>1 DEF SuppliedParts
    <3> HIDE DEF names
    <3>2. Len(names) \in Nat
      BY <3>1, LenProperties
    <3> QED
      BY <1>1, <3>1, <3>2
  <2>2. names[next].name \in Nat
    <3> HIDE DEF names
    <3>1. names[next] \in [name : Nat, under : BOOLEAN]
      BY <2>1, ElementOfSeq
    <3> QED
      BY <3>1
  <2>3. new \in LookedUp /\ new.dns = dns /\ new.name = names[next].name
    BY <2>2 DEF LookedUp
  <2>4. subdomains \in Seq(LookedUp)
    BY <1>1 DEF SuppliedParts
  <2>5. gathered' = [gathered EXCEPT !.subdomains = more, !.complete = all]
    BY <1>3
  <2> HIDE DEF new, all, names
  <2>6. /\ more \in Seq(LookedUp) /\ Len(more) = next /\ DOMAIN more = 1 .. next /\ DOMAIN subdomains = 1 .. next - 1
        /\ \A i \in 1 .. next : more[i] = IF i = next THEN new ELSE subdomains[i]
    BY <1>1, <2>3, <2>4, AppendIs
  <2>7. Whole(gathered)
    BY <1>1 DEF SuppliedParts
  <2> HIDE DEF more, subdomains
  <2>8. gathered' = [subdomains |-> more, dkim |-> gathered.dkim, networks |-> gathered.networks,
                     candidates |-> gathered.candidates, complete |-> all, errors |-> gathered.errors]
    BY <2>5, <2>7 DEF Whole
  <2>9. /\ gathered'.subdomains = more /\ gathered'.dkim = gathered.dkim /\ gathered'.networks = gathered.networks
        /\ gathered'.candidates = gathered.candidates /\ gathered'.complete = all /\ gathered'.errors = gathered.errors
    BY <2>8
  <2>10. Whole(gathered)'
    BY <2>8, <2>9 DEF Whole
  <2>11. next' = next + 1 /\ UNCHANGED <<suppliedAt, supplied>>
    BY <1>3 DEF Kept
  <2>12. SuppliedParts'
    BY <1>1, <2>6, <2>9, <2>10, <2>11 DEF SuppliedParts
  <2>13. Upcoming'
    <3>1. next' \in Nat \ {0} /\ next' <= 1 + Len(supplied.names) /\ next' = Len(gathered'.subdomains) + 1
      BY <1>1, <2>1, <2>6, <2>9, <2>11 DEF names
    <3> QED
      BY <1>1, <2>9, <2>11, <3>1 DEF Upcoming
  <2>14. NothingMissing'
    <3>1. all => complete /\ dns
      BY DEF all
    <3>2. complete => \A i \in DOMAIN subdomains : subdomains[i].dns
      BY <1>1 DEF NothingMissing, subdomains
    <3>3. all => \A i \in DOMAIN more : more[i].dns
      <4> SUFFICES ASSUME all, NEW i \in 1 .. next PROVE more[i].dns
        BY <2>6
      <4>1. dns => new.dns
        BY DEF new
      <4>2. CASE i = next
        <5>1. more[i] = new
          BY <2>6, <4>2
        <5> QED
          BY <3>1, <4>1, <5>1
      <4>3. CASE i # next
        <5>1. more[i] = subdomains[i] /\ i \in DOMAIN subdomains
          BY <1>1, <2>6, <4>3
        <5> QED
          BY <3>1, <3>2, <5>1
      <4> QED
        BY <4>2, <4>3
    <3> QED
      BY <1>1, <2>9, <2>11, <3>3 DEF NothingMissing
  <2>15. InOrder'
    <3>1. names[next].under
      BY <1>3 DEF Accepted, names
    <3>2. \A i \in 1 .. next - 1 : names[i].under /\ names[i].name = subdomains[i].name
      BY <1>1, <2>6 DEF InOrder, subdomains, names
    <3>3. \A i \in 1 .. next : names[i].under /\ names[i].name = more[i].name
      BY <1>1, <2>3, <2>6, <3>1, <3>2
    <3> QED
      BY <2>6, <2>9, <2>11, <3>3 DEF InOrder, names
  <2>16. Unused' /\ BundleIsWhole'
    BY <1>1, <2>9 DEF Unused, BundleIsWhole
  <2> QED
    BY <2>12, <2>13, <2>14, <2>15, <2>16 DEF SuppliedSafe
<1> QED
  BY <1>2, <1>3 DEF Subdomain

LEMMA SelectorIsSafe == ASSUME SuppliedSafe, Selector PROVE SuppliedSafe'
<1> DEFINE selectors == supplied.selectors
           dkim == gathered.dkim
<1>1. /\ suppliedAt = "selectors" /\ next <= Len(selectors) /\ SuppliedParts /\ InOrder /\ NothingMissing
      /\ next \in Nat \ {0} /\ next = Len(dkim) + 1
      /\ gathered.networks = {} /\ gathered.candidates = {}
  BY DEF Selector, Reached, Inputs, SuppliedSafe, Upcoming, Unused
<1>2. CASE Fail
  BY <1>1, <1>2, FailIsSafe
<1>3. ASSUME NEW key \in Keys, Kept, NEW complete, NEW errors, complete => gathered.complete,
             gathered' = [subdomains |-> gathered.subdomains, dkim |-> Append(dkim, key), networks |-> gathered.networks,
                          candidates |-> gathered.candidates, complete |-> complete, errors |-> errors]
      PROVE  SuppliedSafe'
  <2> DEFINE more == Append(dkim, key)
  <2>1. dkim \in Seq(Keys) /\ selectors \in Seq([valid : BOOLEAN])
    BY <1>1 DEF SuppliedParts
  <2>2. more \in Seq(Keys) /\ Len(more) = next
    BY <1>1, <2>1, AppendIs
  <2>3. gathered' = [subdomains |-> gathered.subdomains, dkim |-> more, networks |-> gathered.networks,
                     candidates |-> gathered.candidates, complete |-> complete, errors |-> errors]
    BY <1>3
  <2> HIDE DEF more, dkim
  <2>4. /\ gathered'.subdomains = gathered.subdomains /\ gathered'.dkim = more /\ gathered'.networks = gathered.networks
        /\ gathered'.candidates = gathered.candidates /\ gathered'.complete = complete /\ gathered'.errors = errors
    BY <2>3
  <2>5. Whole(gathered)'
    BY <2>3, <2>4 DEF Whole
  <2>6. next' = next + 1 /\ UNCHANGED <<suppliedAt, supplied>>
    BY <1>3 DEF Kept
  <2>7. SuppliedParts'
    BY <1>1, <2>2, <2>4, <2>5, <2>6 DEF SuppliedParts
  <2>8. Upcoming'
    <3>1. Len(selectors) \in Nat
      BY <2>1, LenProperties
    <3>2. next' \in Nat \ {0} /\ next' <= 1 + Len(supplied.selectors) /\ next' = Len(gathered'.dkim) + 1
      BY <1>1, <2>2, <2>4, <2>6, <3>1
    <3> QED
      BY <1>1, <2>4, <2>6, <3>2 DEF Upcoming
  <2>9. NothingMissing'
    BY <1>1, <1>3, <2>4, <2>6 DEF NothingMissing
  <2>10. InOrder' /\ Unused' /\ BundleIsWhole'
    BY <1>1, <2>4, <2>6 DEF InOrder, Unused, BundleIsWhole
  <2> QED
    BY <2>7, <2>8, <2>9, <2>10 DEF SuppliedSafe
<1>4. Whole(gathered)
  BY <1>1 DEF SuppliedParts
<1>5. ASSUME Kept, NEW records \in DkimAnswers,
             gathered' = [gathered EXCEPT !.dkim = Append(@, parse_dkim(records))]
      PROVE  SuppliedSafe'
  <2> DEFINE key == parse_dkim(records)
             more == Append(dkim, key)
  <2>1. key \in Keys
    BY DEF Keys
  <2>2. gathered' = [gathered EXCEPT !.dkim = more]
    BY <1>5
  <2> HIDE DEF more, key
  <2>3. gathered' = [subdomains |-> gathered.subdomains, dkim |-> more, networks |-> gathered.networks,
                     candidates |-> gathered.candidates, complete |-> gathered.complete, errors |-> gathered.errors]
    BY <1>4, <2>2 DEF Whole
  <2> DEFINE complete == gathered.complete
             errors == gathered.errors
  <2>4. complete => gathered.complete
    OBVIOUS
  <2>5. gathered' = [subdomains |-> gathered.subdomains, dkim |-> Append(dkim, key), networks |-> gathered.networks,
                     candidates |-> gathered.candidates, complete |-> complete, errors |-> errors]
    BY <2>3 DEF more
  <2> HIDE DEF complete, errors
  <2> QED
    BY <1>3, <1>5, <2>1, <2>4, <2>5, Zenon
<1>6. ASSUME Kept,
             gathered' = [gathered EXCEPT !.dkim = Append(@, parse_dkim(<<>>)), !.complete = FALSE, !.errors = @ \cup {"DKIM"}]
      PROVE  SuppliedSafe'
  <2> DEFINE key == parse_dkim(<<>>)
             more == Append(dkim, key)
             errors == gathered.errors \cup {"DKIM"}
  <2>1. key \in Keys
    BY DEF Keys
  <2>2. gathered' = [gathered EXCEPT !.dkim = more, !.complete = FALSE, !.errors = errors]
    BY <1>6
  <2> HIDE DEF more, key, errors
  <2>3. gathered' = [subdomains |-> gathered.subdomains, dkim |-> more, networks |-> gathered.networks,
                     candidates |-> gathered.candidates, complete |-> FALSE, errors |-> errors]
    BY <1>4, <2>2 DEF Whole
  <2> QED
    BY <1>3, <1>6, <2>1, <2>3 DEF more
<1> QED
  BY <1>2, <1>5, <1>6 DEF Selector

LEMMA SuppliedUndisturbed == ASSUME SuppliedSafe, UNCHANGED suppliedOnly PROVE SuppliedSafe'
BY DEF suppliedOnly, SuppliedSafe, SuppliedParts, Whole, Upcoming, NothingMissing, InOrder, Unused, BundleIsWhole

LEMMA SuppliedStepIsSafe == ASSUME FetchSafe, SuppliedSafe, SuppliedNext PROVE FetchGoesOn /\ SuppliedSafe'
<1>1. CASE BeginSupplied
  <2>1. CASE Fail
    <3>1. suppliedAt # "done" /\ UNCHANGED fetchVars
      BY <1>1, <2>1 DEF BeginSupplied, Fail
    <3> QED
      BY <2>1, <3>1, FailIsSafe, UnchangedIsSafe
  <2>2. CASE suppliedAt' = "names" /\ UNCHANGED <<supplied, next, gathered, fetchVars>>
    <3>1. suppliedAt = "begin"
      BY <1>1 DEF BeginSupplied
    <3>2. SuppliedSafe'
      BY <2>2, <3>1 DEF SuppliedSafe, SuppliedParts, Upcoming, NothingMissing, InOrder, Unused, BundleIsWhole
    <3> QED
      BY <2>2, <3>2, UnchangedIsSafe
  <2> QED
    BY <1>1, <2>1, <2>2 DEF BeginSupplied
<1>2. CASE StopOrEnd
  BY <1>2, StopOrEndIsSafe, UnchangedIsSafe DEF StopOrEnd
<1>3. CASE Subdomain
  BY <1>3, SubdomainIsSafe, UnchangedIsSafe DEF Subdomain, Fail, Kept
<1>4. CASE Selector
  BY <1>4, SelectorIsSafe, UnchangedIsSafe DEF Selector, Fail, Kept
<1>5. CASE EndSupplied
  <2>1. EndSource /\ UNCHANGED <<suppliedAt, supplied, next, gathered>>
    BY <1>5 DEF EndSupplied
  <2>2. UNCHANGED suppliedOnly
    BY <2>1 DEF suppliedOnly
  <2> QED
    BY <2>1, <2>2, StopIsSafe, SuppliedUndisturbed
<1> QED
  BY <1>1, <1>2, <1>3, <1>4, <1>5 DEF SuppliedNext, SuppliedStep

\* What the invariant says of the observation.
LEMMA SuppliedIsTold ==
    ASSUME SuppliedSafe
    PROVE  CompleteInputsAnswered /\ BundleIsWhole /\ (FetchTypeOK => SuppliedTypeOK)
<1>1. SuppliedParts /\ Upcoming /\ NothingMissing /\ InOrder /\ BundleIsWhole
  BY DEF SuppliedSafe
<1>2. CompleteInputsAnswered
  BY <1>1 DEF CompleteInputsAnswered, NothingMissing, InOrder
<1>3. next \in 1 .. 1 + Max({Len(supplied.names), Len(supplied.selectors)})
  <2> DEFINE a == Len(supplied.names)
             b == Len(supplied.selectors)
  <2>1. a \in Nat /\ b \in Nat
    BY <1>1, LenProperties DEF SuppliedParts
  <2>2. next \in Nat \ {0} /\ (next <= 1 + a \/ next <= 1 + b)
    BY <1>1 DEF Upcoming
  <2> HIDE DEF a, b
  <2>3. Max({a, b}) = IF a <= b THEN b ELSE a
    BY <2>1, GreaterOfTwo
  <2> DEFINE most == Max({a, b})
  <2> HIDE DEF most
  <2>4. next \in 1 .. 1 + most
    BY <2>1, <2>2, <2>3 DEF most
  <2> QED
    BY <2>4 DEF most, a, b
<1> QED
  BY <1>1, <1>2, <1>3 DEF SuppliedTypeOK, SuppliedParts

-----------------------------------------------------------------------------
(* All of them                                                             *)

LEMMA LookupsAreTold ==
    ASSUME LookupSafe, FetchTypeOK
    PROVE  LookupTypeOK /\ AsksResponsible
<1>1. LookupParts /\ Phases /\ Responsible /\ Registered
  BY DEF LookupSafe
<1>2. asking \subseteq hosts /\ eligible_primary_addresses \subseteq hosts
  BY <1>1, HostFacts DEF LookupParts
<1>3. waiting \cup flying \subseteq [address : hosts, host : IF kind = "bgp" THEN {"collector"} ELSE STRING]
  <2> DEFINE H == IF kind = "bgp" THEN {"collector"} ELSE STRING
  <2>1. waiting \cup flying \subseteq [address : eligible_primary_addresses, host : H]
    BY <1>1 DEF LookupParts, Requests
  <2> HIDE DEF H
  <2>2. [address : eligible_primary_addresses, host : H] \subseteq [address : hosts, host : H]
    BY <1>2
  <2>3. waiting \cup flying \subseteq [address : hosts, host : H]
    BY <2>1, <2>2
  <2> QED
    BY <2>3 DEF H
<1>4. /\ registered.status \in Statuses \cup {"none"}
      /\ registered.skip \in {"none", "no address", "stopped", "incomplete"}
  <2>1. CASE lookupAt = "done"
    BY <1>1, <2>1 DEF Registered
  <2>2. CASE lookupAt # "done"
    <3>1. registered = [observations |-> {}, complete |-> TRUE, status |-> "none", skip |-> "none"]
      BY <1>1, <2>2 DEF Phases, Nothing
    <3>2. registered.status = "none" /\ registered.skip = "none"
      BY <3>1
    <3> QED
      BY <3>2
  <2> QED
    BY <2>1, <2>2
<1>5. LookupTypeOK
  BY <1>1, <1>2, <1>3, <1>4 DEF LookupTypeOK, LookupParts
<1>6. AsksResponsible
  BY <1>1 DEF Responsible, Asks, AsksResponsible
<1> QED
  BY <1>5, <1>6

\* Each check keeps its own invariant, whichever of them runs.
IInv == FetchSafe /\ LookupSafe /\ LogSafe /\ RelatedSafe /\ SuppliedSafe

LEMMA IInvStarts == SourceInit => IInv
BY LookupStarts, LogStarts, RelatedStarts, SuppliedStarts DEF SourceInit, IInv

LEMMA IInvIsInductive == IInv /\ [SourceNext]_sourceVars => IInv'
<1> SUFFICES ASSUME IInv, [SourceNext]_sourceVars PROVE IInv'
  OBVIOUS
<1> USE DEF IInv
<1>1. CASE Lookups(LookupNext)
  <2>1. LookupNext /\ UNCHANGED <<logOnly, relatedOnly, suppliedOnly>>
    BY <1>1 DEF Lookups
  <2>2. FetchGoesOn /\ LookupSafe'
    BY <2>1, LookupStepIsSafe
  <2> QED
    BY <2>1, <2>2, LogUndisturbed, RelatedUndisturbed, SuppliedUndisturbed DEF FetchGoesOn
<1>2. CASE Log(LogNext)
  <2>1. LogNext /\ UNCHANGED <<lookupsOnly, relatedOnly, suppliedOnly>>
    BY <1>2 DEF Log
  <2>2. FetchGoesOn /\ LogSafe'
    BY <2>1, LogStepIsSafe
  <2> QED
    BY <2>1, <2>2, LookupsUndisturbed, RelatedUndisturbed, SuppliedUndisturbed DEF FetchGoesOn
<1>3. CASE Related(RelatedNext)
  <2>1. RelatedNext /\ UNCHANGED <<lookupsOnly, logOnly, suppliedOnly>>
    BY <1>3 DEF Related
  <2>2. FetchGoesOn /\ RelatedSafe'
    BY <2>1, RelatedStepIsSafe
  <2> QED
    BY <2>1, <2>2, LookupsUndisturbed, LogUndisturbed, SuppliedUndisturbed DEF FetchGoesOn
<1>4. CASE Supplied(SuppliedNext)
  <2>1. SuppliedNext /\ UNCHANGED <<lookupsOnly, logOnly, relatedOnly>>
    BY <1>4 DEF Supplied
  <2>2. FetchGoesOn /\ SuppliedSafe'
    BY <2>1, SuppliedStepIsSafe
  <2> QED
    BY <2>1, <2>2, LookupsUndisturbed, LogUndisturbed, RelatedUndisturbed DEF FetchGoesOn
<1>5. CASE UNCHANGED sourceVars
  <2>1. UNCHANGED <<lookupsOnly, logOnly, relatedOnly, suppliedOnly, fetchVars>>
    BY <1>5 DEF sourceVars
  <2>2. FetchGoesOn
    BY <2>1, UnchangedIsSafe
  <2> QED
    BY <2>1, <2>2, LookupsUndisturbed, LogUndisturbed, RelatedUndisturbed, SuppliedUndisturbed DEF FetchGoesOn
<1> QED
  BY <1>1, <1>2, <1>3, <1>4, <1>5 DEF SourceNext

LEMMA IInvAlways == SourceSpec => []IInv
BY IInvStarts, IInvIsInductive, PTL DEF SourceSpec

\* No passive check asks more at once or keeps more than its limits say, and no
\* client is pinned to an address that is not public (client_for,
\* validated_destinations, and the limits of each analyze function).
THEOREM BoundedTheorem == SourceSpec => []SourcesAreBounded
<1>1. IInv => SourcesAreBounded
  BY LookupsAreTold, LogIsTold, RelatedIsTold, SuppliedIsTold
     DEF IInv, SourcesAreBounded, SourceTypeOK, FetchSafe
<1> QED
  BY <1>1, IInvAlways, PTL

\* Whatever a check calls complete has a full answer for everything it set out
\* to ask (finish_network_registrations, finish_bgp_routes, verify_ct_candidates,
\* analyze_related_domains, analyze_intelligence).
THEOREM CompleteTheorem == SourceSpec => []CompleteIsWhole
<1>1. IInv => CompleteIsWhole
  BY LogIsTold, SuppliedIsTold DEF IInv, CompleteIsWhole, LookupSafe, RelatedSafe
<1> QED
  BY <1>1, IInvAlways, PTL

\* What is kept is about the address it was asked for, the registry asked is the
\* one of the longest prefix, and so is a bundle's network (parse_rdap_response,
\* parse_bgp_response, longest_bootstrap_endpoint, correlate_networks).
THEOREM OwnTheorem == SourceSpec => []EvidenceIsItsOwn
<1>1. IInv => EvidenceIsItsOwn
  BY LookupsAreTold, SuppliedIsTold DEF IInv, EvidenceIsItsOwn, LookupSafe, FetchSafe
<1> QED
  BY <1>1, IInvAlways, PTL

\* A page that fails takes back nothing of the pages before it, and no check
\* makes the report's status better (analyze_certificate_transparency_at, finish_*).
THEOREM UndoneTheorem == SourceSpec => []NothingIsUndone
<1>1. IInv => NothingIsUndone
  BY LogIsTold DEF IInv, NothingIsUndone, LookupSafe
<1> QED
  BY <1>1, IInvAlways, PTL
=============================================================================
