---------------------------- MODULE SourceFetch ----------------------------
(***************************************************************************)
(* intelligence/http.rs: how every passive source is read.  A client is    *)
(* pinned to the addresses its host had when it was first asked for, all   *)
(* of them public; a body is read within a limit.  An address has Width    *)
(* bits (32 and 128 in the code) and a prefix is a network and a length.   *)
(***************************************************************************)
EXTENDS Naturals, Sequences, FiniteSets, FiniteSetsExt, SequencesExt

CONSTANTS
    Width,
    Reserved,            \* the prefixes that are no public destination
    Resolutions,         \* what a host name may resolve to
    MaxDnsAddresses

ASSUME FetchAssumption ==
    /\ Width \in Nat \ {0} /\ MaxDnsAddresses \in Nat
    /\ \A p \in Reserved : p.network \in 0 .. 2 ^ Width - 1 /\ p.length \in 0 .. Width
    /\ \A addresses \in Resolutions : addresses \subseteq 0 .. 2 ^ Width - 1

VARIABLES
    ending,      \* [token, overdue]: the token of the scan, its deadline
    pinned       \* the hosts a client was built for, and its addresses

fetchVars == <<ending, pinned>>

FetchTypeOK == ending \in [token : BOOLEAN, overdue : BOOLEAN] /\ \A h \in DOMAIN pinned : pinned[h] # {}
FetchInit == ending = [token |-> FALSE, overdue |-> FALSE] /\ pinned = <<>>

\* Prefix::contains, contains_v4, contains_v6: the bits above the mask are the same.
contains(prefix, address) ==
    address \div 2 ^ (Width - prefix.length) = prefix.network \div 2 ^ (Width - prefix.length)

is_public_destination(address) == \A p \in Reserved : ~contains(p, address)

validated_destinations_Bug(addresses) ==   \* one public address will do
    IF addresses = {} \/ Cardinality(addresses) > MaxDnsAddresses THEN "Resolution"
    ELSE IF \A a \in addresses : ~is_public_destination(a) THEN "Destination" ELSE "client"

validated_destinations(addresses) ==
    IF addresses = {} \/ Cardinality(addresses) > MaxDnsAddresses THEN "Resolution"
    ELSE IF \E a \in addresses : ~is_public_destination(a) THEN "Destination" ELSE "client"

Stops == {"Cancelled", "Deadline"}

\* The stops a wait may end with.  The select is biased, so a token that is set
\* wins over an answer; an answer that is there wins over the deadline.
StopOf == IF ending.token THEN {"Cancelled"} ELSE IF ending.overdue THEN {"Deadline"} ELSE {}

\* client_for: a host that has a client is not resolved again, nor is the token looked at.
\* The outcome is the client or why there is none; failing to build one is a request that fails.
ClientFor(host, outcome) ==
    IF host \in DOMAIN pinned THEN outcome = "client" /\ UNCHANGED pinned
    ELSE \/ outcome \in StopOf /\ UNCHANGED pinned
         \/ ~ending.token /\ outcome \in {"Timeout", "Resolution", "Request"} /\ UNCHANGED pinned
         \/ /\ ~ending.token
            /\ \E addresses \in Resolutions :
                  /\ outcome = validated_destinations(addresses)
                  /\ pinned' = IF outcome = "client" THEN [h \in DOMAIN pinned \cup {host} |->
                                    IF h = host THEN addresses ELSE pinned[h]] ELSE pinned
ClientOutcomes == Stops \cup {"Timeout", "Resolution", "Request", "Destination", "client"}

\* get_bounded: a response with its status and its chunks.
Size(response) == SumFunction(response.chunks)
get_bounded(response, maximum) ==
    IF ~response.success THEN "Http" ELSE IF Size(response) > maximum THEN "TooLarge" ELSE "body"

\* The failures of a request that no response explains.
Failures == IF ending.token THEN {"Cancelled"} ELSE StopOf \cup {"Timeout", "Request"}

EndSource == /\ \E cause \in {"token", "overdue"} : ~ending[cause] /\ ending' = [ending EXCEPT ![cause] = TRUE]
             /\ UNCHANGED pinned

-----------------------------------------------------------------------------

\* No client is ever built for a host one of whose addresses is not public.
PinnedIsPublic == \A h \in DOMAIN pinned : \A a \in pinned[h] : is_public_destination(a)
=============================================================================
