----------------------------- MODULE DnsLimits -----------------------------
(* The limits that several parts of dns.rs share. *)
EXTENDS Naturals, FiniteSets

CONSTANTS MaxDnsRecords,       \* records kept of one observation, or of one probe
          MaxCnameChainHops

ASSUME DnsLimitsAssumption == MaxDnsRecords \in Nat /\ MaxCnameChainHops \in Nat

\* The first n of a set of numbers: sorted, and cut.
Least(n, numbers) == {x \in numbers : Cardinality({y \in numbers : y < x}) < n}
=============================================================================
