---------------------------- MODULE DnsAnalysis ----------------------------
(***************************************************************************)
(* The parts of dns.rs, one of which runs at a time: the baseline, one of  *)
(* the checks of names, or the zone transfer (the engine awaits each).     *)
(***************************************************************************)
EXTENDS ZoneTransfer, NameChecks, DnsBaseline

VARIABLE part

dnsVars == <<part, transferVars, checkVars, baselineVars>>

DnsInit == /\ part \in {"transfer", "names", "baseline"}
           /\ TransferInit /\ CheckInit /\ BaselineInit
           /\ part # "names" => check = "dnssec" /\ family = "both" /\ names # <<>>
           /\ part # "baseline" => target = [explicit |-> TRUE, only |-> "any", fetch |-> FALSE]

TransferOnly(A) == part = "transfer" /\ A /\ UNCHANGED <<part, checkVars, baselineVars>>
NamesOnly(A) == part = "names" /\ A /\ UNCHANGED <<part, transferVars, baselineVars>>
BaselineOnly(A) == part = "baseline" /\ A /\ UNCHANGED <<part, transferVars, checkVars>>

DnsNext == TransferOnly(TransferNext) \/ NamesOnly(CheckNext) \/ BaselineOnly(BaselineNext)

\* Every await of the three has a timeout around it.
DnsWork == TransferOnly(TransferStep) \/ NamesOnly(CheckStep) \/ BaselineOnly(BaselineNext)

DnsSpec == DnsInit /\ [][DnsNext]_dnsVars /\ WF_dnsVars(DnsWork)

DnsTypeOK == part \in {"transfer", "names", "baseline"} /\ TransferTypeOK /\ CheckTypeOK /\ BaselineTypeOK

\* What is read, kept and counted stays within the limits, and what is counted
\* of a transfer is what came over the wire.
DnsIsBounded == DnsTypeOK /\ CountsAreOfFrames /\ AttemptsAreEndpoints

\* A verdict, about a transfer or about names, is only as firm as the answers it stands on.
VerdictsAreEarned == AllowedIsWhole /\ WildcardIsEarned /\ DanglingIsConclusive /\ SecureIsProved

\* The baseline shows the aliases it met in their order and hides no record.
BaselineIsTold == ChainIsPath /\ CutIsTold

\* Whatever servers and resolvers send or withhold, each part returns.
DnsEnds == <>(transferAt = "done" \/ Done \/ dns.state # "none")
=============================================================================
