----------------------------- MODULE NameChecks -----------------------------
(***************************************************************************)
(* dns.rs: the three checks that ask a validating resolver about names one *)
(* lookup after the other: DNSSEC of the target, the answers of two random *)
(* children (wildcard), the destinations of the CNAME chain (dangling).    *)
(* The resolver is external: a lookup has any outcome of Answers.          *)
(***************************************************************************)
EXTENDS DnsLimits, Sequences, FiniteSetsExt, SequencesExt

CONSTANTS
    Selections,       \* the checks and address families to look at
    Answers,          \* what a lookup may return, in its time
    Chains            \* the CNAME destinations of a target, in order

Proofs == {"secure", "insecure", "bogus", "indeterminate"}

ASSUME NameChecksAssumption ==
    /\ Selections \subseteq [check : {"dnssec", "wildcard", "dangling"}, family : {"both", "4", "6", "neither"}]
    /\ Chains \subseteq Seq(STRING)
    /\ \A a \in Answers :
          \/ a.kind = "records" /\ a.records \in Seq([type : {"A", "AAAA", "CNAME", "TXT"}, value : STRING, proof : Proofs])
          \/ /\ a.kind \in {"negative", "nsec"} /\ a.code \in {"NXDomain", "NoError", "ServFail"} /\ a.proof \in Proofs
             /\ \A r \in a.authorities : r.relevant \in BOOLEAN /\ r.proof \in Proofs
          \/ a.kind = "error"

VARIABLES
    check,      \* which of the checks
    family,     \* the address family filters
    names,      \* the names to ask about
    at,         \* the position of the next lookup, or the state the check returned with
    halted,     \* [token, overdue]: the token of the scan, the deadline of the caller
    heard,      \* what the lookups of each name returned
    probes,     \* WildcardProbeResult, one per child name
    statuses,   \* of each name: an RRset's, or a destination's
    verdict     \* the status of the check

checkVars == <<check, family, names, at, halted, heard, probes, statuses, verdict>>

Addresses == CASE family = "both" -> <<"A", "AAAA">> [] family = "4" -> <<"A">>
               [] family = "6" -> <<"AAAA">> [] family = "neither" -> <<>>
QueryTypes == IF check = "wildcard" THEN Append(Addresses, "CNAME") ELSE Addresses

Done == at.step = "done"
NewProbe == [fingerprints |-> {}, all_negative |-> TRUE, conclusive |-> TRUE, limited |-> FALSE]

CheckTypeOK ==
    /\ at.step \in {"name", "ask", "wait", "done"} /\ at.name \in 1 .. Len(names) + 1 /\ at.type \in 1 .. Len(QueryTypes) + 1
    /\ at.state \in {"running", "completed", "cancelled", "timed out"} /\ (at.state # "running" <=> Done)
    /\ halted \in [token : BOOLEAN, overdue : BOOLEAN]
    /\ Len(heard) = Len(names) /\ \A i \in DOMAIN probes : Cardinality(probes[i].fingerprints) <= MaxDnsRecords
    /\ \A i \in DOMAIN statuses : statuses[i] \in Proofs \cup {"unasked", "resolved", "nxdomain", "no address"}
    /\ verdict \in Proofs \cup {"none", "not applicable", "detected", "not detected"}

-----------------------------------------------------------------------------
(* What an outcome of a lookup says.                                       *)

authenticated_negative_authorities(records) ==
    LET relevant == {r \in records : r.relevant}   \* SOA, NSEC and NSEC3
    IN  relevant # {} /\ \A r \in relevant : r.proof \in {"secure", "insecure"}

\* The code of a negative answer whose evidence is authenticated.
negative_code(answer) ==
    IF /\ answer.kind \in {"negative", "nsec"}
       /\ answer.kind = "nsec" => answer.proof \in {"secure", "insecure"}
       /\ authenticated_negative_authorities(answer.authorities)
    THEN answer.code ELSE "none"

wildcard_negative_response(answer) == negative_code(answer) \in {"NXDomain", "NoError"}

aggregate_dnssec_status(found) ==
    IF "bogus" \in found THEN "bogus" ELSE IF "indeterminate" \in found \/ found = {} THEN "indeterminate"
    ELSE IF "insecure" \in found THEN "insecure" ELSE "secure"

\* dnssec_status_from_proofs and dnssec_status_from_lookup_error
dnssec_status(answer) ==
    CASE answer.kind = "records"  -> aggregate_dnssec_status({r.proof : r \in ToSet(answer.records)})
      [] answer.kind = "nsec"     -> answer.proof
      [] answer.kind = "negative" -> aggregate_dnssec_status({r.proof : r \in answer.authorities})
      [] OTHER                    -> "indeterminate"

\* append_wildcard_answers: the record limit; the byte limit is left out.
append_wildcard_answers(records, probe) ==
    LET fresh == {i \in DOMAIN records :
                     /\ records[i].type # "TXT" /\ records[i].value \notin probe.fingerprints
                     /\ \A j \in 1 .. i - 1 : records[j].type # "TXT" => records[j].value # records[i].value}
        fit == Least(MaxDnsRecords - Cardinality(probe.fingerprints), fresh)
    IN  IF probe.limited THEN probe
        ELSE [probe EXCEPT !.fingerprints = @ \cup {records[i].value : i \in fit},
                           !.limited = fit # fresh, !.conclusive = @ /\ fit = fresh]

\* The lookup says nothing: an error, or no record that is not known yet.
inconclusive(probe) == [probe EXCEPT !.conclusive = FALSE, !.all_negative = FALSE]

wildcard_lookup(answer, probe) ==
    IF answer.kind = "records"
    THEN LET more == append_wildcard_answers(answer.records, probe)
         IN  IF more.fingerprints = probe.fingerprints THEN inconclusive(more)
             ELSE [more EXCEPT !.all_negative = FALSE]
    ELSE IF wildcard_negative_response(answer) THEN probe ELSE inconclusive(probe)

\* The outcome of one address lookup of a destination.
dangling_outcome(answer, type) ==
    IF answer.kind = "records"
    THEN IF \E r \in ToSet(answer.records) : r.type = type THEN "resolved" ELSE "indeterminate"
    ELSE CASE negative_code(answer) = "NXDomain" -> "nxdomain"
           [] negative_code(answer) = "NoError"  -> "no address"
           [] OTHER                              -> "indeterminate"

classify_dangling_outcomes(outcomes) ==
    IF "resolved" \in outcomes THEN "resolved"
    ELSE IF outcomes \in {{"nxdomain"}, {"no address"}} THEN CHOOSE o \in outcomes : TRUE
    ELSE "indeterminate"

finish_wildcard_observation(found) ==
    IF Len(found) # 2 \/ \E i \in DOMAIN found : ~found[i].conclusive \/ found[i].limited THEN "indeterminate"
    ELSE IF \A i \in 1 .. 2 : found[i].all_negative THEN "not detected"
    ELSE IF found[1].fingerprints # {} /\ found[1].fingerprints = found[2].fingerprints THEN "detected"
    ELSE "indeterminate"

-----------------------------------------------------------------------------

\* What the check reports: of the names that were asked, or of those it keeps.
Concluded(kept, found) ==
    CASE check = "dnssec"   -> aggregate_dnssec_status(ToSet(found))
      [] check = "wildcard" -> finish_wildcard_observation(kept)
      [] check = "dangling" -> "none"

Stopped(state, kept) == /\ at' = [at EXCEPT !.step = "done", !.state = state]
                        /\ probes' = kept /\ verdict' = Concluded(kept, statuses)
                        /\ UNCHANGED <<statuses, heard>>

\* DNSSEC has neither the token nor the caller's deadline: the stage drops it (ScanLifecycle).
Sees(cause) == check # "dnssec" /\ halted[cause]
Halt(kept) == \/ Sees("token") /\ Stopped("cancelled", kept)
              \/ ~Sees("token") /\ Sees("overdue") /\ Stopped("timed out", kept)

\* A destination that was classified before under another alias is not asked again.
EarlierTarget == {i \in 1 .. at.name - 1 : names[i] = names[at.name]}

NextName(kept, found) ==
    /\ probes' = kept /\ statuses' = found
    /\ IF at.name = Len(names)
       THEN at' = [at EXCEPT !.step = "done", !.state = "completed"] /\ verdict' = Concluded(kept, found)
       ELSE at' = [at EXCEPT !.step = "name", !.name = @ + 1, !.type = 1] /\ UNCHANGED verdict

BeginName ==
    /\ at.step = "name" /\ UNCHANGED <<check, family, names, halted>>
    /\ \/ check = "wildcard" /\ Halt(probes)
       \/ /\ check = "dangling" => EarlierTarget = {}
          /\ check = "wildcard" => ~halted.token /\ ~halted.overdue
          /\ at' = [at EXCEPT !.step = "ask"] /\ UNCHANGED <<verdict, statuses, heard>>
          /\ probes' = IF check = "wildcard" THEN Append(probes, NewProbe) ELSE probes
       \/ /\ check = "dangling" /\ EarlierTarget # {}
          /\ LET first == CHOOSE i \in EarlierTarget : \A j \in EarlierTarget : i <= j
             IN  NextName(probes, [statuses EXCEPT ![at.name] = statuses[first]])
          /\ UNCHANGED heard

\* The probe in progress is kept when the check stops within it.
StoppedProbes_Bug == probes   \* what it did not ask counts as answered

StoppedProbes == IF check = "wildcard" THEN [probes EXCEPT ![at.name].conclusive = FALSE] ELSE probes

\* An outcome, "error" standing for the request's own timeout as well.
Hear(answer) ==
    LET outcomes == Append(heard[at.name], answer)
        types == Addresses
    IN  /\ heard' = [heard EXCEPT ![at.name] = outcomes]
        /\ LET kept == IF check = "wildcard" THEN [probes EXCEPT ![at.name] = wildcard_lookup(answer, @)] ELSE probes
               found == CASE check = "dnssec"   -> Append(statuses, dnssec_status(answer))
                          [] check = "wildcard" -> statuses
                          [] check = "dangling" ->
                                IF at.type # Len(types) THEN statuses
                                ELSE [statuses EXCEPT ![at.name] = classify_dangling_outcomes(
                                         {dangling_outcome(outcomes[t], types[t]) : t \in DOMAIN outcomes})]
           IN  IF at.type = Len(QueryTypes) THEN NextName(kept, found)
               ELSE at' = [at EXCEPT !.step = "ask", !.type = @ + 1] /\ probes' = kept /\ statuses' = found /\ UNCHANGED verdict

\* Both stops are looked at before a lookup.
Ask ==
    /\ at.step = "ask" /\ UNCHANGED <<check, family, names, halted>>
    /\ \/ Halt(StoppedProbes)
       \/ ~Sees("token") /\ ~Sees("overdue") /\ at' = [at EXCEPT !.step = "wait"]
          /\ UNCHANGED <<heard, probes, statuses, verdict>>

\* Both end the wait for it, the token before an answer that is there.
Lookup ==
    /\ at.step = "wait" /\ UNCHANGED <<check, family, names, halted>>
    /\ \/ Halt(StoppedProbes)
       \/ ~Sees("token") /\ \E answer \in Answers : Hear(answer)

HaltCheck == /\ ~Done /\ UNCHANGED <<check, family, names, at, heard, probes, statuses, verdict>>
             /\ \E cause \in {"token", "overdue"} : ~halted[cause] /\ halted' = [halted EXCEPT ![cause] = TRUE]

\* Nothing to ask: a target that is an address, no type selected, no CNAME.
NamesOf(explicit, chain) ==
    IF explicit \/ (check # "wildcard" /\ family = "neither") THEN <<>>
    ELSE CASE check = "dnssec"   -> <<"target">>
           [] check = "wildcard" -> <<"first child", "second child">>
           [] check = "dangling" -> SubSeq(chain, 1, Min({Len(chain), MaxCnameChainHops}))

CheckInit ==
    /\ \E selection \in Selections : check = selection.check /\ family = selection.family
    /\ halted = [token |-> FALSE, overdue |-> FALSE] /\ probes = <<>>
    /\ \E explicit \in BOOLEAN, chain \in Chains : names = NamesOf(explicit, chain)
    /\ at = [step |-> IF names = <<>> THEN "done" ELSE "name", name |-> 1, type |-> 1,
             state |-> IF names = <<>> THEN "completed" ELSE "running"]
    /\ verdict = IF names = <<>> /\ check # "dangling" THEN "not applicable" ELSE "none"
    /\ heard = [i \in DOMAIN names |-> <<>>]
    /\ statuses = IF check = "dangling" THEN [i \in DOMAIN names |-> "indeterminate"] ELSE <<>>

CheckStep == BeginName \/ Ask \/ Lookup
CheckNext == CheckStep \/ HaltCheck

-----------------------------------------------------------------------------

Positive(answer) == answer.kind = "records"
Values(i) == UNION {{r.value : r \in {x \in ToSet(a.records) : x.type # "TXT"}} : a \in {y \in ToSet(heard[i]) : Positive(y)}}
AllAsked(i) == Len(heard[i]) = Len(QueryTypes)

\* A wildcard is detected only when both children were asked for every type
\* and what they answered in all is the same; it is excluded only when every
\* lookup of both came back negative with authenticated evidence.  A check
\* that stopped says neither (finish_wildcard_observation).
WildcardIsEarned ==
    check = "wildcard" =>
        /\ verdict = "detected" => /\ Values(1) = Values(2) /\ Values(1) # {} /\ AllAsked(1) /\ AllAsked(2)
                                   /\ \A i \in 1 .. 2 : \A a \in ToSet(heard[i]) : Positive(a) \/ wildcard_negative_response(a)
        /\ verdict = "not detected" => /\ AllAsked(1) /\ AllAsked(2)
                                       /\ \A i \in 1 .. 2 : \A a \in ToSet(heard[i]) :
                                             negative_code(a) \in {"NXDomain", "NoError"}
        /\ at.state \in {"cancelled", "timed out"} => verdict = "indeterminate"

\* A destination is called NXDOMAIN, the one status a finding follows from,
\* only when all the selected lookups of its name said so with authenticated
\* evidence; aliases of one name have one status; what a stop left unasked
\* stays indeterminate and what was classified before it is kept.
DanglingIsConclusive ==
    check = "dangling" =>
        \A i \in DOMAIN names :
            LET first == CHOOSE j \in 1 .. i : names[j] = names[i] /\ \A k \in 1 .. j - 1 : names[k] # names[i]
                said == [t \in DOMAIN heard[first] |-> dangling_outcome(heard[first][t], QueryTypes[t])]
            IN  /\ statuses[i] = "nxdomain" => AllAsked(first) /\ \A t \in DOMAIN said : said[t] = "nxdomain"
                /\ statuses[i] = "resolved" => \E t \in DOMAIN said : said[t] = "resolved"
                /\ ~AllAsked(first) => statuses[i] = "indeterminate"
                /\ at.state = "completed" => statuses[i] = statuses[first]

\* An answer is only called secure when every selected RRset was proved
\* secure and nothing in any answer was less than that.
SecureIsProved ==
    check = "dnssec" /\ verdict \in {"secure", "insecure"} =>
        /\ AllAsked(1)
        /\ \A a \in ToSet(heard[1]) :
              LET proofs == CASE a.kind = "records" -> {r.proof : r \in ToSet(a.records)}
                              [] a.kind = "negative" -> {r.proof : r \in a.authorities}
                              [] a.kind = "nsec" -> {a.proof} [] OTHER -> {}
              IN  proofs # {} /\ proofs \subseteq (IF verdict = "secure" THEN {"secure"} ELSE {"secure", "insecure"})

\* What the type WildcardDnsStatus says of itself: "Both random names returned
\* identical non-empty normalized answers" is detected.
IdenticalIsDetected ==
    /\ check = "wildcard" /\ at.state = "completed" /\ Len(probes) = 2
    /\ Values(1) = Values(2) /\ Values(1) # {}
    /\ \A i \in 1 .. 2 : ~probes[i].limited
    /\ \A i \in 1 .. 2 : \A a \in ToSet(heard[i]) :
          wildcard_negative_response(a) \/ (Positive(a) /\ \E r \in ToSet(a.records) : r.type # "TXT")
    => verdict = "detected"
=============================================================================
