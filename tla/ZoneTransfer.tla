---------------------------- MODULE ZoneTransfer ----------------------------
(***************************************************************************)
(* dns.rs: the zone and nameservers a target's own answers prove, and one  *)
(* AXFR attempt at every address of theirs.  A message of a transfer is    *)
(* what the attempt tells apart: whether it answers this request, its      *)
(* code and flags, its size and its records.                               *)
(***************************************************************************)
EXTENDS DnsLimits, Sequences, FiniteSetsExt, SequencesExt

CONSTANTS
    Owners,                \* owners of SOA records an answer may name
    Enclosing,             \* those that are the queried name or a parent of it
    Nameservers,           \* numbers: the order of their names
    Ips,                   \* numbers: the order of addresses
    Messages,              \* what a server may send in a frame
    MaxAxfrNameservers, MaxAxfrIpsPerNameserver, MaxAxfrEndpoints,
    MaxAxfrMessages, MaxAxfrBytes, MaxAxfrRecords

ASSUME TransferAssumption ==
    /\ Enclosing \subseteq Owners /\ Nameservers \subseteq Nat /\ Ips \subseteq Nat /\ IsFiniteSet(Ips)
    /\ {MaxAxfrNameservers, MaxAxfrIpsPerNameserver, MaxAxfrEndpoints} \subseteq Nat \ {0}
    /\ {MaxAxfrMessages, MaxAxfrBytes, MaxAxfrRecords} \subseteq Nat
    /\ \A m \in Messages :
          /\ m.ours \in BOOLEAN /\ m.question \in {"expected", "empty", "other"}
          /\ m.aa \in BOOLEAN /\ m.tc \in BOOLEAN /\ m.size \in Nat
          /\ m.answers \in Seq(STRING)

\* Records of a transfer: the zone's own SOA with one of two serials, the SOA of a child, any other.
SoaRecords == {"soa 1", "soa 2", "child soa"}
ZoneSoas == {"soa 1", "soa 2"}

VARIABLES
    transferAt,   \* where analyze_authoritative_axfr is
    found,        \* the zone, the nameservers whose addresses are still to be looked up, the endpoints
    stopped,      \* [token, overdue]: the token of the scan, the deadline of the caller
    attempt,      \* the attempt in progress
    attempts,     \* the outcomes of the attempts that returned, with their endpoints
    taken,        \* the frames the attempt has read
    transfer      \* the state of the check

transferVars == <<transferAt, found, stopped, attempt, attempts, taken, transfer>>

\* first: the serial of the opening SOA; closing: the SOA that ends the transfer was read.
NoAttempt == [outcome |-> "unreachable", code |-> "none", messages |-> 0, records |-> 0, bytes |-> 0,
              soas |-> 0, first |-> "unread", closing |-> FALSE, authoritative |-> TRUE, truncated |-> FALSE]

Outcomes == {"unreachable", "timeout", "cancelled", "incomplete", "limit exceeded", "refused",
             "not authoritative", "allowed"}

TransferTypeOK ==
    /\ transferAt \in {"soa", "ns", "start", "resolve", "connect", "read", "drain", "returned", "done"}
    /\ found.zone \in Enclosing \cup {"none"} /\ found.left \subseteq Nameservers
    /\ stopped \in [token : BOOLEAN, overdue : BOOLEAN]
    /\ attempt.outcome \in Outcomes /\ attempt.first \in {"unread", "other"} \cup ZoneSoas
    /\ attempt.closing => attempt.first \in ZoneSoas /\ attempt.soas >= 2
    /\ transfer \in {"none", "unevidenced", "skipped", "cancelled", "timed out", "completed"}
    /\ Len(attempts) <= MaxAxfrEndpoints

-----------------------------------------------------------------------------
(* The evidence: one SOA, the NS records of its owner, the addresses.      *)

\* exact_soa_zone: the one owner of an SOA that encloses the name.
exact_soa_zone(owners) == owners \cap Enclosing

LookupSoa ==
    /\ transferAt = "soa" /\ UNCHANGED <<stopped, attempt, attempts, taken>>
    /\ \E owners \in SUBSET Owners :   \* none as well when the lookup fails
          IF Cardinality(exact_soa_zone(owners)) = 1
          THEN /\ transferAt' = "ns" /\ UNCHANGED transfer
               /\ found' = [found EXCEPT !.zone = CHOOSE z \in exact_soa_zone(owners) : TRUE]
          ELSE transferAt' = "done" /\ transfer' = "unevidenced" /\ UNCHANGED found

LookupNs ==
    /\ transferAt = "ns" /\ UNCHANGED <<stopped, attempt, attempts, taken>>
    /\ \E servers \in SUBSET Nameservers :
          IF servers # {}
          THEN /\ transferAt' = "start" /\ UNCHANGED transfer
               /\ found' = [found EXCEPT !.left = Least(MaxAxfrNameservers, servers)]
          ELSE transferAt' = "done" /\ transfer' = "unevidenced" /\ UNCHANGED found

Finish(state) == transferAt' = "done" /\ transfer' = state

\* Between the evidence and the check the scan connects to ports: both stops may come.
StartTransfer ==
    /\ transferAt = "start" /\ UNCHANGED <<found, stopped, attempt, attempts, taken>>
    /\ IF stopped.token THEN Finish("cancelled")
       ELSE IF stopped.overdue THEN Finish("timed out")
       ELSE transferAt' = "resolve" /\ UNCHANGED transfer

\* The addresses in their order, while there is room; an address another
\* nameserver gave before stays that one's.
add_axfr_endpoints(endpoints, server, ips) ==
    LET fresh == Least(MaxAxfrIpsPerNameserver, ips) \ DOMAIN endpoints
        fit == Least(MaxAxfrEndpoints - Cardinality(DOMAIN endpoints), fresh)
    IN  [x \in DOMAIN endpoints \cup fit |-> IF x \in DOMAIN endpoints THEN endpoints[x] ELSE server]

Server == Min(found.left)

Resolve ==
    /\ transferAt = "resolve" /\ found.left # {} /\ UNCHANGED <<stopped, attempt, attempts, taken>>
    /\ \/ stopped.token /\ Finish("cancelled") /\ UNCHANGED found
       \/ /\ ~stopped.token /\ UNCHANGED <<transferAt, transfer>>
          /\ \E ips \in SUBSET Ips : found' = [found EXCEPT !.left = @ \ {Server},
                 !.endpoints = add_axfr_endpoints(@, Server, ips)]
       \/ /\ ~stopped.token   \* the lookup failed, or its time is over
          /\ IF stopped.overdue THEN Finish("timed out") /\ UNCHANGED found
             ELSE found' = [found EXCEPT !.left = @ \ {Server}] /\ UNCHANGED <<transferAt, transfer>>

Attempted(reports) == {reports[i].endpoint : i \in DOMAIN reports}
NextEndpoint == Min(DOMAIN found.endpoints \ Attempted(attempts))

BeginAttempts_Bug ==   \* no address at all is not thought of
    /\ transferAt = "resolve" /\ found.left = {} /\ UNCHANGED <<found, stopped, attempt, attempts, taken>>
    /\ DOMAIN found.endpoints # {} /\ transferAt' = "connect" /\ UNCHANGED transfer

BeginAttempts ==
    /\ transferAt = "resolve" /\ found.left = {} /\ UNCHANGED <<found, stopped, attempt, attempts, taken>>
    /\ IF found.endpoints = <<>> THEN Finish("skipped") ELSE transferAt' = "connect" /\ UNCHANGED transfer

-----------------------------------------------------------------------------
(* check_axfr_endpoint.  The select is biased: a token that is set is seen *)
(* before anything the stream has.                                         *)

Return(outcome) == /\ transferAt' = "returned" /\ attempt' = [attempt EXCEPT !.outcome = outcome]
                   /\ UNCHANGED <<found, stopped, attempts, taken, transfer>>

Connect == transferAt = "connect" /\ ~stopped.token /\ transferAt' = "read"
           /\ UNCHANGED <<found, stopped, attempt, attempts, taken, transfer>>

FailConnect == transferAt = "connect" /\ ~stopped.token /\ Return("unreachable")

AttemptCancelled == transferAt \in {"connect", "read", "drain"} /\ stopped.token /\ Return("cancelled")

\* The request's time is over, or the caller's; the drain has its own, below.
AttemptTimeout == transferAt \in {"connect", "read"} /\ ~stopped.token /\ Return("timeout")

\* The stream ends, or a frame of it cannot be read.
StreamEnds == transferAt = "read" /\ ~stopped.token /\ Return("incomplete")

Exceeds_Bug(message) == attempt.messages > MaxAxfrMessages \/ attempt.bytes > MaxAxfrBytes   \* looks at what it has
                        \/ attempt.records > MaxAxfrRecords

\* The counters are checked before the message that would exceed them is taken.
Exceeds(message) == \/ attempt.messages + 1 > MaxAxfrMessages
                    \/ attempt.bytes + message.size > MaxAxfrBytes
                    \/ attempt.records + Len(message.answers) > MaxAxfrRecords

\* Not this request's: by its id, its opcode or its question, which later frames may leave out.
Foreign(message) ==
    \/ ~message.ours
    \/ /\ message.question # "expected"
       /\ attempt.messages = 0 \/ message.code # "NoError" \/ message.question # "empty"

Code(message) == IF attempt.code = "none" THEN message.code ELSE attempt.code

Counted(message) == [attempt EXCEPT !.messages = @ + 1, !.bytes = @ + message.size,
                                    !.records = @ + Len(message.answers), !.code = Code(message)]

\* The records one after the other: what the opening one is, how many SOAs
\* there are up to one of them, and which of them closes the transfer.
Opening(message) == IF attempt.first # "unread" \/ message.answers = <<>> THEN attempt.first
                    ELSE IF message.answers[1] \in ZoneSoas THEN message.answers[1] ELSE "other"

SoasUpTo(message, n) == attempt.soas + Cardinality({i \in 1 .. n : message.answers[i] \in SoaRecords})

Closings(message) == {i \in DOMAIN message.answers : /\ message.answers[i] = Opening(message)
                                                     /\ Opening(message) \in ZoneSoas /\ SoasUpTo(message, i) >= 2}

Scanned(message) ==
    [Counted(message) EXCEPT
        !.first = Opening(message), !.closing = Closings(message) # {},
        !.soas = SoasUpTo(message, IF Closings(message) = {} THEN Len(message.answers) ELSE Min(Closings(message))),
        !.authoritative = @ /\ message.aa, !.truncated = @ \/ message.tc]

\* A record came after the closing SOA.
Trailing(message) == \E i \in Closings(message) : i < Len(message.answers)

Read(message) ==
    LET record == Scanned(message)
        Ends(a, outcome) == transferAt' = "returned" /\ attempt' = [a EXCEPT !.outcome = outcome]
    IN  IF Foreign(message) THEN Ends(attempt, "incomplete")
        ELSE IF Exceeds(message) THEN Ends(attempt, "limit exceeded")
        ELSE IF Code(message) # message.code THEN Ends(Counted(message), "incomplete")
        ELSE IF message.code = "Refused" THEN Ends(Counted(message), "refused")
        ELSE IF message.code = "NotAuth" THEN Ends(Counted(message), "not authoritative")
        ELSE IF message.code # "NoError" THEN Ends(Counted(message), "incomplete")
        ELSE IF Trailing(message) \/ (record.closing /\ (~record.authoritative \/ record.truncated)) THEN Ends(record, "incomplete")
        ELSE attempt' = record /\ transferAt' = IF record.closing THEN "drain" ELSE "read"

ReadMessage ==
    /\ transferAt = "read" /\ ~stopped.token /\ UNCHANGED <<found, stopped, attempts, transfer>>
    /\ \E message \in Messages : Read(message) /\ taken' = Append(taken, message)

\* After the closing SOA the attempt listens for a moment: only silence, or the end, is a whole transfer.
DrainFrame == transferAt = "drain" /\ ~stopped.token /\ Return("incomplete")

DrainSilence == transferAt = "drain" /\ ~stopped.token /\ Return("allowed")

Attempts == Append(attempts, [endpoint |-> NextEndpoint, server |-> found.endpoints[NextEndpoint],
                              outcome |-> attempt.outcome])

EndAttempt ==
    /\ transferAt = "returned" /\ attempts' = Attempts
    /\ attempt' = NoAttempt /\ taken' = <<>> /\ UNCHANGED <<found, stopped>>
    /\ IF attempt.outcome = "cancelled" THEN Finish("cancelled")
       ELSE IF stopped.overdue THEN Finish("timed out")
       ELSE IF Attempted(Attempts) = DOMAIN found.endpoints THEN Finish("completed")
       ELSE transferAt' = "connect" /\ UNCHANGED transfer

\* The scan is interrupted; the deadline passes.
StopTransfer ==
    /\ transferAt # "done" /\ UNCHANGED <<transferAt, found, attempt, attempts, taken, transfer>>
    /\ \E cause \in {"token", "overdue"} : ~stopped[cause] /\ stopped' = [stopped EXCEPT ![cause] = TRUE]

TransferInit ==
    /\ transferAt = "soa" /\ found = [zone |-> "none", left |-> {}, endpoints |-> <<>>]
    /\ stopped = [token |-> FALSE, overdue |-> FALSE]
    /\ attempt = NoAttempt /\ attempts = <<>> /\ taken = <<>> /\ transfer = "none"

TransferStep == LookupSoa \/ LookupNs \/ StartTransfer \/ Resolve \/ BeginAttempts
                \/ Connect \/ FailConnect \/ AttemptCancelled \/ AttemptTimeout \/ StreamEnds
                \/ ReadMessage \/ DrainFrame \/ DrainSilence \/ EndAttempt
TransferNext == TransferStep \/ StopTransfer

-----------------------------------------------------------------------------

\* The records of the frames, each at its place, and their bytes.
Places(messages) == UNION {{i} \X DOMAIN messages[i].answers : i \in DOMAIN messages}
RecordAt(messages, place) == messages[place[1]].answers[place[2]]
Precedes(p, q) == p[1] < q[1] \/ (p[1] = q[1] /\ p[2] < q[2])
Octets(messages) == UNION {{i} \X (1 .. messages[i].size) : i \in DOMAIN messages}

\* A transfer, said of all its frames at once: the records run from the zone's
\* SOA to the next one with that serial and stop there, in frames that are all
\* authoritative answers to this request, and within the limits.
WholeTransfer(messages) ==
    LET places == Places(messages)
    IN  /\ \E first, last \in places :
              /\ \A place \in places : ~Precedes(place, first) /\ ~Precedes(last, place)
              /\ first # last /\ last[1] = Len(messages) /\ RecordAt(messages, first) \in ZoneSoas
              /\ {p \in places : RecordAt(messages, p) = RecordAt(messages, first)} = {first, last}
        /\ messages[1].question = "expected"
        /\ \A i \in DOMAIN messages : /\ messages[i].ours /\ messages[i].question # "other"
                                      /\ messages[i].aa /\ ~messages[i].tc /\ messages[i].code = "NoError"
        /\ Len(messages) <= MaxAxfrMessages /\ Cardinality(places) <= MaxAxfrRecords
        /\ Cardinality(Octets(messages)) <= MaxAxfrBytes

\* The drain begins exactly when the frames read are a whole transfer, so
\* that no other stream is ever called an allowed transfer (check_axfr_endpoint).
AllowedIsWhole == /\ (transferAt = "drain") => WholeTransfer(taken)
                  /\ (attempt.outcome = "allowed") => WholeTransfer(taken)
                  /\ WholeTransfer(taken) => attempt.outcome \in {"allowed", "incomplete", "cancelled"}
                                             \/ transferAt = "drain"

\* The counts of an attempt are those of the frames it read, without the one
\* that would have passed a limit or was not its own, and never pass the limits.
CountsAreOfFrames ==
    LET kept == SubSeq(taken, 1, attempt.messages)
    IN  /\ Len(taken) - attempt.messages \in {0, 1} /\ attempt.messages <= MaxAxfrMessages
        /\ attempt.records = Cardinality(Places(kept)) /\ attempt.records <= MaxAxfrRecords
        /\ attempt.bytes = Cardinality(Octets(kept)) /\ attempt.bytes <= MaxAxfrBytes

\* The attempts reported are the endpoints in their order, each once; a check
\* that is completed attempted them all and was not cancelled in any, and one
\* that was cancelled while it attempted keeps the attempt that saw it.
AttemptsAreEndpoints ==
    /\ \A i, j \in DOMAIN attempts : i < j => attempts[i].endpoint < attempts[j].endpoint
    /\ \A i \in DOMAIN attempts : /\ attempts[i].endpoint \in DOMAIN found.endpoints
                                  /\ \A e \in DOMAIN found.endpoints : e < attempts[i].endpoint => e \in Attempted(attempts)
    /\ \A i \in DOMAIN attempts : attempts[i].outcome = "cancelled" => i = Len(attempts) /\ transfer = "cancelled"
    /\ transfer = "completed" => Attempted(attempts) = DOMAIN found.endpoints /\ attempts # <<>>
    /\ transfer = "cancelled" /\ attempts # <<>> => Last(attempts).outcome = "cancelled"
=============================================================================
