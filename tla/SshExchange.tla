---------------------------- MODULE SshExchange ----------------------------
(***************************************************************************)
(* ssh.rs: one look at an SSH endpoint.  The server sends what it likes,   *)
(* byte by byte, until its identification line has been read, then one     *)
(* KEXINIT packet; the inspection may be cut at any point.                 *)
(***************************************************************************)
EXTENDS Naturals, Sequences, FiniteSets, FiniteSetsExt, SequencesExt

CONSTANTS
    MaxPreBannerBytes, MaxPreBannerLines, MaxIdentificationBytes,
    MaxPacketLength,    \* MAX_PACKET_LENGTH_FIELD_VALUE
    MaxNameListBytes, MaxAlgorithmNames,
    Preferences,        \* per required list, the names the client offers, best first
    PacketLengths,      \* values a server puts into the length field
    Paddings,           \* and into the padding field
    KexInits            \* and the payloads it sends

ASSUME SshAssumption ==
    /\ MaxPreBannerBytes \in Nat /\ MaxPreBannerLines \in Nat
    /\ MaxIdentificationBytes \in 4 .. MaxPreBannerBytes
    /\ MaxPacketLength \in Nat /\ MaxNameListBytes \in Nat /\ MaxAlgorithmNames \in Nat
    /\ PacketLengths \subseteq Nat /\ Paddings \subseteq Nat
    /\ Preferences \in [1 .. 8 -> Seq(STRING \ {"none"})]   \* "none" stands for no name

VARIABLES
    sshAt,      \* where the exchange is
    line,       \* the bytes of the line being read, how they compare with "SSH-", its last byte
    preamble,   \* lines and bytes before the identification
    consumed,   \* bytes taken from the server so far
    packet,     \* length of the server's packet, and of its payload
    kexinit,    \* what the server sent
    posture     \* the analysis of the endpoint

sshVars == <<sshAt, line, preamble, consumed, packet, kexinit, posture>>

Lists == 1 .. 8   \* key exchange, host key, and cipher, MAC and compression both ways
Reported == 1 .. 6
Prefix == 4       \* the length of "SSH-"
Other == Prefix + 1
Bytes == {"prefix", "text", "cr", "lf", "control"}
Capacity == MaxPreBannerBytes + 1

Names == (UNION {ToSet(Preferences[l]) : l \in Lists}) \cup {"none"}
Postures == [outcome : {"none", "complete", "partial", "indeterminate"},
             state : {"none", "completed", "timed_out", "cancelled"},
             identified : BOOLEAN, selections : [Lists -> Names]]
NoSelections == [l \in Lists |-> "none"]

SshTypeOK ==
    /\ sshAt \in {"connect", "identification", "answer", "length", "packet", "parse", "done"}
    /\ line \in [length : 0 .. Capacity, shape : 0 .. Other, cr : BOOLEAN]
    /\ preamble \in [lines : 0 .. MaxPreBannerLines, bytes : 0 .. MaxPreBannerBytes]
    /\ consumed \in Nat /\ packet \in [length : Nat, payload : Nat]
    /\ posture \in Postures

NewLine == [length |-> 0, shape |-> 0, cr |-> FALSE]
NoKexInit == [code |-> 0]

SshInit ==
    /\ sshAt = "connect" /\ line = NewLine /\ preamble = [lines |-> 0, bytes |-> 0]
    /\ consumed = 0 /\ packet = [length |-> 0, payload |-> 0] /\ kexinit = NoKexInit
    /\ posture = [outcome |-> "none", state |-> "none", identified |-> FALSE, selections |-> NoSelections]

Ended(outcome, state, identified, selections) ==
    /\ sshAt' = "done"
    /\ posture' = [outcome |-> outcome, state |-> state, identified |-> identified, selections |-> selections]

\* ExchangeError: what was identified stays, once there is something.
Fail == Ended("indeterminate", "completed", sshAt \in {"answer", "length", "packet", "parse"}, NoSelections)

\* timeout_at, timeout and the token drop the exchange and what it had read.
Cut == /\ sshAt # "done"
       /\ \E state \in {"completed", "timed_out", "cancelled"} :
             Ended("indeterminate", state, FALSE, NoSelections)
       /\ UNCHANGED <<line, preamble, consumed, packet, kexinit>>

Connects == /\ sshAt = "connect"
            /\ \/ sshAt' = "identification" /\ UNCHANGED posture
               \/ Fail
            /\ UNCHANGED <<line, preamble, consumed, packet, kexinit>>

-----------------------------------------------------------------------------
(* read_identification *)

Shape(byte) ==
    IF line.shape = Prefix THEN Prefix
    ELSE IF line.shape < Prefix /\ byte = "prefix" THEN line.shape + 1 ELSE Other

\* A byte is refused for itself, for where it stands, or for the limit it exceeds.
Refused_Bug(byte, next) ==   \* the lines before are not counted while one is read
    \/ line.length = Capacity
    \/ line.cr /\ byte # "lf"
    \/ byte = "control"
    \/ next.shape = Prefix /\ next.length > MaxIdentificationBytes
    \/ next.shape = Other /\ next.length > MaxPreBannerBytes
    \/ byte = "lf" /\ ~line.cr
    \/ byte = "lf" /\ next.shape # Prefix /\ preamble.lines + 1 > MaxPreBannerLines

Refused(byte, next) ==
    \/ line.length = Capacity
    \/ line.cr /\ byte # "lf"
    \/ byte = "control"
    \/ next.shape = Prefix /\ next.length > MaxIdentificationBytes
    \/ next.shape = Other /\ preamble.bytes + next.length > MaxPreBannerBytes
    \/ byte = "lf" /\ ~line.cr
    \/ /\ byte = "lf" /\ next.shape # Prefix
       /\ \/ preamble.lines + 1 > MaxPreBannerLines
          \/ preamble.bytes + next.length > MaxPreBannerBytes

\* parse_identification takes the line or not; the KEXINIT is sent next.
EndLine(next) ==
    IF next.shape = Prefix
    THEN /\ \/ sshAt' = "answer" /\ UNCHANGED posture
            \/ Fail
         /\ line' = next /\ UNCHANGED preamble
    ELSE /\ preamble' = [lines |-> preamble.lines + 1, bytes |-> preamble.bytes + next.length]
         /\ line' = NewLine /\ UNCHANGED <<sshAt, posture>>

ReadByte(byte) ==
    /\ sshAt = "identification" /\ (byte = "prefix" => line.shape < Prefix)
    /\ consumed' = consumed + 1
    /\ LET next == [length |-> line.length + 1, shape |-> Shape(byte), cr |-> byte = "cr"]
       IN  IF Refused(byte, next) THEN Fail /\ UNCHANGED <<line, preamble>>
           ELSE IF byte = "lf" THEN EndLine(next)
           ELSE line' = next /\ UNCHANGED <<sshAt, preamble, posture>>
    /\ UNCHANGED <<packet, kexinit>>

\* The server closes the connection, or a write fails.
Break == /\ sshAt \in {"identification", "answer", "length", "packet"} /\ Fail
         /\ UNCHANGED <<line, preamble, consumed, packet, kexinit>>

-----------------------------------------------------------------------------
(* The key exchange messages *)

\* client_kexinit_packet: the padding of a payload of n bytes.
Padding(n) == LET short == 8 - ((5 + n) % 8) IN IF short < 4 THEN short + 8 ELSE short

WellFormed(length) == length >= 12 /\ (length + 4) % 8 = 0

SendKexInit == /\ sshAt = "answer" /\ sshAt' = "length"
               /\ UNCHANGED <<line, preamble, consumed, packet, kexinit, posture>>

ReadLength(length) ==
    /\ sshAt = "length" /\ consumed' = consumed + 4
    /\ IF length > MaxPacketLength \/ ~WellFormed(length)
       THEN Fail /\ UNCHANGED packet
       ELSE sshAt' = "packet" /\ packet' = [packet EXCEPT !.length = length] /\ UNCHANGED posture
    /\ UNCHANGED <<line, preamble, kexinit>>

ReadPacket(padding) ==
    /\ sshAt = "packet" /\ consumed' = consumed + packet.length
    /\ IF padding < 4 \/ padding >= packet.length - 1
       THEN Fail /\ UNCHANGED packet
       ELSE /\ sshAt' = "parse" /\ UNCHANGED posture
            /\ packet' = [packet EXCEPT !.payload = packet.length - padding - 1]
    /\ UNCHANGED <<line, preamble, kexinit>>

\* parse_kexinit, over ten lists of which the last two are the languages.
Needed(k) == 1 + 16 + MapThenSumSet(LAMBDA l : 4 + k.sizes[l], 1 .. 10) + 1 + 4
Parses(k, payload) ==
    /\ k.code = 20
    /\ \A l \in 1 .. 10 : /\ k.sizes[l] <= MaxNameListBytes
                          /\ k.counts[l] <= MaxAlgorithmNames
    /\ k.valid /\ k.flag \in {0, 1} /\ k.reserved = 0
    /\ Needed(k) = payload

\* select_algorithm: the client's first name that the server has too.
select_algorithm(client, server) ==
    LET common == {i \in DOMAIN client : client[i] \in server}
    IN  IF common = {} THEN "none" ELSE client[Min(common)]

\* inferred_posture asks for all eight lists and reports six of them.
inferred_posture_Bug(k) ==   \* compression is selected and then forgotten
    LET chosen == [l \in Lists |-> select_algorithm(Preferences[l], k.names[l])]
    IN  Ended(IF \A l \in Reported : chosen[l] # "none" THEN "complete" ELSE "partial", "completed",
              TRUE, [l \in Lists |-> IF l \in Reported THEN chosen[l] ELSE "none"])

inferred_posture(k) ==
    LET chosen == [l \in Lists |-> select_algorithm(Preferences[l], k.names[l])]
    IN  Ended(IF \A l \in Lists : chosen[l] # "none" THEN "complete" ELSE "partial", "completed",
              TRUE, [l \in Lists |-> IF l \in Reported THEN chosen[l] ELSE "none"])

Parse(k) == /\ sshAt = "parse" /\ kexinit' = k
            /\ IF Parses(k, packet.payload) THEN inferred_posture(k) ELSE Fail
            /\ UNCHANGED <<line, preamble, consumed, packet>>

SshStep ==
    \/ Connects \/ SendKexInit \/ Break
    \/ \E byte \in Bytes : ReadByte(byte)
    \/ \E length \in PacketLengths : ReadLength(length)
    \/ \E padding \in Paddings : ReadPacket(padding)
    \/ \E k \in KexInits : Parse(k)

SshNext == SshStep \/ Cut
SshSpec == SshInit /\ [][SshNext]_sshVars

-----------------------------------------------------------------------------

\* However a server stretches its lines, a bounded part of them is read, the line
\* buffer has room for the next byte (the check for a full one is never reached), and
\* the payload of an accepted packet is a slice that exists and is not empty.
BoundedReading ==
    /\ sshAt \in {"connect", "identification"} => consumed <= MaxPreBannerBytes + MaxIdentificationBytes
    /\ line.length < Capacity
    /\ consumed <= MaxPreBannerBytes + MaxIdentificationBytes + 1 + 4 + MaxPacketLength
    /\ sshAt = "parse" => packet.payload \in 1 .. packet.length - 5

\* A complete posture is one on which both sides agree in every list, compression too,
\* and names the client's best choice of what the server really offered; only an
\* exchange that was not cut, with a packet that parsed, has selections at all.
PostureIsEarned ==
    /\ posture.outcome = "complete" =>
          \A l \in Lists : ToSet(Preferences[l]) \cap kexinit.names[l] # {}
    /\ posture.outcome = "partial" =>
          \E l \in Lists : ToSet(Preferences[l]) \cap kexinit.names[l] = {}
    /\ posture.outcome \in {"complete", "partial"} =>
          /\ posture.state = "completed" /\ posture.identified /\ Parses(kexinit, packet.payload)
          /\ \A l \in Reported : posture.selections[l] # "none" =>
                /\ posture.selections[l] \in kexinit.names[l]
                /\ \E i \in DOMAIN Preferences[l] :
                      /\ Preferences[l][i] = posture.selections[l]
                      /\ \A j \in 1 .. i - 1 : Preferences[l][j] \notin kexinit.names[l]
    /\ posture.outcome = "indeterminate" => posture.selections = NoSelections
=============================================================================
