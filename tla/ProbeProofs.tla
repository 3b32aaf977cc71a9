---------------------------- MODULE ProbeProofs ----------------------------
(***************************************************************************)
(* What no peer can make a probe do, for every limit, every server and     *)
(* every chain of certificates.                                            *)
(***************************************************************************)
EXTENDS Probes, TLAPS, SequenceTheorems, FiniteSetTheorems, WellFoundedInduction

\* A set of naturals with a member has a least one.
LEMMA LeastNatural ==
    ASSUME NEW S, S \subseteq Nat, S # {}
    PROVE  Min(S) \in S /\ \A m \in S : Min(S) <= m
<1>1. IsWellFoundedOn(OpToRel(<, Nat), Nat)
  BY NatLessThanWellFounded
<1>2. PICK x \in S : \A y \in S : ~ (<<y, x>> \in OpToRel(<, Nat))
  BY <1>1, WFMin
<1>3. ASSUME NEW y \in S PROVE x <= y
  <2>1. ~(y < x)
    BY <1>2 DEF OpToRel
  <2> QED
    BY <2>1
<1> QED
  BY <1>3 DEF Min

-----------------------------------------------------------------------------
(* SSH: reading is bounded.                                                *)

\* How much was read, by the part of the exchange that reads.
Reading ==
    /\ sshAt = "connect" => line.length = 0 /\ preamble.bytes = 0
    /\ sshAt \in {"connect", "identification"} => consumed = preamble.bytes + line.length
    /\ line.shape < Prefix => line.length = line.shape
    /\ line.shape = Prefix => line.length <= MaxIdentificationBytes
    /\ line.shape = Other => preamble.bytes + line.length <= MaxPreBannerBytes
    /\ sshAt \in {"answer", "length"} => consumed <= MaxPreBannerBytes + MaxIdentificationBytes
    /\ sshAt = "packet" => /\ consumed <= MaxPreBannerBytes + MaxIdentificationBytes + 4
                           /\ packet.length \in 12 .. MaxPacketLength
    /\ sshAt = "parse" => packet.payload \in 1 .. packet.length - 5
    /\ consumed <= MaxPreBannerBytes + MaxIdentificationBytes + 1 + 4 + MaxPacketLength

\* The analysis says nothing before the end.
Silent == sshAt # "done" => posture.outcome = "none"

SshSafe == SshTypeOK /\ Reading /\ Silent /\ PostureIsEarned

LEMMA FailsUnidentified ==
    ASSUME Fail, sshAt \in {"connect", "identification"}
    PROVE  Ended("indeterminate", "completed", FALSE, NoSelections)
<1>1. (sshAt \in {"answer", "length", "packet", "parse"}) = FALSE
  OBVIOUS
<1> QED
  BY <1>1, Zenon DEF Fail

LEMMA FailsIdentified ==
    ASSUME Fail, sshAt \in {"answer", "length", "packet", "parse"}
    PROVE  Ended("indeterminate", "completed", TRUE, NoSelections)
<1>1. (sshAt \in {"answer", "length", "packet", "parse"}) = TRUE
  OBVIOUS
<1> QED
  BY <1>1, Zenon DEF Fail

LEMMA SshLimits ==
    /\ MaxPreBannerBytes \in Nat /\ MaxPreBannerLines \in Nat /\ MaxPacketLength \in Nat
    /\ MaxIdentificationBytes \in Nat /\ 4 <= MaxIdentificationBytes
    /\ MaxIdentificationBytes <= MaxPreBannerBytes /\ Capacity = MaxPreBannerBytes + 1 /\ Capacity \in Nat
    /\ Prefix = 4 /\ Other = 5
BY SshAssumption DEF Capacity, Prefix, Other

LEMMA ReadingIsBounded ==
    ASSUME SshTypeOK, Reading
    PROVE  BoundedReading
<1>1. /\ line.length \in Nat /\ line.shape \in 0 .. 5
      /\ preamble.bytes \in 0 .. MaxPreBannerBytes /\ consumed \in Nat
  BY SshLimits DEF SshTypeOK
<1>2. line.length < Capacity /\ preamble.bytes + line.length <= MaxPreBannerBytes + MaxIdentificationBytes
  <2>1. CASE line.shape < 4
    BY <1>1, <2>1, SshLimits DEF Reading
  <2>2. CASE line.shape = 4
    BY <1>1, <2>2, SshLimits DEF Reading
  <2>3. CASE line.shape = 5
    BY <1>1, <2>3, SshLimits DEF Reading
  <2> QED
    BY <1>1, <2>1, <2>2, <2>3
<1> QED
  BY <1>1, <1>2, SshLimits DEF Reading, BoundedReading

LEMMA PosturesHaveTheirType ==
    ASSUME NEW outcome \in {"none", "complete", "partial", "indeterminate"},
           NEW state \in {"none", "completed", "timed_out", "cancelled"},
           NEW identified \in BOOLEAN, NEW selections \in [Lists -> Names]
    PROVE  [outcome |-> outcome, state |-> state, identified |-> identified,
            selections |-> selections] \in Postures
BY DEF Postures

LEMMA NothingSelected == NoSelections \in [Lists -> Names]
<1>1. "none" \in Names
  BY DEF Names
<1> QED
  BY <1>1 DEF NoSelections

LEMMA SshInitSafe == SshInit => SshSafe
<1> SUFFICES ASSUME SshInit PROVE SshSafe
  OBVIOUS
<1>1. SshTypeOK
  <2>1. posture \in Postures
    BY PosturesHaveTheirType, NothingSelected DEF SshInit
  <2> QED
    BY <2>1, SshLimits DEF SshInit, SshTypeOK, NewLine
<1>2. Reading
  BY SshLimits DEF SshInit, Reading, NewLine
<1>3. Silent /\ PostureIsEarned
  BY DEF SshInit, Silent, PostureIsEarned
<1> QED
  BY <1>1, <1>2, <1>3 DEF SshSafe

\* An exchange that failed or was cut has no selections to answer for.
LEMMA EndedSafe ==
    ASSUME SshSafe, sshAt # "done", NEW state \in {"completed", "timed_out", "cancelled"},
           NEW identified \in BOOLEAN, Ended("indeterminate", state, identified, NoSelections),
           UNCHANGED <<line, preamble, packet, kexinit>>, consumed' \in Nat,
           consumed' <= MaxPreBannerBytes + MaxIdentificationBytes + 1 + 4 + MaxPacketLength
    PROVE  SshSafe'
<1>1. posture' \in Postures
  BY PosturesHaveTheirType, NothingSelected DEF Ended
<1>2. SshTypeOK'
  BY <1>1 DEF SshSafe, SshTypeOK, Ended
<1>3. Reading'
  BY DEF SshSafe, Reading, Ended
<1>4. Silent' /\ PostureIsEarned'
  BY DEF Silent, PostureIsEarned, Ended
<1> QED
  BY <1>2, <1>3, <1>4 DEF SshSafe

\* A step that goes on says nothing yet.
LEMMA GoingOnSafe ==
    ASSUME SshSafe, sshAt # "done", UNCHANGED posture, SshTypeOK', Reading'
    PROVE  SshSafe'
BY DEF SshSafe, Silent, PostureIsEarned

LEMMA ReadByteSafe ==
    ASSUME SshSafe, NEW byte \in Bytes, ReadByte(byte)
    PROVE  SshSafe'
<1> DEFINE next == [length |-> line.length + 1, shape |-> Shape(byte), cr |-> byte = "cr"]
<1>1. /\ sshAt = "identification" /\ consumed' = consumed + 1 /\ UNCHANGED <<packet, kexinit>>
      /\ consumed = preamble.bytes + line.length /\ consumed \in Nat
      /\ line.length \in Nat /\ line.shape \in 0 .. 5
      /\ preamble.bytes \in Nat /\ preamble.bytes <= MaxPreBannerBytes
      /\ preamble.lines \in Nat /\ preamble.lines <= MaxPreBannerLines
  BY SshLimits DEF ReadByte, SshSafe, SshTypeOK, Reading
<1>2. BoundedReading
  BY ReadingIsBounded DEF SshSafe
<1>3. consumed <= MaxPreBannerBytes + MaxIdentificationBytes /\ line.length < Capacity
  BY <1>1, <1>2 DEF BoundedReading
<1>4. CASE Refused(byte, next)
  <2>1. Fail /\ UNCHANGED <<line, preamble>>
    BY <1>4 DEF ReadByte
  <2>2. Ended("indeterminate", "completed", FALSE, NoSelections)
    BY <1>1, <2>1, FailsUnidentified
  <2>3. consumed' \in Nat /\ consumed' <= MaxPreBannerBytes + MaxIdentificationBytes + 1 + 4 + MaxPacketLength
    BY <1>1, <1>3, SshLimits
  <2>4. UNCHANGED <<line, preamble, packet, kexinit>> /\ sshAt # "done"
    BY <1>1, <2>1
  <2> QED
    BY <2>2, <2>3, <2>4, EndedSafe
<1>5. CASE ~Refused(byte, next)
  <2>1. /\ next.length = line.length + 1 /\ next.shape = Shape(byte) /\ next.cr \in BOOLEAN
        /\ Shape(byte) \in 0 .. 5
        /\ Shape(byte) < Prefix => line.shape < Prefix /\ Shape(byte) = line.shape + 1
        /\ Shape(byte) = Prefix => line.shape \in {Prefix, Prefix - 1}
    BY <1>1, SshLimits DEF Shape
  <2>2. /\ next.shape = Prefix => next.length <= MaxIdentificationBytes
        /\ next.shape = Other => preamble.bytes + next.length <= MaxPreBannerBytes
        /\ next.shape < Prefix => next.length = next.shape
        /\ next.length \in 0 .. Capacity
    <3>1. next.length \in Nat /\ next.length <= Capacity
      BY <1>1, <1>3, <2>1, SshLimits
    <3>2. next.shape < Prefix => next.length = next.shape
      BY <2>1 DEF SshSafe, Reading
    <3>3. next.shape = Prefix => next.length <= MaxIdentificationBytes
      BY <1>5, <3>1, SshLimits DEF Refused
    <3>4. next.shape = Other => preamble.bytes + next.length <= MaxPreBannerBytes
      BY <1>1, <1>5, <3>1, SshLimits DEF Refused
    <3> QED
      BY <3>1, <3>2, <3>3, <3>4, SshLimits
  <2>3. CASE byte # "lf"
    <3>1. line' = next /\ UNCHANGED <<sshAt, preamble, posture>>
      BY <1>5, <2>3 DEF ReadByte
    <3> HIDE DEF next
    <3>2. line' \in [length : 0 .. Capacity, shape : 0 .. Other, cr : BOOLEAN]
      BY <2>1, <2>2, <3>1, SshLimits DEF next
    <3>3. SshTypeOK'
      BY <1>1, <3>1, <3>2 DEF SshSafe, SshTypeOK
    <3>4. consumed' = preamble'.bytes + line'.length
      BY <1>1, <2>1, <3>1
    <3>5. consumed' <= MaxPreBannerBytes + MaxIdentificationBytes + 1 + 4 + MaxPacketLength
      BY <1>1, <1>3, SshLimits
    <3>6. Reading'
      BY <1>1, <2>1, <2>2, <3>1, <3>4, <3>5 DEF Reading
    <3> QED
      BY <1>1, <3>1, <3>3, <3>6, GoingOnSafe
  <2>4. CASE byte = "lf" /\ next.shape = Prefix
    <3>1. line' = next /\ UNCHANGED preamble /\ ((sshAt' = "answer" /\ UNCHANGED posture) \/ Fail)
      BY <1>5, <2>4 DEF ReadByte, EndLine
    <3> HIDE DEF next
    <3>2. line' \in [length : 0 .. Capacity, shape : 0 .. Other, cr : BOOLEAN]
      BY <2>1, <2>2, <3>1, SshLimits DEF next
    <3>3. consumed' <= MaxPreBannerBytes + MaxIdentificationBytes
      BY <1>1, <2>1, <2>2, <2>4, SshLimits
    <3>4. line'.shape = Prefix /\ line'.length <= MaxIdentificationBytes /\ ~(Prefix < Prefix) /\ Prefix # Other
      BY <2>2, <2>4, <3>1, SshLimits
    <3>5. ASSUME sshAt' \in {"answer", "done"} PROVE Reading'
      BY <1>1, <3>3, <3>4, <3>5, SshLimits DEF Reading
    <3>6. CASE sshAt' = "answer" /\ UNCHANGED posture
      <4>1. SshTypeOK'
        BY <1>1, <3>1, <3>2, <3>6 DEF SshSafe, SshTypeOK
      <4> QED
        BY <1>1, <3>5, <3>6, <4>1, GoingOnSafe
    <3>7. CASE Fail
      <4>1. Ended("indeterminate", "completed", FALSE, NoSelections)
        BY <1>1, <3>7, FailsUnidentified
      <4>2. posture' \in Postures
        BY <4>1, PosturesHaveTheirType, NothingSelected DEF Ended
      <4>3. SshTypeOK'
        BY <1>1, <3>1, <3>2, <4>1, <4>2 DEF SshSafe, SshTypeOK, Ended
      <4>4. Silent' /\ PostureIsEarned'
        BY <4>1 DEF Ended, Silent, PostureIsEarned
      <4> QED
        BY <3>5, <4>1, <4>3, <4>4 DEF SshSafe, Ended
    <3> QED
      BY <3>1, <3>6, <3>7
  <2>5. CASE byte = "lf" /\ next.shape # Prefix
    <3>1. /\ preamble' = [lines |-> preamble.lines + 1, bytes |-> preamble.bytes + next.length]
          /\ line' = NewLine /\ UNCHANGED <<sshAt, posture>>
      BY <1>5, <2>5 DEF ReadByte, EndLine
    <3>2. preamble.lines + 1 <= MaxPreBannerLines /\ preamble.bytes + next.length <= MaxPreBannerBytes
      BY <1>1, <1>5, <2>2, <2>5, SshLimits DEF Refused
    <3> HIDE DEF next
    <3>3. /\ preamble' \in [lines : 0 .. MaxPreBannerLines, bytes : 0 .. MaxPreBannerBytes]
          /\ line' \in [length : 0 .. Capacity, shape : 0 .. Other, cr : BOOLEAN]
      BY <1>1, <2>2, <3>1, <3>2, SshLimits DEF NewLine
    <3>4. SshTypeOK'
      BY <1>1, <3>1, <3>3 DEF SshSafe, SshTypeOK
    <3>5. /\ preamble'.bytes = preamble.bytes + line.length + 1 /\ line'.length = 0 /\ line'.shape = 0
      BY <1>1, <2>1, <3>1 DEF NewLine
    <3>6. Reading'
      BY <1>1, <1>3, <3>1, <3>5, SshLimits DEF Reading
    <3> QED
      BY <1>1, <3>1, <3>4, <3>6, GoingOnSafe
  <2> QED
    BY <2>3, <2>4, <2>5
<1> QED
  BY <1>4, <1>5

\* A step that only ends the exchange.
LEMMA EndingSafe ==
    ASSUME SshSafe, sshAt # "done", Break \/ Cut
    PROVE  SshSafe'
<1>1. /\ UNCHANGED <<line, preamble, consumed, packet, kexinit>> /\ consumed \in Nat
      /\ consumed <= MaxPreBannerBytes + MaxIdentificationBytes + 1 + 4 + MaxPacketLength
  BY DEF Break, Cut, SshSafe, SshTypeOK, Reading
<1>2. CASE Cut
  <2>1. PICK state \in {"completed", "timed_out", "cancelled"} :
           Ended("indeterminate", state, FALSE, NoSelections)
    BY <1>2 DEF Cut
  <2> QED
    BY <1>1, <2>1, EndedSafe
<1>3. CASE Break
  <2>1. Fail /\ sshAt \in {"identification", "answer", "length", "packet"}
    BY <1>3 DEF Break
  <2>2. \E identified \in BOOLEAN : Ended("indeterminate", "completed", identified, NoSelections)
    BY <2>1, FailsIdentified, FailsUnidentified
  <2> QED
    BY <1>1, <2>2, EndedSafe
<1> QED
  BY <1>2, <1>3

LEMMA ConnectsSafe ==
    ASSUME SshSafe, Connects
    PROVE  SshSafe'
<1>1. /\ sshAt = "connect" /\ UNCHANGED <<line, preamble, consumed, packet, kexinit>> /\ consumed \in Nat
      /\ consumed <= MaxPreBannerBytes + MaxIdentificationBytes + 1 + 4 + MaxPacketLength
  BY DEF Connects, SshSafe, SshTypeOK, Reading
<1>2. CASE Fail
  <2>1. Ended("indeterminate", "completed", FALSE, NoSelections)
    BY <1>1, <1>2, FailsUnidentified
  <2> QED
    BY <1>1, <2>1, EndedSafe
<1>3. CASE sshAt' = "identification" /\ UNCHANGED posture
  <2>1. SshTypeOK'
    BY <1>1, <1>3 DEF SshSafe, SshTypeOK
  <2>2. Reading'
    BY <1>1, <1>3 DEF SshSafe, Reading
  <2> QED
    BY <1>1, <1>3, <2>1, <2>2, GoingOnSafe
<1> QED
  BY <1>2, <1>3 DEF Connects

LEMMA SendKexInitSafe ==
    ASSUME SshSafe, SendKexInit
    PROVE  SshSafe'
<1>1. SshTypeOK'
  BY DEF SendKexInit, SshSafe, SshTypeOK
<1>2. Reading'
  BY DEF SendKexInit, SshSafe, Reading
<1> QED
  BY <1>1, <1>2, GoingOnSafe DEF SendKexInit

LEMMA ReadLengthSafe ==
    ASSUME SshSafe, NEW length \in PacketLengths, ReadLength(length)
    PROVE  SshSafe'
<1>1. /\ sshAt = "length" /\ consumed' = consumed + 4 /\ UNCHANGED <<line, preamble, kexinit>>
      /\ length \in Nat /\ consumed \in Nat
      /\ consumed <= MaxPreBannerBytes + MaxIdentificationBytes
  BY SshAssumption DEF ReadLength, SshSafe, SshTypeOK, Reading
<1>2. CASE length > MaxPacketLength \/ ~WellFormed(length)
  <2>1. Fail /\ UNCHANGED packet
    BY <1>2 DEF ReadLength
  <2>2. Ended("indeterminate", "completed", TRUE, NoSelections)
    BY <1>1, <2>1, FailsIdentified
  <2>3. consumed' \in Nat /\ consumed' <= MaxPreBannerBytes + MaxIdentificationBytes + 1 + 4 + MaxPacketLength
    BY <1>1, SshLimits
  <2> QED
    BY <1>1, <2>1, <2>2, <2>3, EndedSafe
<1>3. CASE ~(length > MaxPacketLength \/ ~WellFormed(length))
  <2>1. sshAt' = "packet" /\ packet' = [packet EXCEPT !.length = length] /\ UNCHANGED posture
    BY <1>3 DEF ReadLength
  <2>2. length \in 12 .. MaxPacketLength
    BY <1>1, <1>3, SshLimits DEF WellFormed
  <2>3. packet' \in [length : Nat, payload : Nat] /\ packet'.length = length
    BY <1>1, <2>1 DEF SshSafe, SshTypeOK
  <2>4. SshTypeOK'
    BY <1>1, <2>1, <2>3 DEF SshSafe, SshTypeOK
  <2>5. consumed' <= MaxPreBannerBytes + MaxIdentificationBytes + 4
    BY <1>1, SshLimits
  <2>6. consumed' <= MaxPreBannerBytes + MaxIdentificationBytes + 1 + 4 + MaxPacketLength
    BY <1>1, SshLimits
  <2>7. Reading'
    BY <1>1, <2>1, <2>2, <2>3, <2>5, <2>6 DEF SshSafe, Reading
  <2> QED
    BY <1>1, <2>1, <2>4, <2>7, GoingOnSafe
<1> QED
  BY <1>2, <1>3

LEMMA ReadPacketSafe ==
    ASSUME SshSafe, NEW padding \in Paddings, ReadPacket(padding)
    PROVE  SshSafe'
<1>1. /\ sshAt = "packet" /\ consumed' = consumed + packet.length /\ UNCHANGED <<line, preamble, kexinit>>
      /\ padding \in Nat /\ consumed \in Nat /\ packet.length \in 12 .. MaxPacketLength
      /\ consumed <= MaxPreBannerBytes + MaxIdentificationBytes + 4
  BY SshAssumption DEF ReadPacket, SshSafe, SshTypeOK, Reading
<1>2. consumed' \in Nat /\ consumed' <= MaxPreBannerBytes + MaxIdentificationBytes + 1 + 4 + MaxPacketLength
  BY <1>1, SshLimits
<1>3. CASE padding < 4 \/ padding >= packet.length - 1
  <2>1. Fail /\ UNCHANGED packet
    BY <1>3 DEF ReadPacket
  <2>2. Ended("indeterminate", "completed", TRUE, NoSelections)
    BY <1>1, <2>1, FailsIdentified
  <2> QED
    BY <1>1, <1>2, <2>1, <2>2, EndedSafe
<1>4. CASE ~(padding < 4 \/ padding >= packet.length - 1)
  <2>1. /\ sshAt' = "parse" /\ UNCHANGED posture
        /\ packet' = [packet EXCEPT !.payload = packet.length - padding - 1]
    BY <1>4 DEF ReadPacket
  <2>2. packet.length - padding - 1 \in 1 .. packet.length - 5
    BY <1>1, <1>4, SshLimits
  <2>3. /\ packet' \in [length : Nat, payload : Nat]
        /\ packet'.length = packet.length /\ packet'.payload = packet.length - padding - 1
    BY <1>1, <2>1, <2>2 DEF SshSafe, SshTypeOK
  <2>4. SshTypeOK'
    BY <1>1, <1>2, <2>1, <2>3 DEF SshSafe, SshTypeOK
  <2>5. packet'.payload \in 1 .. packet'.length - 5
    BY <2>2, <2>3
  <2>6. Reading'
    BY <1>1, <1>2, <2>1, <2>5 DEF SshSafe, Reading
  <2> QED
    BY <1>1, <2>1, <2>4, <2>6, GoingOnSafe
<1> QED
  BY <1>3, <1>4

-----------------------------------------------------------------------------
(* SSH: a posture is earned.                                               *)

\* select_algorithm finds the first of the client's names that the server has, if there is one.
LEMMA SelectsTheFirst ==
    ASSUME NEW client \in Seq(STRING \ {"none"}), NEW server,
           NEW chosen, chosen = select_algorithm(client, server)
    PROVE  /\ chosen = "none" <=> ToSet(client) \cap server = {}
           /\ chosen # "none" =>
                 /\ chosen \in server /\ chosen \in ToSet(client)
                 /\ \E i \in DOMAIN client :
                       client[i] = chosen /\ \A j \in 1 .. i - 1 : client[j] \notin server
<1> DEFINE common == {i \in DOMAIN client : client[i] \in server}
<1>1. /\ common \subseteq Nat /\ DOMAIN client \subseteq Nat
      /\ \A i \in DOMAIN client : client[i] # "none"
      /\ ToSet(client) = {client[i] : i \in DOMAIN client}
  BY DEF ToSet
<1>2. CASE common = {}
  <2>1. chosen = "none"
    BY <1>2 DEF select_algorithm
  <2>2. ToSet(client) \cap server = {}
    BY <1>1, <1>2
  <2> QED
    BY <2>1, <2>2
<1>3. CASE common # {}
  <2>1. chosen = client[Min(common)]
    BY <1>3 DEF select_algorithm
  <2>2. Min(common) \in common /\ \A m \in common : Min(common) <= m
    <3> HIDE DEF common
    <3> QED
      BY <1>1, <1>3, LeastNatural
  <2>3. chosen # "none" /\ chosen \in server /\ chosen \in ToSet(client)
    BY <1>1, <2>1, <2>2
  <2>4. /\ Min(common) \in DOMAIN client /\ Min(common) \in Nat /\ client[Min(common)] = chosen
        /\ DOMAIN client = 1 .. Len(client) /\ Len(client) \in Nat
    BY <1>1, <2>1, <2>2
  <2>5. ASSUME NEW j \in 1 .. Min(common) - 1 PROVE client[j] \notin server
    <3>1. j \in DOMAIN client /\ ~(Min(common) <= j)
      <4> HIDE DEF common
      <4> QED
        BY <2>4
    <3> QED
      BY <2>2, <3>1
  <2> QED
    BY <2>3, <2>4, <2>5
<1> QED
  BY <1>2, <1>3

LEMMA ParseSafe ==
    ASSUME SshSafe, NEW k \in KexInits, Parse(k)
    PROVE  SshSafe'
<1>1. /\ sshAt = "parse" /\ kexinit' = k /\ UNCHANGED <<line, preamble, consumed, packet>>
      /\ consumed \in Nat
      /\ consumed <= MaxPreBannerBytes + MaxIdentificationBytes + 1 + 4 + MaxPacketLength
  BY DEF Parse, SshSafe, SshTypeOK, Reading
<1>2. CASE ~Parses(k, packet.payload)
  <2>1. Ended("indeterminate", "completed", TRUE, NoSelections)
    BY <1>1, <1>2, FailsIdentified DEF Parse
  <2>2. posture' \in Postures
    BY <2>1, PosturesHaveTheirType, NothingSelected DEF Ended
  <2>3. SshTypeOK' /\ Reading'
    BY <1>1, <2>1, <2>2 DEF SshSafe, SshTypeOK, Reading, Ended
  <2>4. Silent' /\ PostureIsEarned'
    BY <2>1 DEF Ended, Silent, PostureIsEarned
  <2> QED
    BY <2>3, <2>4 DEF SshSafe
<1>3. CASE Parses(k, packet.payload)
  <2> DEFINE chosen == [l \in Lists |-> select_algorithm(Preferences[l], k.names[l])]
             kept == [l \in Lists |-> IF l \in Reported THEN chosen[l] ELSE "none"]
             outcome == IF \A l \in Lists : chosen[l] # "none" THEN "complete" ELSE "partial"
  <2>1. Ended(outcome, "completed", TRUE, kept)
    BY <1>1, <1>3 DEF Parse, inferred_posture
  <2>2. ASSUME NEW l \in Lists
        PROVE  /\ chosen[l] = "none" <=> ToSet(Preferences[l]) \cap k.names[l] = {}
               /\ chosen[l] # "none" =>
                     /\ chosen[l] \in k.names[l] /\ chosen[l] \in ToSet(Preferences[l])
                     /\ \E i \in DOMAIN Preferences[l] :
                           /\ Preferences[l][i] = chosen[l]
                           /\ \A j \in 1 .. i - 1 : Preferences[l][j] \notin k.names[l]
    <3>1. Preferences[l] \in Seq(STRING \ {"none"})
      BY SshAssumption DEF Lists
    <3>2. chosen[l] = select_algorithm(Preferences[l], k.names[l])
      OBVIOUS
    <3> HIDE DEF chosen
    <3> QED
      BY <3>1, <3>2, SelectsTheFirst
  <2>3. \A l \in Lists : kept[l] \in Names
    <3> TAKE l \in Lists
    <3>1. CASE l \in Reported /\ chosen[l] # "none"
      <4>1. kept[l] = chosen[l]
        BY <3>1
      <4>2. chosen[l] \in ToSet(Preferences[l])
        BY <2>2, <3>1
      <4> HIDE DEF kept, chosen
      <4> QED
        BY <4>1, <4>2 DEF Names
    <3>2. CASE ~(l \in Reported /\ chosen[l] # "none")
      <4>1. kept[l] = "none"
        BY <3>2
      <4> HIDE DEF kept, chosen
      <4> QED
        BY <4>1 DEF Names
    <3> QED
      BY <3>1, <3>2
  <2>4. kept \in [Lists -> Names]
    BY <2>3
  <2>5. /\ \A l \in Reported : l \in Lists /\ kept[l] = chosen[l]
        /\ outcome \in {"complete", "partial"}
        /\ outcome = "complete" => \A l \in Lists : chosen[l] # "none"
        /\ outcome = "partial" => \E l \in Lists : chosen[l] = "none"
    BY DEF Lists, Reported
  <2> HIDE DEF chosen, kept, outcome
  <2>6. /\ sshAt' = "done"
        /\ posture' = [outcome |-> outcome, state |-> "completed", identified |-> TRUE, selections |-> kept]
    BY <2>1 DEF Ended
  <2>7. posture' \in Postures
    BY <2>4, <2>5, <2>6, PosturesHaveTheirType
  <2>8. SshTypeOK' /\ Reading'
    BY <1>1, <2>6, <2>7 DEF SshSafe, SshTypeOK, Reading
  <2>9. posture'.outcome = outcome /\ posture'.state = "completed" /\ posture'.identified
        /\ posture'.selections = kept
    BY <2>6
  <2>10. PostureIsEarned'
    <3>1. Parses(kexinit, packet.payload)'
      BY <1>1, <1>3 DEF Parses
    <3>2. outcome = "complete" => \A l \in Lists : ToSet(Preferences[l]) \cap k.names[l] # {}
      BY <2>2, <2>5
    <3>3. outcome = "partial" => \E l \in Lists : ToSet(Preferences[l]) \cap k.names[l] = {}
      BY <2>2, <2>5
    <3>4. ASSUME NEW l \in Reported, kept[l] # "none"
          PROVE  /\ kept[l] \in k.names[l]
                 /\ \E i \in DOMAIN Preferences[l] :
                       /\ Preferences[l][i] = kept[l]
                       /\ \A j \in 1 .. i - 1 : Preferences[l][j] \notin k.names[l]
      BY <2>2, <2>5, <3>4
    <3>5. outcome # "indeterminate"
      BY <2>5
    <3> QED
      BY <1>1, <2>9, <3>1, <3>2, <3>3, <3>4, <3>5 DEF PostureIsEarned
  <2>11. Silent'
    BY <2>6 DEF Silent
  <2> QED
    BY <2>8, <2>10, <2>11 DEF SshSafe
<1> QED
  BY <1>2, <1>3

LEMMA SshStepSafe == SshSafe /\ [SshNext]_sshVars => SshSafe'
<1> SUFFICES ASSUME SshSafe, [SshNext]_sshVars PROVE SshSafe'
  OBVIOUS
<1>1. CASE Connects
  BY <1>1, ConnectsSafe
<1>2. CASE SendKexInit
  BY <1>2, SendKexInitSafe
<1>3. CASE Break
  BY <1>3, EndingSafe DEF Break
<1>4. CASE Cut
  BY <1>4, EndingSafe DEF Cut
<1>5. ASSUME NEW byte \in Bytes, ReadByte(byte) PROVE SshSafe'
  BY <1>5, ReadByteSafe
<1>6. ASSUME NEW length \in PacketLengths, ReadLength(length) PROVE SshSafe'
  BY <1>6, ReadLengthSafe
<1>7. ASSUME NEW padding \in Paddings, ReadPacket(padding) PROVE SshSafe'
  BY <1>7, ReadPacketSafe
<1>8. ASSUME NEW k \in KexInits, Parse(k) PROVE SshSafe'
  BY <1>8, ParseSafe
<1>9. CASE UNCHANGED sshVars
  BY <1>9 DEF sshVars, SshSafe, SshTypeOK, Reading, Silent, PostureIsEarned, Parses
<1> QED
  BY <1>1, <1>2, <1>3, <1>4, <1>5, <1>6, <1>7, <1>8, <1>9 DEF SshNext, SshStep

-----------------------------------------------------------------------------
(* HTTP                                                                    *)

\* Requests and redirects go together until the answer is settled.
Asked ==
    /\ current.origin = Home /\ \A i \in DOMAIN requests : requests[i].origin = Home
    /\ Len(redirects) <= MaxRedirects
    /\ httpAt # "done" => observation = "none"
    /\ httpAt = "request" => Len(requests) = Len(redirects)
    /\ httpAt = "follow" => Len(requests) = Len(redirects) + 1
    /\ httpAt \in {"request", "follow", "body"} => presence = <<>>
    /\ Len(requests) <= MaxRedirects + 1 + Len(presence)

\* Where the chain of redirects has come to.
Chained ==
    observation # "error" =>
        /\ redirects = <<>> => current = initial_url
        /\ \A i \in DOMAIN redirects :
              redirects[i].from = IF i = 1 THEN initial_url ELSE redirects[i - 1].to
        /\ redirects # <<>> =>
              current = IF redirects[Len(redirects)].to.origin = Home
                        THEN redirects[Len(redirects)].to ELSE redirects[Len(redirects)].from
        /\ httpAt = "request" /\ redirects # <<>> => current = redirects[Len(redirects)].to
        /\ httpAt \in {"follow", "body", "paths"} \/ observation = "evidence" => response = current
        /\ httpAt = "follow" /\ redirects # <<>> => current = redirects[Len(redirects)].to

\* What is kept of a body.
Kept ==
    /\ httpAt \in {"request", "follow", "body"} =>
          ~body.truncated /\ ~body.failed
    /\ IF body.truncated THEN body.kept = MaxBodyBytes /\ body.received > MaxBodyBytes
                         ELSE body.kept = body.received /\ body.received <= MaxBodyBytes
    /\ body.failed => ~body.truncated

HttpSafe == HttpTypeOK /\ Asked /\ Chained /\ Kept

LEMMA UrlFacts ==
    /\ initial_url \in Urls /\ initial_url.origin = Home /\ Len(WellKnown) = 3
    /\ \A next \in [origin : Origins, path : Paths] :
          next \in Urls /\ (same_origin(next) <=> next.origin = Home)
    /\ \A n \in 1 .. 3 : /\ [initial_url EXCEPT !.path = WellKnown[n]] \in Urls
                         /\ [initial_url EXCEPT !.path = WellKnown[n]].origin = Home
<1>1. initial_url \in Urls /\ initial_url.origin = Home
  BY HttpAssumption DEF initial_url, Urls
<1>2. Len(WellKnown) = 3
  BY DEF WellKnown
<1>3. ASSUME NEW next \in [origin : Origins, path : Paths]
      PROVE  next \in Urls /\ (same_origin(next) <=> next.origin = Home)
  <2>1. next \in Urls
    BY DEF Urls
  <2>2. /\ next.origin \in [scheme : STRING, host : STRING, port : Nat]
        /\ Home \in [scheme : STRING, host : STRING, port : Nat]
    BY HttpAssumption
  <2>3. same_origin(next) <=> next.origin = Home
    BY <1>1, <2>2 DEF same_origin
  <2> QED
    BY <2>1, <2>3
<1>4. ASSUME NEW n \in 1 .. 3
      PROVE  /\ [initial_url EXCEPT !.path = WellKnown[n]] \in Urls
             /\ [initial_url EXCEPT !.path = WellKnown[n]].origin = Home
  <2>1. WellKnown[n] \in ToSet(WellKnown)
    <3>1. n \in DOMAIN WellKnown
      BY <1>2 DEF WellKnown
    <3> QED
      BY <3>1 DEF ToSet
  <2> HIDE DEF WellKnown
  <2> QED
    BY <1>1, <2>1 DEF Urls
<1> QED
  BY <1>1, <1>2, <1>3, <1>4

LEMMA HttpInitSafe == HttpInit => HttpSafe
<1> SUFFICES ASSUME HttpInit PROVE HttpSafe
  OBVIOUS
<1>1. HttpTypeOK
  BY UrlFacts, HttpAssumption DEF HttpInit, HttpTypeOK, NoUrl
<1>2. Asked
  BY UrlFacts, HttpAssumption DEF HttpInit, Asked
<1>3. Chained
  BY DEF HttpInit, Chained
<1>4. Kept
  BY HttpAssumption DEF HttpInit, Kept
<1> QED
  BY <1>1, <1>2, <1>3, <1>4 DEF HttpSafe

LEMMA GetSafe ==
    ASSUME HttpSafe, Get
    PROVE  HttpSafe'
<1>1. /\ httpAt = "request" /\ requests' = Append(requests, current) /\ UNCHANGED <<current, body, presence>>
      /\ current \in Urls /\ requests \in Seq(Urls) /\ current.origin = Home /\ observation = "none"
  BY DEF Get, HttpSafe, HttpTypeOK, Asked
<1>2. /\ requests' \in Seq(Urls) /\ Len(requests') = Len(requests) + 1
      /\ \A i \in DOMAIN requests' : requests'[i].origin = Home
  <2>1. /\ DOMAIN requests = 1 .. Len(requests) /\ Len(requests) \in Nat
        /\ \A i \in 1 .. Len(requests) : requests[i].origin = Home
    BY <1>1 DEF HttpSafe, Asked
  <2> QED
    BY <1>1, <2>1
<1>3. CASE httpAt' = "follow" /\ response' = current /\ UNCHANGED <<redirects, observation>>
  <2>1. HttpTypeOK'
    BY <1>1, <1>2, <1>3 DEF HttpSafe, HttpTypeOK
  <2>2. Asked'
    BY <1>1, <1>2, <1>3, HttpAssumption DEF HttpSafe, HttpTypeOK, Asked
  <2>3. Chained' /\ Kept'
    BY <1>1, <1>3 DEF HttpSafe, Chained, Kept
  <2> QED
    BY <2>1, <2>2, <2>3 DEF HttpSafe
<1>4. CASE httpAt' = "done" /\ observation' = "error" /\ redirects' = <<>> /\ UNCHANGED response
  <2>1. HttpTypeOK'
    BY <1>1, <1>2, <1>4, HttpAssumption DEF HttpSafe, HttpTypeOK
  <2>2. Asked'
    BY <1>1, <1>2, <1>4, HttpAssumption DEF HttpSafe, HttpTypeOK, Asked
  <2>3. Chained' /\ Kept'
    BY <1>1, <1>4 DEF HttpSafe, Chained, Kept
  <2> QED
    BY <2>1, <2>2, <2>3 DEF HttpSafe
<1> QED
  BY <1>3, <1>4 DEF Get

LEMMA FollowSafe ==
    ASSUME HttpSafe, NEW next \in [origin : Origins, path : Paths], Follow(next)
    PROVE  HttpSafe'
<1> DEFINE hop == [from |-> current, to |-> next]
           n == Len(redirects)
<1>1. /\ httpAt = "follow" /\ redirects' = Append(redirects, hop) /\ n < MaxRedirects
      /\ UNCHANGED <<response, body, presence, requests, observation>>
      /\ next \in Urls /\ current \in Urls /\ redirects \in Seq([from : Urls, to : Urls])
      /\ n \in Nat /\ current.origin = Home
  BY UrlFacts DEF Follow, HttpSafe, HttpTypeOK, Asked
<1>2. /\ redirects' \in Seq([from : Urls, to : Urls]) /\ Len(redirects') = n + 1
      /\ DOMAIN redirects' = 1 .. n + 1 /\ DOMAIN redirects = 1 .. n
      /\ redirects'[n + 1] = hop /\ \A i \in 1 .. n : redirects'[i] = redirects[i]
      /\ redirects' # <<>>
  BY <1>1
<1>3. /\ next.origin = Home => httpAt' = "request" /\ current' = next
      /\ next.origin # Home => httpAt' = "body" /\ current' = current
  BY UrlFacts DEF Follow
<1>4. hop.from = current /\ hop.to = next
  OBVIOUS
<1> HIDE DEF hop
<1>5. HttpTypeOK'
  BY <1>1, <1>2, <1>3, HttpAssumption DEF HttpSafe, HttpTypeOK
<1>6. Asked'
  BY <1>1, <1>2, <1>3, HttpAssumption DEF HttpSafe, HttpTypeOK, Asked
<1>7. Kept'
  BY <1>1, <1>3 DEF HttpSafe, Kept
<1>8. Chained'
  <2> SUFFICES ASSUME observation # "error" PROVE Chained'
    BY <1>1 DEF Chained
  <2>1. ASSUME NEW i \in DOMAIN redirects'
        PROVE  redirects'[i].from = IF i = 1 THEN initial_url ELSE redirects'[i - 1].to
    <3>1. CASE i \in 1 .. n
      <4>1. redirects[i].from = IF i = 1 THEN initial_url ELSE redirects[i - 1].to
        BY <1>2, <3>1 DEF HttpSafe, Chained
      <4>2. i # 1 => i - 1 \in 1 .. n
        BY <3>1, <1>1
      <4> QED
        BY <1>2, <3>1, <4>1, <4>2
    <3>2. CASE i = n + 1
      <4>1. CASE n = 0
        <5>1. redirects = <<>>
          BY <1>1, <4>1
        <5> QED
          BY <1>2, <1>4, <3>2, <4>1, <5>1 DEF HttpSafe, Chained
      <4>2. CASE n # 0
        <5>1. redirects # <<>> /\ n \in 1 .. n /\ i - 1 = n /\ i # 1
          BY <1>1, <3>2, <4>2
        <5>2. current = redirects[n].to
          BY <1>1, <5>1 DEF HttpSafe, Chained
        <5> QED
          BY <1>2, <1>4, <3>2, <5>1, <5>2
      <4> QED
        BY <4>1, <4>2
    <3> QED
      BY <1>1, <1>2, <3>1, <3>2
  <2>2. current' = IF redirects'[Len(redirects')].to.origin = Home
                   THEN redirects'[Len(redirects')].to ELSE redirects'[Len(redirects')].from
    BY <1>2, <1>3, <1>4
  <2>3. httpAt' = "request" => current' = redirects'[Len(redirects')].to
    BY <1>2, <1>3, <1>4
  <2>4. response = current /\ (httpAt' # "request" => current' = current) /\ httpAt' # "follow"
    BY <1>1, <1>3 DEF HttpSafe, Chained
  <2>5. httpAt' = "request" => observation # "evidence"
    BY <1>1 DEF HttpSafe, Asked
  <2> QED
    BY <1>1, <1>2, <2>1, <2>2, <2>3, <2>4, <2>5 DEF Chained
<1> QED
  BY <1>5, <1>6, <1>7, <1>8 DEF HttpSafe

LEMMA ChunkSafe ==
    ASSUME HttpSafe, NEW size \in ChunkSizes, Chunk(size)
    PROVE  HttpSafe'
<1>1. /\ httpAt = "body" /\ UNCHANGED <<current, redirects, response, presence, requests, observation>>
      /\ size \in Nat /\ MaxBodyBytes \in Nat /\ body.kept \in Nat /\ body.received \in Nat
      /\ body.kept = body.received /\ body.kept <= MaxBodyBytes /\ ~body.truncated /\ ~body.failed
      /\ body \in [kept : Nat, truncated : BOOLEAN, received : Nat, failed : BOOLEAN]
  BY HttpAssumption DEF Chunk, HttpSafe, HttpTypeOK, Kept
<1>2. CASE size > Remaining
  <2>1. /\ httpAt' = "paths"
        /\ body' = [body EXCEPT !.kept = body.kept + Remaining, !.truncated = TRUE,
                                !.received = body.received + size]
    BY <1>2 DEF Chunk
  <2>2. body.kept + Remaining = MaxBodyBytes /\ body.received + size > MaxBodyBytes
    BY <1>1, <1>2 DEF Remaining
  <2>3. HttpTypeOK'
    <3>1. body.kept + Remaining \in Nat /\ body.received + size \in Nat
      BY <1>1, <2>2
    <3>2. body' \in [kept : Nat, truncated : BOOLEAN, received : Nat, failed : BOOLEAN]
      BY <1>1, <2>1, <3>1
    <3> QED
      BY <1>1, <2>1, <3>2 DEF HttpSafe, HttpTypeOK
  <2>4. Kept'
    BY <1>1, <2>1, <2>2 DEF Kept
  <2>5. Asked' /\ Chained'
    BY <1>1, <2>1 DEF HttpSafe, Asked, Chained
  <2> QED
    BY <2>3, <2>4, <2>5 DEF HttpSafe
<1>3. CASE ~(size > Remaining)
  <2>1. /\ httpAt' = httpAt
        /\ body' = [body EXCEPT !.kept = body.kept + size, !.received = body.received + size]
    BY <1>3 DEF Chunk
  <2>2. body.kept + size = body.received + size /\ body.kept + size <= MaxBodyBytes
    BY <1>1, <1>3 DEF Remaining
  <2>3. HttpTypeOK'
    <3>1. body.kept + size \in Nat /\ body.received + size \in Nat
      BY <1>1
    <3>2. body' \in [kept : Nat, truncated : BOOLEAN, received : Nat, failed : BOOLEAN]
      BY <1>1, <2>1, <3>1
    <3> QED
      BY <1>1, <2>1, <3>2 DEF HttpSafe, HttpTypeOK
  <2>4. Kept'
    BY <1>1, <2>1, <2>2 DEF Kept
  <2>5. Asked' /\ Chained'
    BY <1>1, <2>1 DEF HttpSafe, Asked, Chained
  <2> QED
    BY <2>3, <2>4, <2>5 DEF HttpSafe
<1> QED
  BY <1>2, <1>3

\* A stream that fails changes nothing of what is kept.
LEMMA FailBodySafe ==
    ASSUME HttpSafe, FailBody
    PROVE  HttpSafe'
<1>1. /\ httpAt = "body" /\ httpAt' = "paths" /\ body' = [body EXCEPT !.failed = TRUE]
      /\ UNCHANGED <<current, redirects, response, presence, requests, observation>>
      /\ body \in [kept : Nat, truncated : BOOLEAN, received : Nat, failed : BOOLEAN]
      /\ ~body.truncated /\ body.kept = body.received /\ body.received <= MaxBodyBytes
  BY DEF FailBody, HttpSafe, HttpTypeOK, Kept
<1>2. HttpTypeOK'
  BY <1>1 DEF HttpSafe, HttpTypeOK
<1>3. Kept'
  BY <1>1 DEF Kept
<1>4. Asked' /\ Chained'
  BY <1>1 DEF HttpSafe, Asked, Chained
<1> QED
  BY <1>2, <1>3, <1>4 DEF HttpSafe

LEMMA PathSafe ==
    ASSUME HttpSafe, check_path
    PROVE  HttpSafe'
<1> DEFINE n == Len(presence)
           url == [initial_url EXCEPT !.path = WellKnown[n + 1]]
<1>1. PICK known \in {"present", "absent", "unknown"} :
         /\ httpAt = "paths" /\ n < 3 /\ presence' = Append(presence, known)
         /\ requests' = Append(requests, url)
         /\ UNCHANGED <<httpAt, current, redirects, response, body, observation>>
  BY UrlFacts DEF check_path
<1>2. /\ presence \in Seq({"present", "absent", "unknown"}) /\ requests \in Seq(Urls)
      /\ n \in Nat /\ n + 1 \in 1 .. 3
  BY <1>1 DEF HttpSafe, HttpTypeOK
<1>3. url \in Urls /\ url.origin = Home
  BY <1>2, UrlFacts
<1> HIDE DEF url
<1>4. /\ presence' \in Seq({"present", "absent", "unknown"}) /\ Len(presence') = n + 1
      /\ requests' \in Seq(Urls) /\ Len(requests') = Len(requests) + 1 /\ Len(requests) \in Nat
  BY <1>1, <1>2, <1>3
<1>5. \A i \in DOMAIN requests' : requests'[i].origin = Home
  <2>1. \A i \in DOMAIN requests : requests[i].origin = Home
    BY DEF HttpSafe, Asked
  <2> QED
    BY <1>1, <1>2, <1>3, <2>1
<1>6. HttpTypeOK'
  BY <1>1, <1>2, <1>4, UrlFacts DEF HttpSafe, HttpTypeOK
<1>7. Asked'
  BY <1>1, <1>2, <1>4, <1>5, HttpAssumption DEF HttpSafe, Asked
<1>8. Chained' /\ Kept'
  BY <1>1 DEF HttpSafe, Chained, Kept
<1> QED
  BY <1>6, <1>7, <1>8 DEF HttpSafe

\* Steps that only move on.
LEMMA MovesSafe ==
    ASSUME HttpSafe, Settled \/ EndBody \/ Observe \/ Drop
    PROVE  HttpSafe'
<1>1. UNCHANGED <<current, redirects, response, body, presence, requests>>
  BY DEF Settled, EndBody, Observe, Drop
<1>2. HttpTypeOK'
  BY <1>1 DEF Settled, EndBody, Observe, Drop, HttpSafe, HttpTypeOK
<1>3. Asked'
  BY <1>1 DEF Settled, EndBody, Observe, Drop, HttpSafe, Asked
<1>4. Kept'
  BY <1>1 DEF Settled, EndBody, Observe, Drop, HttpSafe, Kept
<1>5. Chained'
  <2>1. observation # "error" /\ httpAt # "done"
    BY DEF Settled, EndBody, Observe, Drop, HttpSafe, Asked
  <2>2. httpAt' \in {"body", "paths", "done"} /\ httpAt # httpAt'
        /\ (httpAt' \in {"body", "paths"} \/ observation' = "evidence" => httpAt \in {"follow", "body", "paths"})
    BY <2>1 DEF Settled, EndBody, Observe, Drop, HttpSafe, Asked
  <2> QED
    BY <1>1, <2>1, <2>2 DEF HttpSafe, Chained
<1> QED
  BY <1>2, <1>3, <1>4, <1>5 DEF HttpSafe

LEMMA HttpStepSafe == HttpSafe /\ [HttpNext]_httpVars => HttpSafe'
<1> SUFFICES ASSUME HttpSafe, [HttpNext]_httpVars PROVE HttpSafe'
  OBVIOUS
<1>1. CASE Get
  BY <1>1, GetSafe
<1>2. CASE Settled \/ EndBody \/ Observe \/ Drop
  BY <1>2, MovesSafe
<1>3. CASE check_path
  BY <1>3, PathSafe
<1>4. ASSUME NEW next \in [origin : Origins, path : Paths], Follow(next) PROVE HttpSafe'
  BY <1>4, FollowSafe
<1>5. ASSUME NEW size \in ChunkSizes, Chunk(size) PROVE HttpSafe'
  BY <1>5, ChunkSafe
<1>6. CASE FailBody
  BY <1>6, FailBodySafe
<1>7. CASE UNCHANGED httpVars
  BY <1>7 DEF httpVars, HttpSafe, HttpTypeOK, Asked, Chained, Kept
<1> QED
  BY <1>1, <1>2, <1>3, <1>4, <1>5, <1>6, <1>7 DEF HttpNext, HttpStep

LEMMA HttpSafeIsEnough == HttpSafe => StaysOnOrigin /\ ChainLeadsToEvidence /\ BodyIsAccounted
<1> SUFFICES ASSUME HttpSafe PROVE StaysOnOrigin /\ ChainLeadsToEvidence /\ BodyIsAccounted
  OBVIOUS
<1>1. StaysOnOrigin
  BY HttpAssumption, UrlFacts DEF HttpSafe, HttpTypeOK, Asked, StaysOnOrigin
<1>2. ChainLeadsToEvidence
  BY DEF HttpSafe, Chained, ChainLeadsToEvidence, Last
<1>3. BodyIsAccounted
  BY HttpAssumption DEF HttpSafe, HttpTypeOK, Kept, BodyIsAccounted
<1> QED
  BY <1>1, <1>2, <1>3

-----------------------------------------------------------------------------
(* TLS: what fits of a chain.                                              *)

Certificates == UNION {ToSet(c) : c \in Chains}

Sums(c, n, f) == f \in [0 .. n -> Nat] /\ f[0] = 0 /\ \A i \in 1 .. n : f[i] = f[i - 1] + c[i].size

LEMMA SumsExist ==
    ASSUME NEW c, NEW n \in Nat, \A i \in 1 .. n : c[i].size \in Nat
    PROVE  \E f : Sums(c, n, f)
<1> DEFINE bad == {k \in 0 .. n : ~ \E f : Sums(c, k, f)}
<1> SUFFICES ASSUME bad # {} PROVE FALSE
  OBVIOUS
<1> DEFINE m == Min(bad)
<1>1. m \in bad /\ \A k \in bad : m <= k
  <2>1. bad \subseteq Nat
    OBVIOUS
  <2> HIDE DEF bad
  <2> QED
    BY <2>1, LeastNatural
<1>2. m \in 0 .. n /\ ~ \E f : Sums(c, m, f)
  BY <1>1
<1>3. m # 0
  <2>1. Sums(c, 0, [i \in 0 .. 0 |-> 0])
    BY DEF Sums
  <2> QED
    BY <1>2, <2>1
<1>4. m - 1 \in 0 .. n /\ m - 1 \notin bad
  <2> HIDE DEF bad, m
  <2> QED
    BY <1>1, <1>2, <1>3
<1>5. PICK f : Sums(c, m - 1, f)
  BY <1>4
<1> HIDE DEF m, bad
<1> DEFINE g == [i \in 0 .. m |-> IF i = m THEN f[m - 1] + c[m].size ELSE f[i]]
<1>6. Sums(c, m, g)
  BY <1>2, <1>3, <1>5 DEF Sums
<1> QED
  BY <1>2, <1>6

\* Two ways to add up come to the same.
Recurs(f, g, n) == f[0] = g[0] /\ \A i \in 1 .. n : f[i - 1] = g[i - 1] => f[i] = g[i]

LEMMA SumsAgree ==
    ASSUME NEW n \in Nat, NEW f, NEW g, Recurs(f, g, n)
    PROVE  \A i \in 0 .. n : f[i] = g[i]
<1>0. f[0] = g[0] /\ \A i \in 1 .. n : f[i - 1] = g[i - 1] => f[i] = g[i]
  BY DEF Recurs
<1> DEFINE bad == {k \in 0 .. n : f[k] # g[k]}
<1> SUFFICES ASSUME bad # {} PROVE FALSE
  OBVIOUS
<1> DEFINE m == Min(bad)
<1>1. m \in bad /\ \A k \in bad : m <= k
  <2>1. bad \subseteq Nat
    OBVIOUS
  <2> HIDE DEF bad
  <2> QED
    BY <2>1, LeastNatural
<1>2. m \in 1 .. n
  BY <1>0, <1>1
<1>3. m - 1 \in 0 .. n /\ m - 1 \notin bad
  <2>1. m \in Nat /\ m - 1 < m
    BY <1>2
  <2> HIDE DEF bad, m
  <2> QED
    BY <1>1, <1>2, <2>1
<1> QED
  BY <1>0, <1>1, <1>2, <1>3

LEMMA TotalsAreSums ==
    ASSUME NEW c, Len(c) \in Nat, \A i \in 1 .. Len(c) : c[i].size \in Nat
    PROVE  Sums(c, Len(c), Totals(c))
<1>1. PICK f : Sums(c, Len(c), f)
  BY SumsExist
<1>2. f = [i \in 0 .. Len(c) |-> IF i = 0 THEN 0 ELSE f[i - 1] + c[i].size]
  BY <1>1 DEF Sums
<1>3. Totals(c) = [i \in 0 .. Len(c) |-> IF i = 0 THEN 0 ELSE Totals(c)[i - 1] + c[i].size]
  BY <1>2 DEF Totals
<1>4. \A i \in 0 .. Len(c) : Totals(c)[i] = IF i = 0 THEN 0 ELSE Totals(c)[i - 1] + c[i].size
  BY <1>3
<1>5. \A i \in 0 .. Len(c) : Totals(c)[i] = f[i]
  <2>1. \A i \in 1 .. Len(c) : Totals(c)[i - 1] = f[i - 1] => Totals(c)[i] = f[i]
    BY <1>1, <1>4 DEF Sums
  <2>2. Totals(c)[0] = f[0]
    BY <1>1, <1>4 DEF Sums
  <2>3. Recurs(Totals(c), f, Len(c))
    BY <2>1, <2>2 DEF Recurs
  <2> QED
    BY <2>3, SumsAgree
<1>6. Totals(c) = f
  BY <1>1, <1>3, <1>5 DEF Sums
<1> QED
  BY <1>1, <1>6

LEMMA ChainFacts ==
    ASSUME NEW c \in Chains
    PROVE  /\ Len(c) \in Nat /\ DOMAIN c = 1 .. Len(c) /\ (c = <<>> <=> Len(c) = 0)
           /\ \A i \in 1 .. Len(c) : c[i].size \in Nat
           /\ Sums(c, Len(c), Totals(c))
<1>1. c \in Seq([size : Nat, names : Seq(STRING), parses : BOOLEAN])
  BY TlsAssumption
<1>2. /\ Len(c) \in Nat /\ DOMAIN c = 1 .. Len(c) /\ (c = <<>> <=> Len(c) = 0)
      /\ \A i \in 1 .. Len(c) : c[i] \in [size : Nat, names : Seq(STRING), parses : BOOLEAN]
  <2> DEFINE T == [size : Nat, names : Seq(STRING), parses : BOOLEAN]
  <2>1. c \in Seq(T)
    BY <1>1
  <2> HIDE DEF T
  <2>2. /\ Len(c) \in Nat /\ DOMAIN c = 1 .. Len(c) /\ (c = <<>> <=> Len(c) = 0)
        /\ \A i \in 1 .. Len(c) : c[i] \in T
    BY <2>1
  <2> QED
    BY <2>2 DEF T
<1>3. \A i \in 1 .. Len(c) : c[i].size \in Nat
  BY <1>2
<1> QED
  BY <1>2, <1>3, TotalsAreSums

\* Adding certificates never makes the sum smaller.
LEMMA SumsGrow ==
    ASSUME NEW c, NEW n \in Nat, NEW f, Sums(c, n, f), \A i \in 1 .. n : c[i].size \in Nat,
           NEW low \in 0 .. n, NEW high \in 0 .. n, low <= high
    PROVE  f[low] <= f[high]
<1> DEFINE bad == {k \in low .. n : ~(f[low] <= f[k])}
<1> SUFFICES ASSUME bad # {} PROVE FALSE
  OBVIOUS
<1> DEFINE m == Min(bad)
<1>1. m \in bad /\ \A k \in bad : m <= k
  <2>1. bad \subseteq Nat
    OBVIOUS
  <2> HIDE DEF bad
  <2> QED
    BY <2>1, LeastNatural
<1>2. m \in low .. n /\ m # low
  BY <1>1 DEF Sums
<1>3. m - 1 \in low .. n /\ m - 1 \notin bad
  <2>1. m \in Nat /\ m - 1 < m
    BY <1>2
  <2> HIDE DEF bad, m
  <2> QED
    BY <1>1, <1>2, <2>1
<1>4. f[m] = f[m - 1] + c[m].size /\ f[m - 1] \in Nat /\ f[m] \in Nat /\ f[low] \in Nat /\ c[m].size \in Nat
  <2> HIDE DEF bad, m
  <2> QED
    BY <1>2, <1>3 DEF Sums
<1>5. f[low] <= f[m - 1]
  BY <1>3
<1>6. ~(f[low] <= f[m])
  BY <1>1
<1> QED
  BY <1>4, <1>5, <1>6

\* A set of the first numbers is known by their count.
LEMMA FirstNumbers ==
    ASSUME NEW n \in Nat, NEW S, S \subseteq 1 .. n, \A i \in S : \A j \in 1 .. i : j \in S
    PROVE  Cardinality(S) \in 0 .. n /\ S = 1 .. Cardinality(S)
<1>1. CASE S = 1 .. n
  <2>1. Cardinality(1 .. n) = n
    BY FS_Interval
  <2> QED
    BY <1>1, <2>1
<1>2. CASE S # 1 .. n
  <2> DEFINE missing == (1 .. n) \ S
             m == Min(missing)
  <2>1. m \in missing /\ \A k \in missing : m <= k
    <3>1. missing \subseteq Nat
      OBVIOUS
    <3>2. missing # {}
      BY <1>2, Zenon
    <3> HIDE DEF missing
    <3> QED
      BY <3>1, <3>2, LeastNatural
  <2>2. m \in 1 .. n /\ m \notin S
    BY <2>1
  <2>3. \A j \in 1 .. m - 1 : j \in S
    <3> SUFFICES ASSUME NEW j \in 1 .. m - 1 PROVE j \in S
      OBVIOUS
    <3>1. j \in 1 .. n /\ ~(m <= j)
      <4> HIDE DEF m
      <4> QED
        BY <2>2
    <3> QED
      BY <2>1, <3>1
  <2>4. \A i \in S : i \in 1 .. m - 1
    <3> SUFFICES ASSUME NEW i \in S, ~(i \in 1 .. m - 1) PROVE FALSE
      OBVIOUS
    <3>1. m \in 1 .. i
      <4> HIDE DEF m
      <4> QED
        BY <2>2
    <3> QED
      BY <2>2, <3>1
  <2>5. S = 1 .. m - 1
    BY <2>3, <2>4
  <2>6. m - 1 \in Nat /\ m - 1 <= n /\ Cardinality(1 .. m - 1) = m - 1
    <3> HIDE DEF m
    <3>1. m - 1 \in Nat /\ m - 1 <= n
      BY <2>2
    <3> QED
      BY <3>1, FS_Interval
  <2> QED
    BY <2>5, <2>6
<1> QED
  BY <1>1, <1>2

\* Exactly the first certificates fit.
LEMMA FitIsAStart ==
    ASSUME NEW c \in Chains
    PROVE  /\ Looked(c) \in Nat /\ Looked(c) <= Len(c) /\ Looked(c) <= MaxCertificates
           /\ Fit(c) \in 0 .. Looked(c)
           /\ \A i \in 1 .. Looked(c) : Totals(c)[i] <= MaxCertificateDerBytes <=> i <= Fit(c)
<1> DEFINE fitting == {i \in 1 .. Looked(c) : Totals(c)[i] <= MaxCertificateDerBytes}
<1>1. Looked(c) \in Nat /\ Looked(c) <= Len(c) /\ Looked(c) <= MaxCertificates
  BY ChainFacts, TlsAssumption DEF Looked
<1>2. \A i \in fitting : \A j \in 1 .. i : j \in fitting
  <2> SUFFICES ASSUME NEW i \in fitting, NEW j \in 1 .. i PROVE j \in fitting
    OBVIOUS
  <2>1. /\ i \in 0 .. Len(c) /\ j \in 0 .. Len(c) /\ j <= i /\ j \in 1 .. Looked(c)
        /\ Totals(c)[i] <= MaxCertificateDerBytes
    BY <1>1, ChainFacts
  <2>2. Totals(c)[j] <= Totals(c)[i]
    BY <2>1, ChainFacts, SumsGrow
  <2>3. Totals(c)[j] \in Nat /\ Totals(c)[i] \in Nat /\ MaxCertificateDerBytes \in Nat
    BY <2>1, ChainFacts, TlsAssumption DEF Sums
  <2> QED
    BY <2>1, <2>2, <2>3
<1>3. Cardinality(fitting) \in 0 .. Looked(c) /\ fitting = 1 .. Cardinality(fitting)
  <2>1. fitting \subseteq 1 .. Looked(c)
    OBVIOUS
  <2> HIDE DEF fitting
  <2> QED
    BY <1>1, <1>2, <2>1, FirstNumbers
<1>4. Fit(c) = Cardinality(fitting)
  BY DEF Fit
<1>5. ASSUME NEW i \in 1 .. Looked(c) PROVE Totals(c)[i] <= MaxCertificateDerBytes <=> i <= Fit(c)
  <2>1. Totals(c)[i] <= MaxCertificateDerBytes <=> i \in fitting
    OBVIOUS
  <2>2. i \in fitting <=> i <= Fit(c)
    <3> HIDE DEF fitting
    <3> QED
      BY <1>1, <1>3, <1>4
  <2> QED
    BY <2>1, <2>2
<1> QED
  BY <1>1, <1>3, <1>4, <1>5

\* What was kept of a chain is kept whole when it is looked at again, and exceeds nothing.
LEMMA BoundedAgain ==
    ASSUME NEW c \in Chains
    PROVE  /\ Len(Bounded(c)) = Fit(c) /\ \A i \in 1 .. Fit(c) : Bounded(c)[i] = c[i]
           /\ Fit(Bounded(c)) = Fit(c) /\ Looked(Bounded(c)) = Fit(c)
           /\ Bounded(Bounded(c)) = Bounded(c)
<1> DEFINE b == Bounded(c)
           n == Fit(c)
<1>1. /\ n \in Nat /\ n <= Looked(c) /\ n <= Len(c) /\ n <= MaxCertificates /\ Len(c) \in Nat
      /\ MaxCertificates \in Nat
  BY FitIsAStart, ChainFacts, TlsAssumption
<1>2. b = [i \in 1 .. n |-> c[i]] /\ b \in Seq({c[i] : i \in 1 .. n}) /\ Len(b) = n
  <2>1. b = [i \in 1 .. n |-> c[i]]
    BY <1>1 DEF Bounded
  <2> QED
    BY <1>1, <2>1
<1> HIDE DEF b, n
<1>3. Looked(b) = n
  BY <1>1, <1>2 DEF Looked
<1>4. \A i \in 1 .. n : b[i].size \in Nat /\ b[i].size = c[i].size
  BY <1>1, <1>2, ChainFacts
<1>5. Sums(b, n, Totals(b))
  BY <1>1, <1>2, <1>4, TotalsAreSums
<1>6. \A i \in 0 .. n : Totals(b)[i] = Totals(c)[i]
  <2>1. Totals(b)[0] = Totals(c)[0]
    BY <1>5, ChainFacts DEF Sums
  <2>2. \A i \in 1 .. n : Totals(b)[i - 1] = Totals(c)[i - 1] => Totals(b)[i] = Totals(c)[i]
    <3> SUFFICES ASSUME NEW i \in 1 .. n PROVE Totals(b)[i - 1] = Totals(c)[i - 1] => Totals(b)[i] = Totals(c)[i]
      OBVIOUS
    <3>1. Totals(b)[i] = Totals(b)[i - 1] + b[i].size
      BY <1>5 DEF Sums
    <3>2. i \in 1 .. Len(c)
      BY <1>1
    <3>3. Totals(c)[i] = Totals(c)[i - 1] + c[i].size
      BY <3>2, ChainFacts DEF Sums
    <3> QED
      BY <1>4, <3>1, <3>3
  <2> DEFINE f == Totals(b)
             g == Totals(c)
  <2> HIDE DEF f, g
  <2>3. f[0] = g[0] /\ \A i \in 1 .. n : f[i - 1] = g[i - 1] => f[i] = g[i]
    BY <2>1, <2>2 DEF f, g
  <2>4. \A i \in 0 .. n : f[i] = g[i]
    <3>1. n \in Nat
      BY <1>1
    <3>2. Recurs(f, g, n)
      BY <2>3 DEF Recurs
    <3> QED
      BY <3>1, <3>2, SumsAgree
  <2> QED
    BY <2>4 DEF f, g
<1>7. {i \in 1 .. n : Totals(b)[i] <= MaxCertificateDerBytes} = 1 .. n
  <2>1. \A i \in 1 .. n : i \in 1 .. Looked(c) /\ Totals(c)[i] <= MaxCertificateDerBytes
    BY <1>1, FitIsAStart DEF n
  <2> QED
    BY <1>6, <2>1
<1>8. Fit(b) = n
  <2>1. Fit(b) = Cardinality(1 .. n)
    BY <1>3, <1>7 DEF Fit
  <2>2. Cardinality(1 .. n) = n
    BY <1>1, FS_Interval
  <2> QED
    BY <2>1, <2>2
<1>9. Bounded(b) = b
  <2>1. SubSeq(b, 1, n) = [i \in 1 .. n |-> b[i]]
    BY <1>1, <1>2
  <2> QED
    BY <1>2, <1>8, <2>1 DEF Bounded
<1> QED
  BY <1>2, <1>3, <1>8, <1>9 DEF b, n

-----------------------------------------------------------------------------
(* TLS: the record and the evidence have their type.                       *)

TlsSafe ==
    /\ TlsTypeOK /\ chain \in Chains
    /\ capture \in [certificates : Seq(Certificates), length : Nat, truncated : BOOLEAN]
    /\ \E outcome, trusted, evidence :
          tls = [outcome |-> outcome, trusted |-> trusted, evidence |-> evidence]

\* As many certificates fit as there are, at most.
LEMMA BoundedIsAPart ==
    ASSUME NEW certificates \in Chains
    PROVE  Bounded(certificates) \in Seq(Certificates) /\ BytesExceeded(certificates) \in BOOLEAN
<1> DEFINE n == Looked(certificates)
           fitting == {i \in 1 .. n : Totals(certificates)[i] <= MaxCertificateDerBytes}
<1>1. certificates \in Seq(Certificates) /\ Len(certificates) \in Nat
  <2>1. /\ Len(certificates) \in Nat /\ DOMAIN certificates = 1 .. Len(certificates)
        /\ certificates \in [1 .. Len(certificates) -> {certificates[i] : i \in DOMAIN certificates}]
    <3>1. certificates \in Seq([size : Nat, names : Seq(STRING), parses : BOOLEAN])
      BY TlsAssumption
    <3> QED
      BY <3>1
  <2>2. {certificates[i] : i \in DOMAIN certificates} \subseteq Certificates
    BY DEF Certificates, ToSet
  <2>3. \A i \in 1 .. Len(certificates) : certificates[i] \in Certificates
    BY <2>1, <2>2
  <2> HIDE DEF Certificates
  <2> QED
    BY <2>1, <2>3
<1>2. n \in Nat /\ n <= Len(certificates)
  BY <1>1, TlsAssumption DEF Looked
<1>3. IsFiniteSet(1 .. n) /\ Cardinality(1 .. n) = n
  <2> HIDE DEF n
  <2> QED
    BY <1>2, FS_Interval
<1>4. fitting \subseteq 1 .. n
  OBVIOUS
<1>5. Fit(certificates) = Cardinality(fitting)
  BY DEF Fit
<1>6. Fit(certificates) \in Nat /\ Fit(certificates) <= n
  <2> HIDE DEF n, fitting
  <2>1. IsFiniteSet(fitting) /\ Cardinality(fitting) <= Cardinality(1 .. n)
    BY <1>3, <1>4, FS_Subset
  <2> QED
    BY <1>3, <1>5, <2>1, FS_CardinalityType
<1>7. SubSeq(certificates, 1, Fit(certificates)) \in Seq(Certificates)
  <2>1. \A i \in 1 .. Fit(certificates) : certificates[i] \in Certificates
    BY <1>1, <1>2, <1>6
  <2>2. SubSeq(certificates, 1, Fit(certificates)) =
            [i \in 1 .. Fit(certificates) |-> certificates[i]]
    BY <1>6
  <2> QED
    BY <1>6, <2>1, <2>2
<1> QED
  BY <1>7, <1>6, <1>2 DEF Bounded, BytesExceeded

LEMMA EvidenceHasItsType ==
    ASSUME NEW certificates, NEW length \in Nat, NEW truncated, NEW errors \in SUBSET Notes,
           NEW evidence, evidence = inspect_certificates(certificates, length, truncated, errors)
    PROVE  evidence.errors \subseteq Notes /\ evidence.length \in Nat
<1> DEFINE limited == {n \in {"limited certificates"} : length > MaxCertificates}
                      \cup {n \in {"limited bytes"} : truncated \/ BytesExceeded(certificates)}
           base == [NoEvidence EXCEPT !.length = length, !.errors = errors \cup limited]
           kept == FirstNames(certificates[1].names)
           unparsed == [base EXCEPT !.errors = @ \cup {"unparsed leaf"}]
           whole == [base EXCEPT !.leaf = TRUE, !.names = kept,
                                 !.names_truncated = kept # Unique(certificates[1].names)]
<1>1. evidence = IF Bounded(certificates) = <<>> THEN base
                 ELSE IF ~certificates[1].parses THEN unparsed ELSE whole
  BY DEF inspect_certificates
<1>2. limited \subseteq Notes /\ "unparsed leaf" \in Notes
  BY DEF Notes
<1> HIDE DEF limited
<1>3. /\ base.errors = errors \cup limited /\ base.length = length
      /\ unparsed.errors = errors \cup limited \cup {"unparsed leaf"} /\ unparsed.length = length
      /\ whole.errors = errors \cup limited /\ whole.length = length
  <2> HIDE DEF kept
  <2> QED
    BY DEF NoEvidence
<1> HIDE DEF base, unparsed, whole
<1> QED
  BY <1>1, <1>2, <1>3

LEMMA TlsInitSafe == TlsInit => TlsSafe
<1> SUFFICES ASSUME TlsInit PROVE TlsSafe
  OBVIOUS
<1>1. <<>> \in Seq(Certificates)
  <2> HIDE DEF Certificates
  <2> QED
    OBVIOUS
<1>2. capture \in [certificates : Seq(Certificates), length : Nat, truncated : BOOLEAN]
  BY <1>1 DEF TlsInit, NoCapture
<1>3. TlsTypeOK
  BY <1>1 DEF TlsInit, TlsTypeOK, NoCapture, NoEvidence, Certificates
<1> QED
  BY <1>2, <1>3 DEF TlsSafe, TlsInit

LEMMA FailedSafe ==
    ASSUME TlsSafe, Failed, UNCHANGED chain
    PROVE  TlsSafe'
<1> DEFINE seen == inspect_certificates(capture.certificates, capture.length, capture.truncated, {"failed"})
           unseen == [NoEvidence EXCEPT !.errors = {"failed"}]
           evidence == IF capture.length # 0 THEN seen ELSE unseen
<1>1. /\ tlsAt' = "done" /\ capture' = NoCapture
      /\ tls' = [outcome |-> "failed", trusted |-> FALSE, evidence |-> evidence]
  BY DEF Failed
<1>2. seen.errors \subseteq Notes /\ seen.length \in Nat
  <2>1. {"failed"} \in SUBSET Notes /\ capture.length \in Nat
    BY DEF Notes, TlsSafe, TlsTypeOK
  <2> QED
    BY <2>1, EvidenceHasItsType
<1>3. unseen.errors \subseteq Notes /\ unseen.length \in Nat
  BY DEF NoEvidence, Notes
<1> HIDE DEF seen, unseen
<1>4. evidence.errors \subseteq Notes /\ evidence.length \in Nat
  BY <1>2, <1>3
<1> HIDE DEF evidence
<1>5. <<>> \in Seq(Certificates)
  <2> HIDE DEF Certificates
  <2> QED
    OBVIOUS
<1>6. capture' \in [certificates : Seq(Certificates), length : Nat, truncated : BOOLEAN]
  BY <1>1, <1>5 DEF NoCapture
<1>7. TlsTypeOK'
  BY <1>1, <1>4, <1>6 DEF TlsTypeOK, Certificates
<1> QED
  BY <1>1, <1>6, <1>7 DEF TlsSafe

LEMMA TlsStepSafe == TlsSafe /\ [TlsNext]_tlsVars => TlsSafe'
<1> SUFFICES ASSUME TlsSafe, [TlsNext]_tlsVars PROVE TlsSafe'
  OBVIOUS
<1>1. CASE ConnectTls
  BY <1>1 DEF ConnectTls, TlsSafe, TlsTypeOK
<1>2. CASE Present
  <2>1. /\ UNCHANGED <<chain, tls>> /\ tlsAt' = "verify" /\ chain \in Chains
        /\ capture' = [certificates |-> Bounded(chain), length |-> Len(chain), truncated |-> BytesExceeded(chain)]
    BY <1>2 DEF Present, Record, TlsSafe
  <2>2. Bounded(chain) \in Seq(Certificates) /\ BytesExceeded(chain) \in BOOLEAN /\ Len(chain) \in Nat
    BY <2>1, BoundedIsAPart, TlsAssumption
  <2>3. capture' \in [certificates : Seq(Certificates), length : Nat, truncated : BOOLEAN]
    BY <2>1, <2>2
  <2>4. TlsTypeOK'
    BY <2>1, <2>3 DEF TlsSafe, TlsTypeOK, Certificates
  <2> QED
    BY <2>1, <2>3, <2>4 DEF TlsSafe
<1>3. CASE Verdict
  <2>1. CASE Failed
    BY <1>3, <2>1, FailedSafe DEF Verdict
  <2>2. CASE tlsAt' = "finished" /\ tls' = [tls EXCEPT !.trusted = TRUE] /\ UNCHANGED capture
    <3>1. UNCHANGED chain /\ tls'.outcome = tls.outcome /\ tls'.evidence = tls.evidence
      BY <1>3, <2>2 DEF Verdict, TlsSafe
    <3>2. TlsTypeOK'
      BY <2>2, <3>1 DEF TlsSafe, TlsTypeOK
    <3> QED
      BY <2>2, <3>1, <3>2 DEF TlsSafe
  <2> QED
    BY <1>3, <2>1, <2>2 DEF Verdict
<1>4. CASE Succeed
  <2> DEFINE evidence == inspect_certificates(chain, Len(chain), FALSE, {})
  <2>1. /\ tlsAt' = "done" /\ capture' = NoCapture /\ UNCHANGED chain
        /\ tls' = [tls EXCEPT !.outcome = "succeeded", !.evidence = evidence]
    BY <1>4 DEF Succeed
  <2>2. evidence.errors \subseteq Notes /\ evidence.length \in Nat
    <3>1. Len(chain) \in Nat /\ {} \in SUBSET Notes
      BY TlsAssumption DEF TlsSafe
    <3> QED
      BY <3>1, EvidenceHasItsType
  <2> HIDE DEF evidence
  <2>3. tls'.outcome = "succeeded" /\ tls'.evidence = evidence
        /\ \E outcome, trusted, found :
              tls' = [outcome |-> outcome, trusted |-> trusted, evidence |-> found]
    BY <2>1 DEF TlsSafe
  <2>4. <<>> \in Seq(Certificates)
    <3> HIDE DEF Certificates
    <3> QED
      OBVIOUS
  <2>5. capture' \in [certificates : Seq(Certificates), length : Nat, truncated : BOOLEAN]
    BY <2>1, <2>4 DEF NoCapture
  <2>6. TlsTypeOK'
    BY <2>1, <2>2, <2>3, <2>5 DEF TlsTypeOK, Certificates
  <2> QED
    BY <2>1, <2>3, <2>5, <2>6 DEF TlsSafe
<1>5. CASE FailHandshake
  BY <1>5, FailedSafe DEF FailHandshake
<1>6. CASE CancelTls
  <2>1. /\ tlsAt' = "done" /\ UNCHANGED <<chain, capture>> /\ tls' = [tls EXCEPT !.outcome = "dropped"]
    BY <1>6 DEF CancelTls
  <2>2. tls'.outcome = "dropped" /\ tls'.evidence = tls.evidence
        /\ \E outcome, trusted, found :
              tls' = [outcome |-> outcome, trusted |-> trusted, evidence |-> found]
    BY <2>1 DEF TlsSafe
  <2>3. TlsTypeOK'
    BY <2>1, <2>2 DEF TlsSafe, TlsTypeOK
  <2> QED
    BY <2>1, <2>2, <2>3 DEF TlsSafe
<1>7. CASE UNCHANGED tlsVars
  BY <1>7 DEF tlsVars, TlsSafe, TlsTypeOK
<1> QED
  BY <1>1, <1>2, <1>3, <1>4, <1>5, <1>6, <1>7 DEF TlsNext, TlsStep

-----------------------------------------------------------------------------
(* TLS: the evidence is the chain's, however the handshake ended.          *)

\* What the evidence says, part by part.
Evidence(l, a, n, t, e) == [length |-> l, leaf |-> a, names |-> n, names_truncated |-> t, errors |-> e]
Yes == TRUE
No == FALSE

Parsed(c) == Bounded(c) # <<>> /\ c[1].parses
Limits(length, exceeded) ==
    {n \in {"limited certificates"} : length > MaxCertificates} \cup {n \in {"limited bytes"} : exceeded}
Told(c, length, exceeded, errors) ==
    LET kept == FirstNames(c[1].names)
        limited == errors \cup Limits(length, exceeded)
    IN  IF Parsed(c) THEN Evidence(length, Yes, kept, kept # Unique(c[1].names), limited)
        ELSE Evidence(length, No, {}, No, limited \cup {n \in {"unparsed leaf"} : Bounded(c) # <<>>})

LEMMA EvidenceParts ==
    ASSUME NEW c, NEW length, NEW truncated, NEW errors
    PROVE  inspect_certificates(c, length, truncated, errors) =
               Told(c, length, truncated \/ BytesExceeded(c), errors)
<1> DEFINE limited == errors \cup Limits(length, truncated \/ BytesExceeded(c))
           base == [NoEvidence EXCEPT !.length = length, !.errors = limited]
           kept == FirstNames(c[1].names)
           cut == kept # Unique(c[1].names)
           unparsed == [base EXCEPT !.errors = @ \cup {"unparsed leaf"}]
           whole == [base EXCEPT !.leaf = Yes, !.names = kept, !.names_truncated = cut]
           seen == inspect_certificates(c, length, truncated, errors)
           told == Told(c, length, truncated \/ BytesExceeded(c), errors)
<1>1. seen = IF Bounded(c) = <<>> THEN base ELSE IF ~c[1].parses THEN unparsed ELSE whole
  BY DEF inspect_certificates, Limits, Yes
<1>2. told = IF Parsed(c) THEN Evidence(length, Yes, kept, cut, limited)
             ELSE Evidence(length, No, {}, No, limited \cup {n \in {"unparsed leaf"} : Bounded(c) # <<>>})
  BY DEF Told
<1> HIDE DEF limited, kept, cut, seen, told
<1>3. NoEvidence = Evidence(0, No, {}, No, {})
  BY DEF NoEvidence, Evidence, No
<1> DEFINE lengthened == [NoEvidence EXCEPT !.length = length]
           parsed == [base EXCEPT !.leaf = Yes]
           named == [parsed EXCEPT !.names = kept]
<1>4. base = Evidence(length, No, {}, No, limited) /\ base.errors = limited
  <2>1. lengthened = [length |-> length, leaf |-> No, names |-> {}, names_truncated |-> No, errors |-> {}]
    BY <1>3 DEF Evidence
  <2>2. base = [lengthened EXCEPT !.errors = limited]
    OBVIOUS
  <2> HIDE DEF lengthened, base
  <2> QED
    BY <2>1, <2>2 DEF Evidence
<1>5. whole = [named EXCEPT !.names_truncated = cut]
  <2> HIDE DEF base
  <2> QED
    OBVIOUS
<1> HIDE DEF base
<1>6. unparsed = Evidence(length, No, {}, No, limited \cup {"unparsed leaf"})
  <2> DEFINE both == limited \cup {"unparsed leaf"}
  <2>1. unparsed = [base EXCEPT !.errors = both]
    BY <1>4
  <2> HIDE DEF both, unparsed
  <2>2. unparsed = Evidence(length, No, {}, No, both)
    BY <1>4, <2>1 DEF Evidence
  <2> QED
    BY <2>2 DEF both
<1>7. whole = Evidence(length, Yes, kept, cut, limited)
  <2>1. parsed = [length |-> length, leaf |-> Yes, names |-> {}, names_truncated |-> No, errors |-> limited]
    BY <1>4 DEF Evidence
  <2> HIDE DEF parsed
  <2>2. named = [length |-> length, leaf |-> Yes, names |-> kept, names_truncated |-> No, errors |-> limited]
    BY <2>1
  <2> HIDE DEF named
  <2> QED
    BY <1>5, <2>2 DEF Evidence
<1> HIDE DEF unparsed, whole
<1>8. ASSUME Bounded(c) = <<>> PROVE seen = told
  <2>1. limited \cup {n \in {"unparsed leaf"} : Bounded(c) # <<>>} = limited
    BY <1>8
  <2> QED
    BY <1>1, <1>2, <1>4, <1>8, <2>1 DEF Parsed
<1>9. ASSUME Bounded(c) # <<>>, ~c[1].parses PROVE seen = told
  <2>1. {n \in {"unparsed leaf"} : Bounded(c) # <<>>} = {"unparsed leaf"}
    BY <1>9
  <2> QED
    BY <1>1, <1>2, <1>6, <1>9, <2>1 DEF Parsed
<1>10. ASSUME Bounded(c) # <<>>, c[1].parses PROVE seen = told
  BY <1>1, <1>2, <1>7, <1>10, Zenon DEF Parsed
<1>11. seen = told
  BY <1>8, <1>9, <1>10
<1> QED
  BY <1>11 DEF seen, told

Accepted == Told(chain, Len(chain), BytesExceeded(chain), {})
Rejected == Told(chain, Len(chain), BytesExceeded(chain), {"failed"})
Unseen == [NoEvidence EXCEPT !.errors = {"failed"}]

LEMMA AcceptedIsSeen == inspect_certificates(chain, Len(chain), FALSE, {}) = Accepted
<1>1. (FALSE \/ BytesExceeded(chain)) = BytesExceeded(chain)
  BY DEF BytesExceeded
<1> QED
  BY <1>1, EvidenceParts DEF Accepted

\* Accepted or not, only the failure itself makes a difference.
LEMMA SameButForTheFailure ==
    \E leaf, names, cut, note :
        /\ Accepted = Evidence(Len(chain), leaf, names, cut, Limits(Len(chain), BytesExceeded(chain)) \cup note)
        /\ Rejected = Evidence(Len(chain), leaf, names, cut,
                               {"failed"} \cup Limits(Len(chain), BytesExceeded(chain)) \cup note)
        /\ note \subseteq {"unparsed leaf"}
        /\ leaf /\ ~cut => names = Unique(chain[1].names)
<1> DEFINE limits == Limits(Len(chain), BytesExceeded(chain))
           kept == FirstNames(chain[1].names)
           all == Unique(chain[1].names)
           fewer == kept # all
           note == {n \in {"unparsed leaf"} : Bounded(chain) # <<>>}
<1>1. Accepted = IF Parsed(chain) THEN Evidence(Len(chain), Yes, kept, fewer, {} \cup limits)
                 ELSE Evidence(Len(chain), No, {}, No, {} \cup limits \cup note)
  BY DEF Accepted, Told
<1>2. Rejected = IF Parsed(chain) THEN Evidence(Len(chain), Yes, kept, fewer, {"failed"} \cup limits)
                 ELSE Evidence(Len(chain), No, {}, No, {"failed"} \cup limits \cup note)
  BY DEF Rejected, Told
<1>3. /\ {} \cup limits = limits \cup {} /\ {"failed"} \cup limits = {"failed"} \cup limits \cup {}
      /\ {} \cup limits \cup note = limits \cup note /\ note \subseteq {"unparsed leaf"}
      /\ ~No /\ (~fewer => kept = all)
  BY DEF No
<1> HIDE DEF limits, kept, all, fewer, note
<1> DEFINE same(leaf, names, cut, told) ==
        /\ Accepted = Evidence(Len(chain), leaf, names, cut, limits \cup told)
        /\ Rejected = Evidence(Len(chain), leaf, names, cut, {"failed"} \cup limits \cup told)
        /\ told \subseteq {"unparsed leaf"}
        /\ leaf /\ ~cut => names = all
<1>4. Parsed(chain) => same(Yes, kept, fewer, {})
  BY <1>1, <1>2, <1>3
<1>5. ~Parsed(chain) => same(No, {}, No, note)
  BY <1>1, <1>2, <1>3
<1> HIDE DEF same
<1>6. \E leaf, names, cut, told : same(leaf, names, cut, told)
  BY <1>4, <1>5, Zenon
<1> QED
  BY <1>6, Zenon DEF same, limits, all

\* The record of a chain leads to the evidence that the chain itself leads to.
LEMMA RecordTellsTheChain ==
    ASSUME NEW c \in Chains, c # <<>>, NEW errors
    PROVE  inspect_certificates(Bounded(c), Len(c), BytesExceeded(c), errors) =
               Told(c, Len(c), BytesExceeded(c), errors)
<1> DEFINE b == Bounded(c)
<1>1. /\ Bounded(b) = b /\ Fit(b) = Fit(c) /\ Looked(b) = Fit(c) /\ Len(b) = Fit(c)
      /\ \A i \in 1 .. Fit(c) : b[i] = c[i]
  BY BoundedAgain
<1>2. Fit(c) \in Nat
  BY FitIsAStart
<1> HIDE DEF b
<1>3. (BytesExceeded(c) \/ BytesExceeded(b)) = BytesExceeded(c)
  <2>1. ~BytesExceeded(b)
    BY <1>1, <1>2 DEF BytesExceeded
  <2> QED
    BY <2>1 DEF BytesExceeded
<1>4. b # <<>> => b[1] = c[1]
  <2>1. b # <<>> => Fit(c) # 0
    <3>1. b \in Seq({c[i] : i \in 1 .. Fit(c)})
      <4>1. b = [i \in 1 .. Fit(c) |-> c[i]]
        BY <1>2, FitIsAStart, ChainFacts DEF b, Bounded
      <4> QED
        BY <1>2, <4>1
    <3> QED
      BY <1>1, <3>1
  <2> QED
    BY <1>1, <1>2, <2>1
<1>5. Told(b, Len(c), BytesExceeded(c), errors) = Told(c, Len(c), BytesExceeded(c), errors)
  <2>1. CASE b = <<>>
    BY <1>1, <2>1, Zenon DEF Told, Parsed, b
  <2>2. CASE b # <<>>
    BY <1>1, <1>4, <2>2, Zenon DEF Told, Parsed, b
  <2> QED
    BY <2>1, <2>2
<1> QED
  BY <1>3, <1>5, EvidenceParts DEF b

TlsTold ==
    /\ tlsAt \in {"connect", "hello"} => capture = NoCapture
    /\ tlsAt \in {"verify", "finished"} =>
          /\ chain # <<>>
          /\ capture = [certificates |-> Bounded(chain), length |-> Len(chain), truncated |-> BytesExceeded(chain)]
    /\ tlsAt # "done" => tls.outcome = "none" /\ (tls.trusted <=> tlsAt = "finished")
    /\ tls.outcome \in {"none", "dropped"} => tls.evidence = NoEvidence
    /\ tls.outcome = "succeeded" => tls.trusted /\ tls.evidence = Accepted
    /\ tls.outcome = "failed" => ~tls.trusted /\ tls.evidence \in {Unseen, Rejected}

LEMMA FailedTold ==
    ASSUME TlsSafe, TlsTold, Failed, UNCHANGED chain, tlsAt # "done"
    PROVE  TlsTold'
<1> DEFINE seen == inspect_certificates(capture.certificates, capture.length, capture.truncated, {"failed"})
<1>1. /\ tlsAt' = "done" /\ tls'.outcome = "failed" /\ tls'.trusted = FALSE
      /\ tls'.evidence = IF capture.length # 0 THEN seen ELSE Unseen
  BY DEF Failed, Unseen
<1>2. CASE tlsAt \in {"connect", "hello"}
  <2>1. capture.length = 0
    BY <1>2 DEF TlsTold, NoCapture
  <2> QED
    BY <1>1, <2>1 DEF TlsTold
<1>3. CASE tlsAt \in {"verify", "finished"}
  <2>1. seen = Rejected
    BY <1>3, RecordTellsTheChain DEF TlsTold, TlsSafe, Rejected
  <2>2. Rejected' = Rejected
    BY DEF Rejected
  <2> HIDE DEF seen
  <2>3. tls'.evidence \in {Unseen', Rejected'}
    BY <1>1, <2>1, <2>2 DEF Unseen
  <2> QED
    BY <1>1, <2>3 DEF TlsTold
<1> QED
  BY <1>2, <1>3 DEF TlsSafe, TlsTypeOK

LEMMA TlsStepTold == TlsSafe /\ TlsTold /\ [TlsNext]_tlsVars => TlsTold'
<1> SUFFICES ASSUME TlsSafe, TlsTold, [TlsNext]_tlsVars PROVE TlsTold'
  OBVIOUS
<1>0. UNCHANGED chain
  BY DEF TlsNext, TlsStep, ConnectTls, Present, Verdict, Succeed, FailHandshake, CancelTls, tlsVars
<1>1. Accepted' = Accepted /\ Rejected' = Rejected
  BY <1>0 DEF Accepted, Rejected
<1>2. CASE ConnectTls
  BY <1>2 DEF ConnectTls, TlsTold
<1>3. CASE Present
  BY <1>3 DEF Present, Record, TlsTold
<1>4. CASE Verdict
  <2>1. CASE Failed
    BY <1>4, <2>1, FailedTold DEF Verdict
  <2>2. CASE tlsAt' = "finished" /\ tls' = [tls EXCEPT !.trusted = TRUE] /\ UNCHANGED capture
    <3>1. tls'.outcome = tls.outcome /\ tls'.evidence = tls.evidence /\ tls'.trusted = TRUE
      BY <2>2 DEF TlsSafe
    <3> QED
      BY <1>0, <1>4, <2>2, <3>1 DEF Verdict, TlsTold
  <2> QED
    BY <1>4, <2>1, <2>2 DEF Verdict
<1>5. CASE Succeed
  <2>1. Accepted = inspect_certificates(chain, Len(chain), FALSE, {})
    BY AcceptedIsSeen
  <2>2. tlsAt' = "done" /\ tls'.outcome = "succeeded" /\ tls'.trusted = tls.trusted /\ tls'.evidence = Accepted
    BY <1>5, <2>1 DEF Succeed, TlsSafe
  <2> QED
    BY <1>1, <1>5, <2>2 DEF Succeed, TlsTold
<1>6. CASE FailHandshake
  BY <1>6, FailedTold DEF FailHandshake, Awaits
<1>7. CASE CancelTls
  <2>1. tlsAt # "done" /\ tlsAt' = "done" /\ tls'.outcome = "dropped" /\ tls'.evidence = tls.evidence
    BY <1>7 DEF CancelTls, Awaits, TlsSafe
  <2> QED
    BY <1>1, <2>1 DEF TlsTold
<1>8. CASE UNCHANGED tlsVars
  BY <1>1, <1>8 DEF tlsVars, TlsTold
<1> QED
  BY <1>2, <1>3, <1>4, <1>5, <1>6, <1>7, <1>8 DEF TlsNext, TlsStep

LEMMA ToldIsEnough == ASSUME TlsSafe, TlsTold PROVE SameEvidence /\ NothingUnsaid
<1>1. chain \in Chains /\ Len(chain) \in Nat
  BY ChainFacts DEF TlsSafe
<1> DEFINE limits == Limits(Len(chain), BytesExceeded(chain))
<1>2. PICK leaf, names, cut, note :
          /\ Accepted = Evidence(Len(chain), leaf, names, cut, limits \cup note)
          /\ Rejected = Evidence(Len(chain), leaf, names, cut, {"failed"} \cup limits \cup note)
          /\ note \subseteq {"unparsed leaf"}
          /\ leaf /\ ~cut => names = Unique(chain[1].names)
  BY SameButForTheFailure
<1>3. limits \subseteq {"limited certificates", "limited bytes"}
  BY DEF Limits
<1>4. limits \cap {"limited certificates", "limited bytes"} = {} => Len(chain) <= MaxCertificates /\ ~BytesExceeded(chain)
  <2>0. ~(Len(chain) > MaxCertificates) => Len(chain) <= MaxCertificates
    BY <1>1, TlsAssumption
  <2>1. "limited certificates" \notin limits => ~(Len(chain) > MaxCertificates)
    BY DEF Limits
  <2>2. "limited bytes" \notin limits => ~BytesExceeded(chain)
    BY DEF Limits
  <2> HIDE DEF limits
  <2> SUFFICES ASSUME limits \cap {"limited certificates", "limited bytes"} = {}
               PROVE  Len(chain) <= MaxCertificates /\ ~BytesExceeded(chain)
    OBVIOUS
  <2>3. "limited certificates" \notin limits /\ "limited bytes" \notin limits
    OBVIOUS
  <2> QED
    BY <2>0, <2>1, <2>2, <2>3
<1> HIDE DEF limits
<1>5. /\ Accepted.length = Len(chain) /\ Rejected.length = Len(chain)
      /\ Accepted.errors = limits \cup note /\ Rejected.errors = {"failed"} \cup limits \cup note
      /\ Accepted.leaf = leaf /\ Rejected.leaf = leaf /\ Accepted.names = names /\ Rejected.names = names
      /\ Accepted.names_truncated = cut /\ Rejected.names_truncated = cut
  BY <1>2 DEF Evidence
<1>6. [Rejected EXCEPT !.errors = {}] = [Accepted EXCEPT !.errors = {}]
  <2>1. [Rejected EXCEPT !.errors = {}] = Evidence(Len(chain), leaf, names, cut, {})
    <3> DEFINE len == Len(chain)
               errors == {"failed"} \cup limits \cup note
    <3> HIDE DEF len, errors
    <3>1. Rejected = Evidence(len, leaf, names, cut, errors)
      BY <1>2 DEF len, errors
    <3>2. [Rejected EXCEPT !.errors = {}] = Evidence(len, leaf, names, cut, {})
      BY <3>1 DEF Evidence
    <3> QED
      BY <3>2 DEF len
  <2>2. [Accepted EXCEPT !.errors = {}] = Evidence(Len(chain), leaf, names, cut, {})
    <3> DEFINE len == Len(chain)
               errors == limits \cup note
    <3> HIDE DEF len, errors
    <3>1. Accepted = Evidence(len, leaf, names, cut, errors)
      BY <1>2 DEF len, errors
    <3>2. [Accepted EXCEPT !.errors = {}] = Evidence(len, leaf, names, cut, {})
      BY <3>1 DEF Evidence
    <3> QED
      BY <3>2 DEF len
  <2> QED
    BY <2>1, <2>2
<1>7. /\ Unseen.length = 0 /\ NoEvidence.length = 0 /\ NoEvidence.leaf = FALSE /\ Unseen.leaf = FALSE
      /\ "failed" \in Unseen.errors
  BY DEF Unseen, NoEvidence
<1>8. tls.evidence.length # 0 \/ tls.evidence.leaf => tls.evidence \in {Accepted, Rejected}
  BY <1>7 DEF TlsTold, TlsSafe, TlsTypeOK
<1>9. SameEvidence
  <2> SUFFICES ASSUME tls.evidence.length # 0
               PROVE  /\ tls.evidence.errors \ {"failed"} = Accepted.errors
                      /\ [tls.evidence EXCEPT !.errors = {}] = [Accepted EXCEPT !.errors = {}]
    BY AcceptedIsSeen DEF SameEvidence
  <2>1. Rejected.errors \ {"failed"} = Accepted.errors /\ Accepted.errors \ {"failed"} = Accepted.errors
    BY <1>2, <1>3, <1>5
  <2> QED
    BY <1>6, <1>8, <2>1
<1>10. ASSUME NEW e \in {Accepted, Rejected}, e.length # 0, {"limited bytes", "limited certificates"} \cap e.errors = {}
       PROVE  Total(chain) <= MaxCertificateDerBytes /\ Len(chain) <= MaxCertificates
  <2>1. limits \cap {"limited certificates", "limited bytes"} = {}
    BY <1>5, <1>10
  <2>2. Len(chain) <= MaxCertificates /\ ~BytesExceeded(chain)
    BY <1>4, <2>1
  <2>3. Looked(chain) = Len(chain)
    BY <1>1, <2>2, TlsAssumption DEF Looked
  <2>4. Fit(chain) = Len(chain)
    BY <1>1, <2>2, <2>3, FitIsAStart DEF BytesExceeded
  <2>5. Len(chain) \in 1 .. Looked(chain)
    <3>1. Len(chain) # 0
      BY <1>5, <1>10
    <3> QED
      BY <1>1, <2>3, <3>1
  <2>6. Totals(chain)[Len(chain)] <= MaxCertificateDerBytes
    BY <1>1, <2>4, <2>5, FitIsAStart
  <2> QED
    BY <2>2, <2>6 DEF Total
<1>11. ASSUME NEW e \in {Accepted, Rejected}, e.leaf, ~e.names_truncated PROVE e.names = Unique(chain[1].names)
  BY <1>2, <1>5, <1>11
<1>12. tls.outcome = "failed" => "failed" \in tls.evidence.errors
  BY <1>5, <1>7 DEF TlsTold
<1> QED
  BY <1>8, <1>9, <1>10, <1>11, <1>12 DEF NothingUnsaid, TlsTold

-----------------------------------------------------------------------------
(* Whichever probe it is                                                   *)

ProbeSafe == protocol \in {"ssh", "http", "tls"} /\ SshSafe /\ HttpSafe /\ TlsSafe /\ TlsTold

LEMMA ProbeSafeIsInductive == ProbeSpec => []ProbeSafe
<1>1. ProbeInit => ProbeSafe
  <2>1. TlsInit => TlsTold
    BY DEF TlsInit, TlsTold
  <2> QED
    BY <2>1, SshInitSafe, HttpInitSafe, TlsInitSafe DEF ProbeInit, ProbeSafe
<1>2. ProbeSafe /\ [ProbeNext]_probeVars => ProbeSafe'
  <2> SUFFICES ASSUME ProbeSafe, [ProbeNext]_probeVars PROVE ProbeSafe'
    OBVIOUS
  <2>1. protocol' = protocol /\ [SshNext]_sshVars /\ [HttpNext]_httpVars /\ [TlsNext]_tlsVars
    BY DEF ProbeNext, SshOnly, HttpOnly, TlsOnly, probeVars
  <2> QED
    BY <2>1, SshStepSafe, HttpStepSafe, TlsStepSafe, TlsStepTold DEF ProbeSafe
<1> QED
  BY <1>1, <1>2, PTL DEF ProbeSpec

\* Whatever a peer sends, a probe reads within its limits, and asks the endpoint it was
\* given, for every value of the limits.
THEOREM BoundedTheorem == ProbeSpec => []ProbesAreBounded
<1>1. ProbeSafe => ProbesAreBounded
  BY ReadingIsBounded, HttpSafeIsEnough
     DEF ProbeSafe, ProbesAreBounded, ProbeTypeOK, SshSafe, HttpSafe, TlsSafe
<1> QED
  BY <1>1, ProbeSafeIsInductive, PTL

\* For every chain of redirects the observation of a web endpoint is one story; and for every
\* limit and every way a body arrives, ended by the server, the limit or a failure, what is kept
\* is what was received up to the limit, and is called truncated if and only if more was received.
THEOREM OneStoryTheorem == ProbeSpec => []HttpIsOneStory
<1>1. ProbeSafe => HttpIsOneStory
  BY HttpSafeIsEnough DEF ProbeSafe, HttpIsOneStory
<1> QED
  BY <1>1, ProbeSafeIsInductive, PTL

\* For every list of preferences and every offer, a posture says complete exactly when each
\* list has a common algorithm, and names the client's first one; and for every chain and
\* every limit, a handshake tells the same of it whether it was accepted or not, and tells
\* every limit that the chain met.
THEOREM EarnedTheorem == ProbeSpec => []EvidenceIsEarned
<1>1. ProbeSafe => EvidenceIsEarned
  BY ToldIsEnough DEF ProbeSafe, SshSafe, EvidenceIsEarned
<1> QED
  BY <1>1, ProbeSafeIsInductive, PTL
=============================================================================
