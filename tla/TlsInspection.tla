--------------------------- MODULE TlsInspection ---------------------------
(***************************************************************************)
(* tls.rs: one validating handshake.  The verifier records the chain it is *)
(* asked about before it judges it, so that a handshake that fails leaves  *)
(* evidence of the certificates too.                                       *)
(***************************************************************************)
EXTENDS Naturals, Sequences, FiniteSets, FiniteSetsExt, SequencesExt

CONSTANTS
    MaxCertificates, MaxCertificateDerBytes, MaxSubjectAltNames,
    Chains   \* what a peer presents: certificates of a size, with names, that parse or not

ASSUME TlsAssumption ==
    /\ MaxCertificates \in Nat \ {0} /\ MaxCertificateDerBytes \in Nat /\ MaxSubjectAltNames \in Nat
    /\ Chains \subseteq Seq([size : Nat, names : Seq(STRING), parses : BOOLEAN])

VARIABLES
    tlsAt,     \* where the handshake is
    chain,     \* what the peer presents; nothing in a handshake without certificates
    capture,   \* what the verifier recorded
    tls        \* the observation

tlsVars == <<tlsAt, chain, capture, tls>>

Notes == {"failed", "limited certificates", "limited bytes", "unparsed leaf"}

\* The fields taken from the leaf come together, in leaf; the names are limited.
NoEvidence == [length |-> 0, leaf |-> FALSE, names |-> {}, names_truncated |-> FALSE, errors |-> {}]

TlsTypeOK ==
    /\ tlsAt \in {"connect", "hello", "verify", "finished", "done"}
    /\ capture.length \in Nat /\ capture.truncated \in BOOLEAN /\ capture.certificates \in Seq(UNION {ToSet(c) : c \in Chains})
    /\ tls.outcome \in {"none", "succeeded", "failed", "dropped"}
    /\ tls.evidence.errors \subseteq Notes /\ tls.evidence.length \in Nat

\* What the first i certificates come to.
Totals(certificates) ==
    LET sum[i \in 0 .. Len(certificates)] == IF i = 0 THEN 0 ELSE sum[i - 1] + certificates[i].size
    IN  sum
Total(certificates) == Totals(certificates)[Len(certificates)]

\* The longest start of a chain within both limits: as many as fit, one after the other.
Looked(certificates) == IF Len(certificates) < MaxCertificates THEN Len(certificates) ELSE MaxCertificates
Fit(certificates) ==
    Cardinality({i \in 1 .. Looked(certificates) : Totals(certificates)[i] <= MaxCertificateDerBytes})
Bounded(certificates) == SubSeq(certificates, 1, Fit(certificates))
BytesExceeded(certificates) == Fit(certificates) < Looked(certificates)

Unique(names) == {names[i] : i \in DOMAIN names} \ {""}
\* normalized_subject_alt_names: the first names that differ, up to the limit.
FirstNames(names) ==
    {name \in Unique(names) :
        LET first == Min({i \in DOMAIN names : names[i] = name})
        IN  Cardinality(Unique(SubSeq(names, 1, first))) <= MaxSubjectAltNames}

\* inspect_certificates
inspect_certificates(certificates, length, truncated, errors) ==
    LET inspected == Bounded(certificates)
        limited == {n \in {"limited certificates"} : length > MaxCertificates}
                   \cup {n \in {"limited bytes"} : truncated \/ BytesExceeded(certificates)}
        base == [NoEvidence EXCEPT !.length = length, !.errors = errors \cup limited]
    IN  IF inspected = <<>> THEN base
        ELSE IF ~certificates[1].parses THEN [base EXCEPT !.errors = @ \cup {"unparsed leaf"}]
        ELSE LET kept == FirstNames(certificates[1].names)
             IN  [base EXCEPT !.leaf = TRUE, !.names = kept,
                              !.names_truncated = kept # Unique(certificates[1].names)]

-----------------------------------------------------------------------------

NoCapture == [certificates |-> <<>>, length |-> 0, truncated |-> FALSE]

TlsInit ==
    /\ tlsAt = "connect" /\ chain \in Chains /\ capture = NoCapture
    /\ tls = [outcome |-> "none", trusted |-> FALSE, evidence |-> NoEvidence]

\* failed_with_capture takes the record out of the verifier.
Failed ==
    /\ tlsAt' = "done" /\ capture' = NoCapture
    /\ tls' = [outcome |-> "failed", trusted |-> FALSE,
               evidence |-> IF capture.length # 0
                            THEN inspect_certificates(capture.certificates, capture.length,
                                                      capture.truncated, {"failed"})
                            ELSE [NoEvidence EXCEPT !.errors = {"failed"}]]

Awaits == tlsAt \notin {"verify", "done"}   \* the verdict is not awaited

FailHandshake_Bug ==   \* the timeout is around the connection only
    tlsAt \in {"connect", "finished"} /\ Failed /\ UNCHANGED chain

\* A connection, an identity, an alert, a wrong signature or the timeout: any step may fail.
FailHandshake == Awaits /\ Failed /\ UNCHANGED chain

ConnectTls == /\ tlsAt = "connect" /\ tlsAt' = "hello"
              /\ UNCHANGED <<chain, capture, tls>>

\* record_certificates, before the delegate's verdict is known.
Record ==
    capture' = [certificates |-> Bounded(chain), length |-> Len(chain), truncated |-> BytesExceeded(chain)]

Present == /\ tlsAt = "hello" /\ chain # <<>> /\ Record
           /\ tlsAt' = "verify" /\ UNCHANGED <<chain, tls>>

\* verify_server_cert returns the delegate's verdict unchanged.
Verdict ==
    /\ tlsAt = "verify" /\ UNCHANGED chain
    /\ \E valid \in BOOLEAN :
          IF valid THEN tlsAt' = "finished" /\ tls' = [tls EXCEPT !.trusted = TRUE] /\ UNCHANGED capture
          ELSE Failed

\* The handshake completes; inspect_inner looks at the chain of the connection itself.
Succeed ==
    /\ tlsAt = "finished" /\ tlsAt' = "done" /\ capture' = NoCapture
    /\ tls' = [tls EXCEPT !.outcome = "succeeded",
                          !.evidence = inspect_certificates(chain, Len(chain), FALSE, {})]
    /\ UNCHANGED chain

CancelTls == /\ Awaits /\ tlsAt' = "done" /\ tls' = [tls EXCEPT !.outcome = "dropped"]
             /\ UNCHANGED <<chain, capture>>

TlsStep == ConnectTls \/ Present \/ Verdict \/ Succeed \/ FailHandshake
TlsNext == TlsStep \/ CancelTls
TlsSpec == TlsInit /\ [][TlsNext]_tlsVars

-----------------------------------------------------------------------------

\* The evidence does not depend on how the handshake ended: a chain that was recorded is
\* told as if it had been accepted, with every limit it met, through the record too.
SameEvidence ==
    (tls.outcome \in {"succeeded", "failed"} /\ tls.evidence.length # 0) =>
        /\ tls.evidence.errors \ {"failed"} = inspect_certificates(chain, Len(chain), FALSE, {}).errors
        /\ [tls.evidence EXCEPT !.errors = {}] =
              [inspect_certificates(chain, Len(chain), FALSE, {}) EXCEPT !.errors = {}]

\* Only a handshake with a valid verdict is observed as trusted, a chain whose limits are
\* not told was looked at as a whole, and names that are not called truncated are all.
NothingUnsaid ==
    /\ tls.outcome = "succeeded" => tls.trusted
    /\ tls.outcome = "failed" => ~tls.trusted /\ "failed" \in tls.evidence.errors
    /\ tls.evidence.length # 0 /\ {"limited bytes", "limited certificates"} \cap tls.evidence.errors = {} =>
          Total(chain) <= MaxCertificateDerBytes /\ Len(chain) <= MaxCertificates
    /\ tls.evidence.leaf /\ ~tls.evidence.names_truncated =>
          tls.evidence.names = Unique(chain[1].names)
=============================================================================
