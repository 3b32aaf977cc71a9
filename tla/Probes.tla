------------------------------- MODULE Probes -------------------------------
(***************************************************************************)
(* One protocol probe of a stage, whichever it is: what ActiveStages takes *)
(* for one step.                                                           *)
(***************************************************************************)
EXTENDS SshExchange, HttpInspection, TlsInspection

VARIABLE protocol

probeVars == <<protocol, sshVars, httpVars, tlsVars>>

ProbeInit == /\ protocol \in {"ssh", "http", "tls"}
             /\ SshInit /\ HttpInit /\ TlsInit
             /\ protocol # "tls" => chain = <<>>

SshOnly(A) == protocol = "ssh" /\ A /\ UNCHANGED <<protocol, httpVars, tlsVars>>
HttpOnly(A) == protocol = "http" /\ A /\ UNCHANGED <<protocol, sshVars, tlsVars>>
TlsOnly(A) == protocol = "tls" /\ A /\ UNCHANGED <<protocol, sshVars, httpVars>>

ProbeNext == SshOnly(SshNext) \/ HttpOnly(HttpNext) \/ TlsOnly(TlsNext)

\* Every await ends: with what was awaited, with an error, or with the timeout around it.
ProbeWork == SshOnly(SshNext) \/ HttpOnly(HttpStep) \/ TlsOnly(TlsStep)

ProbeSpec == ProbeInit /\ [][ProbeNext]_probeVars /\ WF_probeVars(ProbeWork)

ProbeTypeOK == protocol \in {"ssh", "http", "tls"} /\ SshTypeOK /\ HttpTypeOK /\ TlsTypeOK

\* No peer decides how much a probe reads, keeps or asks: every read is within
\* the limit of what it is for, and a redirect never leads off the endpoint.
ProbesAreBounded == ProbeTypeOK /\ BoundedReading /\ StaysOnOrigin

\* What an SSH or TLS endpoint is said to offer follows from what was received
\* whole, and a handshake that fails is told from the same chain as one that succeeds.
EvidenceIsEarned == PostureIsEarned /\ SameEvidence /\ NothingUnsaid

\* The HTTP observation is one story from the first request to the answer; of its body it
\* keeps what was received up to the limit, and is called truncated if and only if more was
\* received.  It does not say whether the stream failed before the server's end.
HttpIsOneStory == ChainLeadsToEvidence /\ BodyIsAccounted

\* No peer holds a probe: whatever it sends or withholds, the probe ends.
ProbeEnds == <>(sshAt = "done" \/ httpAt = "done" \/ tlsAt = "done")
=============================================================================
