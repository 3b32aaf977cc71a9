--------------------------- MODULE HttpInspection ---------------------------
(***************************************************************************)
(* http.rs: one look at a web endpoint.  Redirects are followed by hand on *)
(* the origin the endpoint has, the body is read up to a limit, and three  *)
(* well-known paths are asked for.                                         *)
(***************************************************************************)
EXTENDS Naturals, Sequences, FiniteSets, SequencesExt

CONSTANTS
    MaxRedirects, MaxBodyBytes,
    Origins,     \* scheme, host and port; Home is the endpoint's own
    Home,
    Paths,       \* paths a server redirects to; the initial path is among them
    InitialPath,
    ChunkSizes   \* sizes of the chunks a body arrives in

WellKnown == <<"robots.txt", "security.txt", "sitemap.xml">>

ASSUME HttpAssumption ==
    /\ MaxRedirects \in Nat /\ MaxBodyBytes \in Nat /\ ChunkSizes \subseteq Nat
    /\ Origins \subseteq [scheme : STRING, host : STRING, port : Nat]
    /\ Home \in Origins /\ InitialPath \in Paths

VARIABLES
    httpAt,     \* where the inspection is
    current,    \* the URL asked for next, or last
    redirects,  \* the chain that is recorded
    response,   \* the URL whose answer is the evidence, with its Location
    body,       \* bytes kept and body_truncated; as history, bytes received and whether the stream failed
    presence,   \* what is known of the well-known paths
    requests,   \* every request sent, in order
    observation

httpVars == <<httpAt, current, redirects, response, body, presence, requests, observation>>

Urls == [origin : Origins, path : Paths \cup ToSet(WellKnown)]
initial_url == [origin |-> Home, path |-> InitialPath]
NoUrl == [origin |-> Home, path |-> "none"]

HttpTypeOK ==
    /\ httpAt \in {"request", "follow", "body", "paths", "done"}
    /\ current \in Urls /\ response \in Urls \cup {NoUrl}
    /\ redirects \in Seq([from : Urls, to : Urls]) /\ Len(redirects) <= MaxRedirects + 1
    /\ body \in [kept : Nat, truncated : BOOLEAN, received : Nat, failed : BOOLEAN]
    /\ presence \in Seq({"present", "absent", "unknown"}) /\ Len(presence) <= Len(WellKnown)
    /\ requests \in Seq(Urls)
    /\ observation \in {"none", "evidence", "error", "dropped"}

HttpInit ==
    /\ httpAt = "request" /\ current = initial_url /\ redirects = <<>> /\ response = NoUrl
    /\ body = [kept |-> 0, truncated |-> FALSE, received |-> 0, failed |-> FALSE]
    /\ presence = <<>> /\ requests = <<>> /\ observation = "none"

\* The request is answered within its timeout, or the endpoint is an error.
Get ==
    /\ httpAt = "request" /\ requests' = Append(requests, current)
    /\ \/ /\ httpAt' = "follow" /\ response' = current /\ UNCHANGED <<redirects, observation>>
       \/ /\ httpAt' = "done" /\ observation' = "error" /\ redirects' = <<>> /\ UNCHANGED response
    /\ UNCHANGED <<current, body, presence>>

\* Without a redirection, a usable Location or room in the chain, this is the answer.
Settled ==
    /\ httpAt = "follow" /\ httpAt' = "body"
    /\ UNCHANGED <<current, redirects, response, body, presence, requests, observation>>

same_origin(next) ==
    /\ next.origin.scheme = initial_url.origin.scheme
    /\ next.origin.host = initial_url.origin.host /\ next.origin.port = initial_url.origin.port

Follow_Bug(next) ==   \* current is moved before the origin is compared
    /\ httpAt = "follow" /\ Len(redirects) < MaxRedirects
    /\ redirects' = Append(redirects, [from |-> current, to |-> next])
    /\ current' = next /\ httpAt' = IF same_origin(next) THEN "request" ELSE "body"
    /\ UNCHANGED <<response, body, presence, requests, observation>>

\* A redirect is recorded wherever it leads, and followed on the initial origin only.
Follow(next) ==
    /\ httpAt = "follow" /\ Len(redirects) < MaxRedirects
    /\ redirects' = Append(redirects, [from |-> current, to |-> next])
    /\ IF same_origin(next) THEN httpAt' = "request" /\ current' = next
                            ELSE httpAt' = "body" /\ UNCHANGED current
    /\ UNCHANGED <<response, body, presence, requests, observation>>

Remaining == MaxBodyBytes - body.kept

\* What a server sends is bounded here by twice the limit: the first byte past it is the last.
Chunk(size) ==
    /\ httpAt = "body" /\ body.received + size <= 2 * MaxBodyBytes
    /\ IF size > Remaining
       THEN /\ httpAt' = "paths"
            /\ body' = [body EXCEPT !.kept = body.kept + Remaining, !.truncated = TRUE, !.received = body.received + size]
       ELSE /\ UNCHANGED httpAt
            /\ body' = [body EXCEPT !.kept = body.kept + size, !.received = body.received + size]
    /\ UNCHANGED <<current, redirects, response, presence, requests, observation>>

\* The server has sent all of its body.
EndBody == /\ httpAt = "body" /\ httpAt' = "paths"
           /\ UNCHANGED <<current, redirects, response, body, presence, requests, observation>>

\* A reset, or the client's timeout over the whole request: what came is kept, and neither
\* body_truncated nor the observation's error tells of it.
FailBody ==
    /\ httpAt = "body" /\ httpAt' = "paths" /\ body' = [body EXCEPT !.failed = TRUE]
    /\ UNCHANGED <<current, redirects, response, presence, requests, observation>>

\* check_path asks on the initial origin, whatever the redirects came to.
check_path ==
    /\ httpAt = "paths" /\ Len(presence) < Len(WellKnown)
    /\ requests' = Append(requests, [initial_url EXCEPT !.path = WellKnown[Len(presence) + 1]])
    /\ \E known \in {"present", "absent", "unknown"} : presence' = Append(presence, known)
    /\ UNCHANGED <<httpAt, current, redirects, response, body, observation>>

Observe == /\ httpAt = "paths" /\ Len(presence) = Len(WellKnown)
           /\ httpAt' = "done" /\ observation' = "evidence"
           /\ UNCHANGED <<current, redirects, response, body, presence, requests>>

\* The select in inspect: a cancelled inspection leaves nothing.
Drop == /\ httpAt # "done" /\ httpAt' = "done" /\ observation' = "dropped"
        /\ UNCHANGED <<current, redirects, response, body, presence, requests>>

HttpStep ==
    \/ Get \/ Settled \/ EndBody \/ FailBody \/ check_path \/ Observe
    \/ \E next \in [origin : Origins, path : Paths] : Follow(next)
    \/ \E size \in ChunkSizes : Chunk(size)

HttpNext == HttpStep \/ Drop
HttpSpec == HttpInit /\ [][HttpNext]_httpVars

-----------------------------------------------------------------------------

\* No request leaves the origin of the endpoint, and their number is bounded, whatever
\* chain of redirects a server makes up.
StaysOnOrigin ==
    /\ \A i \in DOMAIN requests : requests[i].origin = Home
    /\ Len(requests) <= MaxRedirects + 1 + Len(WellKnown)

\* The evidence is one story: the chain starts at the initial URL, each hop starts where
\* the last one led, and the answer that is reported is the one of final_url, which is the
\* end of the chain, or its last start if the last hop left the origin.
ChainLeadsToEvidence ==
    observation = "evidence" =>
        /\ response = current
        /\ redirects = <<>> => current = initial_url
        /\ \A i \in DOMAIN redirects :
              redirects[i].from = IF i = 1 THEN initial_url ELSE redirects[i - 1].to
        /\ redirects # <<>> =>
              LET last == Last(redirects)
              IN  current = IF last.to.origin = Home THEN last.to ELSE last.from

\* Nothing that was received within the limit is lost, and body_truncated tells exactly of
\* the limit: it is set when more than that was received, and never for a stream that failed.
\* A body that is not called truncated is therefore what came, not what the server had:
\* after FailBody it may be a part, and the evidence does not tell.
BodyIsAccounted ==
    observation = "evidence" =>
        /\ body.truncated <=> body.received > MaxBodyBytes
        /\ body.kept = IF body.truncated THEN MaxBodyBytes ELSE body.received
        /\ body.failed => ~body.truncated
=============================================================================
