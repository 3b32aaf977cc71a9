---------------------------- MODULE ActiveStages ----------------------------
(***************************************************************************)
(* The active stages of a scan: ports, services, SSH, HTTP and TLS, each a *)
(* pool of probes (buffer_unordered) under a child of the operator's token *)
(* that a deadline task cancels too.  This is the Run of ScanLifecycle,    *)
(* probe by probe.                                                         *)
(***************************************************************************)
EXTENDS Naturals, Sequences, FiniteSets, FiniteSetsExt

CONSTANTS
    Endpoints,     \* the endpoints to probe
    Concurrency,   \* --concurrency
    ServiceLimit,  \* service.rs: MAX_SERVICE_ENDPOINTS
    ActiveLimit,   \* engine.rs: MAX_ACTIVE_ENDPOINTS
    Failures,      \* the kinds of I/O errors an instance meets
    Selected       \* the stages selected besides "ports"

Transports == {"tcp", "udp"}
ErrorKinds == {"refused", "timed_out", "host_unreachable", "network_unreachable", "other"}

ASSUME StagesAssumption ==
    /\ Endpoints \subseteq [transport : Transports, ip : Nat, port : Nat] /\ IsFiniteSet(Endpoints)
    /\ Concurrency \in Nat \ {0} /\ ServiceLimit \in Nat /\ ActiveLimit \in Nat
    /\ ActiveLimit <= ServiceLimit   \* both are 256
    /\ Failures \subseteq ErrorKinds
    /\ Selected \subseteq {"services", "http", "tls"}
    /\ "services" \notin Selected => Selected = {}

\* The services stage goes on with analyze_ssh.
Stages ==
    CASE Selected = {} -> <<"ports">>
      [] Selected = {"services"} -> <<"ports", "services", "ssh">>
      [] Selected = {"services", "http"} -> <<"ports", "services", "ssh", "http">>
      [] Selected = {"services", "tls"} -> <<"ports", "services", "ssh", "tls">>
      [] Selected = {"services", "http", "tls"} -> <<"ports", "services", "ssh", "http", "tls">>

VARIABLES
    at,          \* the position of the current stage, and where the engine is in it
    pool,        \* the probes not started, per lane, and the ones in flight
    fired,       \* the deadline task of the stage cancelled its token
    port,        \* the state of each probed endpoint
    service,     \* the identified service of an endpoint
    analysis,    \* per stage after services: what its probe of an endpoint came to
    warned,      \* "active protocol probing truncated"
    outcome, cancelled, expired

vars == <<at, pool, fired, port, service, analysis, warned, outcome, cancelled, expired>>

PortStates == {"open", "closed", "open_filtered", "timed_out", "unreachable", "error", "cancelled"}
ServiceKinds == {"ssh", "http", "https", "tls", "other", "unknown"}
Analyses == {"none", "observed", "timed_out", "cancelled"}

Stage == Stages[at.stage]
Lanes == {"tcp", "udp"}   \* only ports are probed in two

StagesTypeOK ==
    /\ at \in [stage : DOMAIN Stages, step : {"gate", "run", "check", "finish"}]
    /\ pool \in [queue : [Lanes -> SUBSET Endpoints], running : SUBSET Endpoints]
    /\ fired \in BOOLEAN /\ warned \in BOOLEAN /\ cancelled \in BOOLEAN /\ expired \in BOOLEAN
    /\ port \in [Endpoints -> PortStates \cup {"none"}]
    /\ service \in [Endpoints -> ServiceKinds \cup {"none"}]
    /\ analysis \in [{"ssh", "http", "tls"} -> [Endpoints -> Analyses]]
    /\ outcome \in {"running", "cancelled", "timeout", "settled"}

-----------------------------------------------------------------------------
(* Ports and services as the source classifies them. *)

classify_error(kind) ==
    CASE kind = "refused" -> "closed"
      [] kind = "timed_out" -> "timed_out"
      [] kind \in {"host_unreachable", "network_unreachable"} -> "unreachable"
      [] OTHER -> "error"

\* What connect and probe_udp may report besides a cancellation.
Replies(transport) ==
    {"open"} \cup {classify_error(k) : k \in Failures}
             \cup {IF transport = "tcp" THEN "timed_out" ELSE "open_filtered"}

WebPorts == {80, 443, 8000, 8080, 8443}   \* analyze_http takes them whatever answered

\* The port registry, as far as later stages tell its entries apart.
HttpPorts == {80, 8000, 8080, 8888}
HttpsPorts == {443, 8443}
ImplicitTls == {465, 993, 995, 2376, 2484, 5671, 6443, 8883, 15671}
OtherPorts(transport) ==
    {53, 2049, 3389, 7777, 11211, 19132, 19133} \cup
    (IF transport = "udp" THEN {2456, 2457, 2458, 3478, 27015, 34197, 51820}
     ELSE {21, 25, 110, 143, 445, 587, 1433, 1521, 1883, 2375, 2483, 3000, 3306, 5432, 5672, 5900,
           6379, 7474, 7687, 8123, 9000, 9042, 9090, 9092, 9100, 9200, 9300, 15672, 25565, 27017,
           33060, 33073, 33080})

hinted_service(e) ==
    CASE e.transport = "tcp" /\ e.port \in HttpPorts -> "http"
      [] e.transport = "tcp" /\ e.port \in HttpsPorts -> "https"
      [] e.transport = "tcp" /\ e.port \in ImplicitTls -> "tls"
      [] e.port \in OtherPorts(e.transport) -> "other"
      [] OTHER -> "unknown"

\* classify_banner: an SSH or HTTP banner wins over the hint of the port.
Identified(e) == {"ssh", "http", hinted_service(e)}

\* The order of socket addresses, in which probes start.
Before(d, e) == d.ip < e.ip \/ (d.ip = e.ip /\ d.port < e.port)

Lane(t) == {e \in Endpoints : e.transport = t}
OpenTcp == {e \in Lane("tcp") : port[e] = "open"}
Probed_Bug == {e \in OpenTcp : Cardinality({d \in OpenTcp : Before(d, e)}) + 1 < ServiceLimit}   \* one too few
Probed == {e \in OpenTcp : Cardinality({d \in OpenTcp : Before(d, e)}) < ServiceLimit}
Unprobed == OpenTcp \ Probed

HttpCandidate(e) == service[e] \in {"http", "https"} \/ (service[e] # "none" /\ e.port \in WebPorts)
TlsCandidate(e) == service[e] \in {"https", "tls"}

\* The endpoints a stage probes; UDP is only looked at for ports.
Candidates(s) ==
    CASE s = "ports" -> Endpoints
      [] s = "services" -> Probed
      [] s = "ssh" -> {e \in Lane("tcp") : service[e] = "ssh"}
      [] s = "http" -> {e \in Lane("tcp") : HttpCandidate(e)}
      [] s = "tls" -> {e \in Lane("tcp") : TlsCandidate(e)}

Width(s) == CASE s = "ports" -> (Concurrency + 1) \div 2
              [] s = "services" -> Min({Concurrency, 32})
              [] OTHER -> Min({Concurrency, 16})

-----------------------------------------------------------------------------

Empty == [lane \in Lanes |-> {}]

Init == /\ at = [stage |-> 1, step |-> "gate"]
        /\ pool = [queue |-> Empty, running |-> {}]
        /\ fired = FALSE /\ warned = FALSE /\ cancelled = FALSE /\ expired = FALSE
        /\ port = [e \in Endpoints |-> "none"] /\ service = [e \in Endpoints |-> "none"]
        /\ analysis = [s \in {"ssh", "http", "tls"} |-> [e \in Endpoints |-> "none"]]
        /\ outcome = "running"

results == <<port, service, analysis>>
Running == outcome = "running"

\* The engine before a stage: only the deadline is looked at, and not before SSH.
Gate ==
    /\ Running /\ at.step = "gate"
    /\ IF expired /\ Stage # "ssh"
       THEN outcome' = "timeout" /\ UNCHANGED <<at, pool, fired, warned>>
       ELSE /\ at' = [at EXCEPT !.step = "run"]
            /\ pool' = [pool EXCEPT !.queue = [lane \in Lanes |-> Candidates(Stage) \cap Lane(lane)]]
            /\ fired' = FALSE
            /\ warned' = (warned \/ /\ Stage = "services"
                                    /\ Cardinality({e \in Endpoints : port[e] = "open"}) > ActiveLimit)
            /\ UNCHANGED outcome
    /\ UNCHANGED <<results, cancelled, expired>>

InLane(lane) == {e \in pool.running : Stage = "ports" => e.transport = lane}

\* buffer_unordered starts the next probe as soon as one of its places is free.
Start(lane) ==
    /\ Running /\ at.step = "run" /\ Cardinality(InLane(lane)) < Width(Stage)
    /\ \E e \in pool.queue[lane] :
          /\ \A d \in pool.queue[lane] : ~Before(d, e)
          /\ pool' = [queue |-> [pool.queue EXCEPT ![lane] = @ \ {e}], running |-> pool.running \cup {e}]
    /\ UNCHANGED <<at, fired, results, warned, outcome, cancelled, expired>>

Leave(e) == pool' = [pool EXCEPT !.running = @ \ {e}]
Token == cancelled \/ fired   \* the stage's child token

\* connect and probe_udp: a select that is not biased, so an answer may win over the token.
Connect(e) ==
    /\ Stage = "ports"
    /\ \/ Token /\ port' = [port EXCEPT ![e] = "cancelled"]
       \/ \E state \in Replies(e.transport) : port' = [port EXCEPT ![e] = state]
    /\ UNCHANGED <<service, analysis>>

\* probe: nothing once it is cancelled; without a usable answer, the hint of the port.
Probe(e) ==
    /\ Stage = "services"
    /\ \/ Token /\ UNCHANGED service
       \/ \E kind \in Identified(e) : service' = [service EXCEPT ![e] = kind]
    /\ UNCHANGED <<port, analysis>>

\* ssh.rs inspect: the operator's token first, then the answer or the caller's deadline.
InspectSsh(e) ==
    /\ Stage = "ssh"
    /\ \E a \in IF cancelled THEN {"cancelled"}
                ELSE {"observed"} \cup (IF expired THEN {"timed_out"} ELSE {}) :
          analysis' = [analysis EXCEPT !["ssh"][e] = a]
    /\ UNCHANGED <<port, service>>

\* http.rs and tls.rs inspect: TLS asks the token first, HTTP in no order; a cancelled
\* probe leaves nothing, any other an observation, of a failure if it failed.
Inspect(e) ==
    /\ Stage \in {"http", "tls"}
    /\ \/ Token /\ UNCHANGED analysis
       \/ /\ Stage = "tls" => ~Token
          /\ analysis' = [analysis EXCEPT ![Stage][e] = "observed"]
    /\ UNCHANGED <<port, service>>

Finish(e) ==
    /\ Running /\ at.step = "run" /\ e \in pool.running
    /\ Connect(e) \/ Probe(e) \/ InspectSsh(e) \/ Inspect(e)
    /\ Leave(e)
    /\ UNCHANGED <<at, fired, warned, outcome, cancelled, expired>>

\* The deadline task of the stage; it is aborted when the stage has ended.
Fire == /\ Running /\ at.step = "run" /\ Stage # "ssh" /\ expired /\ ~fired
        /\ fired' = TRUE
        /\ UNCHANGED <<at, pool, results, warned, outcome, cancelled, expired>>

\* What detect_services adds without probing: hints beyond the limit, and UDP, which
\* counts as a service without a hint if it answered.
Added(e) ==
    IF \/ e \in Unprobed /\ hinted_service(e) # "unknown"
       \/ e.transport = "udp" /\ port[e] = "open"
       \/ e.transport = "udp" /\ port[e] = "open_filtered" /\ hinted_service(e) # "unknown"
    THEN hinted_service(e) ELSE "none"

Collect ==
    /\ Running /\ at.step = "run" /\ pool.queue = Empty /\ pool.running = {}
    /\ at' = [at EXCEPT !.step = "check"]
    /\ service' = IF Stage = "services"
                  THEN [e \in Endpoints |-> IF service[e] # "none" THEN service[e] ELSE Added(e)]
                  ELSE service
    /\ UNCHANGED <<pool, fired, port, analysis, warned, outcome, cancelled, expired>>

Advance == at' = IF at.stage = Len(Stages) THEN [at EXCEPT !.step = "finish"]
                 ELSE [stage |-> at.stage + 1, step |-> "gate"]

Met(a) == \E e \in Endpoints : analysis["ssh"][e] = a

Check_Bug ==   \* only the operator's token is asked after a stage
    /\ Running /\ at.step = "check"
    /\ \/ cancelled /\ outcome' = "cancelled" /\ UNCHANGED at
       \/ ~cancelled /\ Advance /\ UNCHANGED outcome
    /\ UNCHANGED <<pool, fired, results, warned, cancelled, expired>>

\* After a stage the token is asked, then the deadline; after SSH, its analyses.
Check ==
    /\ Running /\ at.step = "check"
    /\ LET stopped == IF Stage = "ssh" THEN Met("cancelled") ELSE cancelled
           late == IF Stage = "ssh" THEN Met("timed_out") ELSE expired
       IN  \/ stopped /\ outcome' = "cancelled" /\ UNCHANGED at
           \/ ~stopped /\ late /\ outcome' = "timeout" /\ UNCHANGED at
           \/ ~stopped /\ ~late /\ Advance /\ UNCHANGED outcome
    /\ UNCHANGED <<pool, fired, results, warned, cancelled, expired>>

\* finish_selected_report
Settle == /\ Running /\ at.step = "finish"
          /\ outcome' = IF cancelled THEN "cancelled" ELSE "settled"
          /\ UNCHANGED <<at, pool, fired, results, warned, cancelled, expired>>

Cancel == /\ Running /\ ~cancelled /\ cancelled' = TRUE
          /\ UNCHANGED <<at, pool, fired, results, warned, outcome, expired>>
Expire == /\ Running /\ ~expired /\ expired' = TRUE
          /\ UNCHANGED <<at, pool, fired, results, warned, outcome, cancelled>>

Work == \/ Gate \/ Collect \/ Check \/ Settle
        \/ \E lane \in Lanes : Start(lane)
        \/ \E e \in Endpoints : Finish(e)

Next == Work \/ Fire \/ Cancel \/ Expire

\* Every probe has a timeout of its own, so a stage's work goes on to its end.
Spec == Init /\ [][Next]_vars /\ WF_vars(Work)

-----------------------------------------------------------------------------
(* What a stage leaves behind. *)

Past(s) == \E i \in DOMAIN Stages : Stages[i] = s /\ (at.stage > i \/ at.step = "finish")

\* No stage builds on work that was cut: past the ports every endpoint has a state,
\* past the services every open one is identified, or beyond the limit and without a hint,
\* and past the others every candidate has its observation.
PassedIsWhole ==
    /\ Past("ports") => \A e \in Endpoints : port[e] \notin {"none", "cancelled"}
    /\ Past("services") =>
          \A e \in Endpoints : port[e] = "open" /\ service[e] = "none" =>
              e \in Unprobed /\ hinted_service(e) = "unknown"
    /\ \A s \in {"ssh", "http", "tls"} : Past(s) =>
          \A e \in Candidates(s) : analysis[s][e] = "observed"

\* Services left unprobed are announced: the engine counts open endpoints of both
\* transports against its limit, detect_services those of TCP against its own.
TruncationIsWarned ==
    (at.stage > 1 /\ at.step # "gate" /\ Stage # "ports") => (Unprobed # {} => warned)

\* The stages keep their types, and no limit on endpoints cuts their work unannounced.
LimitsAreKept == StagesTypeOK /\ TruncationIsWarned

-----------------------------------------------------------------------------
(* The stages implement what the scan relies on. *)

\* The work a stage set out to do is done.
Done(s, e) == CASE s = "ports" -> port[e] \notin {"none", "cancelled"}
                [] s = "services" -> service[e] # "none"
                [] OTHER -> analysis[s][e] = "observed"
Whole(s) == \A e \in Candidates(s) : Done(s, e)

Progress ==
    [i \in DOMAIN Stages |->
        IF i > at.stage \/ (i = at.stage /\ at.step = "gate") THEN "waiting"
        ELSE IF i = at.stage /\ at.step = "run" THEN "running"
        ELSE IF Whole(Stages[i]) THEN "full" ELSE "cut"]

Contract == INSTANCE StageContract WITH progress <- Progress
ImplementsContract == Contract!Spec

=============================================================================
