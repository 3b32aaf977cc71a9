------------------------- MODULE ActiveStagesProofs -------------------------
(***************************************************************************)
(* The active stages never build on work that was cut, announce what a     *)
(* limit leaves out and implement their contract step by step, for every   *)
(* set of endpoints, every limit and every selection.                      *)
(***************************************************************************)
EXTENDS ActiveStages, TLAPS, FiniteSetTheorems

Cut == cancelled \/ expired

\* A probe that returned: with its result, or because of a stop, of which SSH keeps the reason.
Reached(s, e) == Done(s, e) \/ IF s = "ssh" THEN analysis[s][e] # "none" ELSE Cut

\* Between stages the pool is empty; within one every candidate is waiting, in flight or through.
Pooled ==
    /\ at.step # "run" => pool.running = {} /\ pool.queue = Empty
    /\ at.step = "run" => \A e \in Candidates(Stage) : \/ e \in pool.running \/ Reached(Stage, e)
                                                       \/ \E lane \in Lanes : e \in pool.queue[lane]
    /\ at.step = "check" => \A e \in Candidates(Stage) : Reached(Stage, e)
    /\ at.step = "finish" => at.stage = Len(Stages)

\* What stopped a probe had really happened.
Stopped ==
    /\ fired => expired
    /\ \A e \in Endpoints : /\ analysis["ssh"][e] = "cancelled" => cancelled
                            /\ analysis["ssh"][e] = "timed_out" => expired

Passed(i) == i < at.stage \/ at.step = "finish"

\* The stages that were passed are whole.
Worked == \A i \in DOMAIN Stages : Passed(i) => Whole(Stages[i])

\* No stop came in a services stage that ended, so that what was added to its probes is whole as well.
Identification ==
    Past("services") \/ (Stage = "services" /\ at.step = "check" /\ ~Cut) =>
        \A e \in Endpoints : port[e] = "open" /\ service[e] = "none" =>
            e \in Unprobed /\ hinted_service(e) = "unknown"

\* From the services stage on.
Announced == at.stage > 2 \/ (at.stage = 2 /\ at.step # "gate") => (Unprobed # {} => warned)

IInv == StagesTypeOK /\ Pooled /\ Stopped /\ Worked /\ Identification /\ Announced

-----------------------------------------------------------------------------
(* The schedule. *)

LEMMA StagesAre ==
    \/ Stages = <<"ports">>
    \/ Stages = <<"ports", "services", "ssh">>
    \/ Stages = <<"ports", "services", "ssh", "http">>
    \/ Stages = <<"ports", "services", "ssh", "tls">>
    \/ Stages = <<"ports", "services", "ssh", "http", "tls">>
<1>1. Selected \in {{}, {"services"}, {"services", "http"}, {"services", "tls"}, {"services", "http", "tls"}}
  BY StagesAssumption
<1> QED
  BY <1>1 DEF Stages

LEMMA Schedule ==
    /\ Len(Stages) \in Nat \ {0} /\ DOMAIN Stages = 1 .. Len(Stages)
    /\ \A i \in DOMAIN Stages :
          /\ Stages[i] \in {"ports", "services", "ssh", "http", "tls"}
          /\ (Stages[i] = "ports" <=> i = 1) /\ (Stages[i] = "services" <=> i = 2)
          /\ (Stages[i] = "ssh" <=> i = 3)
          /\ \A j \in DOMAIN Stages : Stages[i] = Stages[j] => i = j
    /\ Len(Stages) > 1 => Len(Stages) >= 3
<1>1. CASE Stages = <<"ports">>
  BY <1>1
<1>2. CASE Stages = <<"ports", "services", "ssh">>
  BY <1>2
<1>3. CASE Stages = <<"ports", "services", "ssh", "http">>
  BY <1>3
<1>4. CASE Stages = <<"ports", "services", "ssh", "tls">>
  BY <1>4
<1>5. CASE Stages = <<"ports", "services", "ssh", "http", "tls">>
  BY <1>5
<1> QED
  BY StagesAre, <1>1, <1>2, <1>3, <1>4, <1>5

\* The position of a stage in an order of at most five, and which stage that is.
LEMMA AtFacts ==
    ASSUME StagesTypeOK
    PROVE  /\ at.stage \in DOMAIN Stages /\ at.stage \in Nat \ {0} /\ at.stage <= Len(Stages)
           /\ at.step \in {"gate", "run", "check", "finish"}
           /\ Stage \in {"ports", "services", "ssh", "http", "tls"}
           /\ (Stage = "ports" <=> at.stage = 1) /\ (Stage = "services" <=> at.stage = 2)
           /\ (Stage = "ssh" <=> at.stage = 3)
BY Schedule DEF StagesTypeOK, Stage

-----------------------------------------------------------------------------
(* What steps that change no results leave as it was. *)

LEMMA CandidatesKept ==
    ASSUME UNCHANGED <<port, service>>, NEW s
    PROVE  Candidates(s)' = Candidates(s) /\ Unprobed' = Unprobed /\ OpenTcp' = OpenTcp
<1>1. OpenTcp' = OpenTcp
  BY DEF OpenTcp
<1>2. Probed' = Probed /\ Unprobed' = Unprobed
  BY <1>1 DEF Probed, Unprobed
<1>3. {e \in Lane("tcp") : HttpCandidate(e)}' = {e \in Lane("tcp") : HttpCandidate(e)}
  BY DEF HttpCandidate
<1>4. {e \in Lane("tcp") : TlsCandidate(e)}' = {e \in Lane("tcp") : TlsCandidate(e)}
  BY DEF TlsCandidate
<1> QED
  BY <1>1, <1>2, <1>3, <1>4 DEF Candidates

LEMMA ResultsKept ==
    ASSUME UNCHANGED results, NEW s
    PROVE  /\ Candidates(s)' = Candidates(s) /\ Unprobed' = Unprobed
           /\ \A e : Done(s, e)' <=> Done(s, e)
           /\ Whole(s)' <=> Whole(s)
<1>1. UNCHANGED <<port, service, analysis>>
  BY DEF results
<1>2. Candidates(s)' = Candidates(s) /\ Unprobed' = Unprobed
  BY <1>1, CandidatesKept
<1>3. \A e : Done(s, e)' <=> Done(s, e)
  BY <1>1 DEF Done
<1> QED
  BY <1>2, <1>3 DEF Whole

LEMMA ReachedKept ==
    ASSUME UNCHANGED results, Cut => Cut', NEW s, NEW e, Reached(s, e)
    PROVE  Reached(s, e)'
<1>1. Done(s, e)' <=> Done(s, e)
  BY ResultsKept
<1>2. analysis' = analysis
  BY DEF results
<1> QED
  BY <1>1, <1>2 DEF Reached

\* Within a stage, and when a stop is sent, nothing is taken back and nothing moves on.
LEMMA StayingSafe ==
    ASSUME IInv, UNCHANGED <<at, results, warned>>, StagesTypeOK', Pooled', Stopped', Cut => Cut'
    PROVE  IInv'
<1>1. Stage' = Stage /\ \A s : (Past(s)' <=> Past(s))
  BY DEF Stage, Past
<1>2. Unprobed' = Unprobed /\ port' = port /\ service' = service
  BY ResultsKept DEF results
<1>3. Worked'
  BY ResultsKept DEF IInv, Worked, Passed
<1>4. Identification'
  BY <1>1, <1>2 DEF IInv, Identification
<1>5. Announced'
  BY <1>2 DEF IInv, Announced
<1> QED
  BY <1>3, <1>4, <1>5 DEF IInv

LEMMA InitSafe == Init => IInv
<1> SUFFICES ASSUME Init PROVE IInv
  OBVIOUS
<1>1. 1 \in DOMAIN Stages /\ Stage = "ports"
  BY Schedule DEF Init, Stage
<1>2. StagesTypeOK
  BY <1>1 DEF Init, StagesTypeOK, Empty, Analyses
<1>3. Pooled /\ Stopped
  BY DEF Init, Pooled, Stopped
<1>4. \A i \in DOMAIN Stages : ~Passed(i)
  BY Schedule DEF Init, Passed
<1>5. Identification
  BY <1>1, <1>4 DEF Init, Identification, Past, Passed
<1> QED
  BY <1>2, <1>3, <1>4, <1>5 DEF IInv, Worked, Announced, Init

-----------------------------------------------------------------------------
(* The steps. *)

LEMMA StartSafe ==
    ASSUME IInv, NEW lane \in Lanes, Start(lane)
    PROVE  IInv'
<1>1. PICK e \in pool.queue[lane] :
         pool' = [queue |-> [pool.queue EXCEPT ![lane] = @ \ {e}], running |-> pool.running \cup {e}]
  BY DEF Start
<1>2. at.step = "run" /\ UNCHANGED <<at, fired, results, warned, outcome, cancelled, expired>>
  BY DEF Start
<1>3. /\ pool \in [queue : [Lanes -> SUBSET Endpoints], running : SUBSET Endpoints] /\ e \in Endpoints
  BY DEF IInv, StagesTypeOK
<1>4. pool' \in [queue : [Lanes -> SUBSET Endpoints], running : SUBSET Endpoints]
  BY <1>1, <1>3
<1>5. StagesTypeOK'
  BY <1>2, <1>4 DEF IInv, StagesTypeOK, results
<1>6. Stage' = Stage /\ Candidates(Stage)' = Candidates(Stage)
  BY <1>2, ResultsKept DEF Stage
<1>7. \A d \in Candidates(Stage) : \/ d \in pool'.running \/ Reached(Stage, d)'
                                   \/ \E l \in Lanes : d \in pool'.queue[l]
  <2> SUFFICES ASSUME NEW d \in Candidates(Stage), d \notin pool'.running
               PROVE  Reached(Stage, d)' \/ \E l \in Lanes : d \in pool'.queue[l]
    OBVIOUS
  <2>1. d \notin pool.running /\ d # e
    BY <1>1
  <2>2. CASE Reached(Stage, d)
    <3>1. (Cut => Cut') /\ UNCHANGED results
      BY <1>2 DEF Cut
    <3> QED
      BY <1>6, <2>2, <3>1, ReachedKept DEF Stage
  <2>3. CASE \E l \in Lanes : d \in pool.queue[l]
    BY <1>1, <1>3, <2>1, <2>3
  <2> QED
    BY <1>2, <2>1, <2>2, <2>3 DEF IInv, Pooled
<1>8. Pooled'
  BY <1>2, <1>6, <1>7 DEF Pooled, Reached, Stage
<1>9. Stopped'
  BY <1>2 DEF IInv, Stopped, results
<1> QED
  BY <1>2, <1>5, <1>8, <1>9, StayingSafe DEF Cut

LEMMA FireSafe == ASSUME IInv, Fire PROVE IInv'
<1>1. at.step = "run" /\ expired /\ fired' = TRUE /\ UNCHANGED <<at, pool, results, warned, outcome, cancelled, expired>>
  BY DEF Fire
<1>2. StagesTypeOK'
  BY <1>1 DEF IInv, StagesTypeOK, results
<1>3. Stage' = Stage /\ Candidates(Stage)' = Candidates(Stage)
  BY <1>1, ResultsKept DEF Stage
<1>4. Pooled'
  BY <1>1, <1>3, ReachedKept DEF IInv, Pooled, Cut, Stage
<1>5. Stopped'
  BY <1>1 DEF IInv, Stopped, results
<1> QED
  BY <1>1, <1>2, <1>4, <1>5, StayingSafe DEF Cut

LEMMA SignalSafe ==
    ASSUME IInv, cancelled => cancelled', expired => expired', cancelled' \in BOOLEAN, expired' \in BOOLEAN,
           UNCHANGED <<at, pool, fired, results, warned, outcome>>
    PROVE  IInv'
<1>1. Cut => Cut'
  BY DEF Cut
<1>2. StagesTypeOK'
  BY DEF IInv, StagesTypeOK, results
<1>3. Stage' = Stage /\ Candidates(Stage)' = Candidates(Stage)
  BY ResultsKept DEF Stage
<1>4. Pooled'
  BY <1>1, <1>3, ReachedKept DEF IInv, Pooled, Stage
<1>5. Stopped'
  BY DEF IInv, Stopped, results
<1> QED
  BY <1>1, <1>2, <1>4, <1>5, StayingSafe

LEMMA HintHasItsType == \A e : hinted_service(e) \in ServiceKinds
BY DEF hinted_service, ServiceKinds

\* A probe that returns leaves the types, and its endpoint is through; stages before it keep their results.
LEMMA FinishResults ==
    ASSUME IInv, NEW e \in Endpoints, Finish(e)
    PROVE  /\ port' \in [Endpoints -> PortStates \cup {"none"}]
           /\ service' \in [Endpoints -> ServiceKinds \cup {"none"}]
           /\ analysis' \in [{"ssh", "http", "tls"} -> [Endpoints -> Analyses]]
           /\ \A d \in Endpoints : /\ analysis'["ssh"][d] = "cancelled" => cancelled
                                   /\ analysis'["ssh"][d] = "timed_out" => expired
           /\ Reached(Stage, e)'
           /\ \A d \in Endpoints : Reached(Stage, d) => Reached(Stage, d)'
           /\ Candidates(Stage)' = Candidates(Stage)
           /\ \A i \in DOMAIN Stages : i < at.stage => Whole(Stages[i])'
           /\ Stage \notin {"ports", "services"} => UNCHANGED <<port, service>>
           /\ Stage # "ports" => UNCHANGED port
<1>1. /\ UNCHANGED <<at, fired, warned, outcome, cancelled, expired>> /\ e \in pool.running
      /\ at.step = "run" /\ (Connect(e) \/ Probe(e) \/ InspectSsh(e) \/ Inspect(e))
  BY DEF Finish
<1>2. /\ port \in [Endpoints -> PortStates \cup {"none"}] /\ service \in [Endpoints -> ServiceKinds \cup {"none"}]
      /\ analysis \in [{"ssh", "http", "tls"} -> [Endpoints -> Analyses]]
  BY DEF IInv, StagesTypeOK
<1>3. Stage' = Stage
  BY <1>1 DEF Stage
<1>4. Token => Cut
  BY DEF IInv, Stopped, Token, Cut
<1>5. \A i \in DOMAIN Stages : i < at.stage => Whole(Stages[i])
  BY DEF IInv, Worked, Passed
<1>6. \A d \in Endpoints : /\ analysis["ssh"][d] = "cancelled" => cancelled
                           /\ analysis["ssh"][d] = "timed_out" => expired
  BY DEF IInv, Stopped
<1>7. CASE Connect(e)
  <2>1. Stage = "ports" /\ UNCHANGED <<service, analysis>>
    BY <1>7 DEF Connect
  <2>2. at.stage = 1
    BY <2>1, AtFacts DEF IInv
  <2>3. \E state \in PortStates : /\ port' = [port EXCEPT ![e] = state] /\ (state = "cancelled" => Cut)
    <3>1. CASE Token /\ port' = [port EXCEPT ![e] = "cancelled"]
      BY <1>4, <3>1 DEF PortStates
    <3>2. ASSUME NEW state \in Replies(e.transport), port' = [port EXCEPT ![e] = state]
          PROVE  \E st \in PortStates : /\ port' = [port EXCEPT ![e] = st] /\ (st = "cancelled" => Cut)
      <4>1. state \in PortStates /\ state # "cancelled"
        BY <3>2 DEF Replies, classify_error, PortStates
      <4> QED
        BY <3>2, <4>1
    <3> QED
      BY <1>7, <3>1, <3>2 DEF Connect
  <2>4. PICK state \in PortStates : /\ port' = [port EXCEPT ![e] = state] /\ (state = "cancelled" => Cut)
    BY <2>3
  <2>5. Cut' <=> Cut
    BY <1>1 DEF Cut
  <2>6. Reached("ports", e)' /\ \A d \in Endpoints : Reached("ports", d) => Reached("ports", d)'
    BY <1>2, <2>4, <2>5 DEF Reached, Done, PortStates
  <2>7. Candidates(Stage)' = Candidates(Stage)
    BY <1>3, <2>1 DEF Candidates
  <2> QED
    BY <1>1, <1>2, <1>3, <1>6, <2>1, <2>2, <2>4, <2>6, <2>7, Schedule
<1>8. CASE Probe(e)
  <2>1. Stage = "services" /\ UNCHANGED <<port, analysis>>
    BY <1>8 DEF Probe
  <2>2. at.stage = 2 /\ 1 \in DOMAIN Stages /\ Stages[1] = "ports"
    BY <2>1, AtFacts, Schedule DEF IInv
  <2>3. \/ Cut /\ UNCHANGED service
        \/ \E kind \in ServiceKinds : service' = [service EXCEPT ![e] = kind]
    BY <1>4, <1>8, HintHasItsType DEF Probe, Identified, ServiceKinds
  <2>4. Cut' <=> Cut
    BY <1>1 DEF Cut
  <2>5. service' \in [Endpoints -> ServiceKinds \cup {"none"}]
    BY <1>2, <2>3
  <2>6. Reached("services", e)' /\ \A d \in Endpoints : Reached("services", d) => Reached("services", d)'
    BY <1>2, <2>3, <2>4 DEF Reached, Done, ServiceKinds
  <2>7. OpenTcp' = OpenTcp
    BY <2>1 DEF OpenTcp
  <2>8. Candidates(Stage)' = Candidates(Stage)
    BY <1>3, <2>1, <2>7 DEF Candidates, Probed
  <2>9. Whole("ports")'
    BY <1>5, <2>1, <2>2 DEF Whole, Candidates, Done
  <2>10. \A i \in DOMAIN Stages : i < at.stage => i = 1
    BY <2>2, Schedule
  <2>11. \A i \in DOMAIN Stages : i < at.stage => Whole(Stages[i])'
    BY <2>2, <2>9, <2>10
  <2> QED
    BY <1>1, <1>2, <1>3, <1>6, <2>1, <2>5, <2>6, <2>8, <2>11
<1>9. CASE InspectSsh(e) \/ Inspect(e)
  <2>1. UNCHANGED <<port, service>> /\ Stage \in {"ssh", "http", "tls"}
    BY <1>9 DEF InspectSsh, Inspect
  <2>2. at.stage > 2
    BY <2>1, AtFacts DEF IInv
  <2>3. \/ Cut /\ Stage # "ssh" /\ UNCHANGED analysis
        \/ \E a \in Analyses \ {"none"} : /\ analysis' = [analysis EXCEPT ![Stage][e] = a]
                                          /\ (Stage # "ssh" => a = "observed")
                                          /\ (a = "cancelled" => cancelled) /\ (a = "timed_out" => expired)
    <3>1. CASE InspectSsh(e)
      BY <3>1 DEF InspectSsh, Analyses
    <3>2. CASE Inspect(e)
      BY <1>4, <3>2 DEF Inspect, Analyses
    <3> QED
      BY <1>9, <3>1, <3>2
  <2>4. Cut' <=> Cut
    BY <1>1 DEF Cut
  <2>5. \/ Cut /\ Stage # "ssh" /\ UNCHANGED analysis
        \/ /\ analysis' \in [{"ssh", "http", "tls"} -> [Endpoints -> Analyses]]
           /\ \A s \in {"ssh", "http", "tls"}, d \in Endpoints :
                 s # Stage \/ d # e => analysis'[s][d] = analysis[s][d]
           /\ analysis'[Stage][e] # "none" /\ (Stage # "ssh" => analysis'[Stage][e] = "observed")
           /\ (analysis'[Stage][e] = "cancelled" => cancelled) /\ (analysis'[Stage][e] = "timed_out" => expired)
    BY <1>2, <2>1, <2>3
  <2>6. analysis' \in [{"ssh", "http", "tls"} -> [Endpoints -> Analyses]]
    BY <1>2, <2>5
  <2>7. \A d \in Endpoints : /\ analysis'["ssh"][d] = "cancelled" => cancelled
                             /\ analysis'["ssh"][d] = "timed_out" => expired
    BY <1>6, <2>5
  <2>8. \A s : Candidates(s)' = Candidates(s)
    BY <2>1, CandidatesKept
  <2>9. Reached(Stage, e)' /\ \A d \in Endpoints : Reached(Stage, d) => Reached(Stage, d)'
    <3>1. CASE Stage = "ssh"
      BY <1>3, <2>4, <2>5, <3>1 DEF Reached, Done
    <3>2. CASE Stage \in {"http", "tls"}
      BY <1>3, <2>4, <2>5, <3>2 DEF Reached, Done
    <3> QED
      BY <2>1, <3>1, <3>2
  <2>10. ASSUME NEW i \in DOMAIN Stages, i < at.stage
         PROVE  Whole(Stages[i])'
    <3>1. Stages[i] # Stage /\ Stages[i] \in {"ports", "services", "ssh", "http", "tls"}
      BY <2>10, AtFacts, Schedule DEF IInv, Stage
    <3>2. ASSUME NEW d \in Endpoints, Done(Stages[i], d)
          PROVE  Done(Stages[i], d)'
      BY <2>1, <2>5, <3>1, <3>2 DEF Done
    <3>3. Candidates(Stages[i]) \subseteq Endpoints
      BY <3>1 DEF Candidates, Probed, OpenTcp, Lane
    <3> QED
      BY <1>5, <2>8, <2>10, <3>2, <3>3 DEF Whole
  <2> QED
    BY <1>1, <1>2, <1>3, <2>1, <2>6, <2>7, <2>8, <2>9, <2>10
<1> QED
  BY <1>1, <1>7, <1>8, <1>9

LEMMA FinishSafe == ASSUME IInv, NEW e \in Endpoints, Finish(e) PROVE IInv'
<1>1. /\ UNCHANGED <<at, fired, warned, outcome, cancelled, expired>> /\ e \in pool.running
      /\ at.step = "run" /\ pool' = [pool EXCEPT !.running = @ \ {e}]
  BY DEF Finish, Leave
<1>2. StagesTypeOK'
  BY <1>1, FinishResults DEF IInv, StagesTypeOK
<1>3. Stage' = Stage /\ Candidates(Stage) \subseteq Endpoints
  BY <1>1, AtFacts DEF IInv, Stage, Candidates, Probed, OpenTcp, Lane
<1>4. \A d \in Candidates(Stage) : \/ d \in pool'.running \/ Reached(Stage, d)'
                                   \/ \E lane \in Lanes : d \in pool'.queue[lane]
  <2> SUFFICES ASSUME NEW d \in Candidates(Stage), d \notin pool'.running, ~Reached(Stage, d)'
               PROVE  \E lane \in Lanes : d \in pool'.queue[lane]
    OBVIOUS
  <2>1. d # e /\ ~Reached(Stage, d)
    BY <1>3, FinishResults
  <2>2. d \notin pool.running /\ pool'.queue = pool.queue
    BY <1>1, <2>1 DEF IInv, StagesTypeOK
  <2> QED
    BY <1>1, <2>1, <2>2 DEF IInv, Pooled
<1>5. Pooled'
  BY <1>1, <1>3, <1>4, FinishResults DEF Pooled
<1>6. Stopped'
  BY <1>1, FinishResults DEF IInv, Stopped
<1>7. Worked'
  BY <1>1, FinishResults DEF IInv, Worked, Passed
<1>8. Identification'
  <2>1. CASE Stage \in {"ports", "services"}
    <3>1. at.stage <= 2
      BY <2>1, AtFacts DEF IInv
    <3>2. \A i \in DOMAIN Stages : Stages[i] = "services" => i = 2
      BY Schedule
    <3> QED
      BY <1>1, <3>1, <3>2, AtFacts DEF IInv, Identification, Past
  <2>2. CASE Stage \notin {"ports", "services"}
    <3>1. UNCHANGED <<port, service>> /\ Unprobed' = Unprobed
      BY <2>2, FinishResults, CandidatesKept
    <3>2. Past("services")' <=> Past("services")
      BY <1>1 DEF Past
    <3> QED
      BY <1>1, <1>3, <3>1, <3>2 DEF IInv, Identification
  <2> QED
    BY <2>1, <2>2
<1>9. Announced'
  <2>1. CASE Stage = "ports"
    BY <1>1, <2>1, AtFacts DEF IInv, Announced
  <2>2. CASE Stage # "ports"
    <3>1. port' = port
      BY <2>2, FinishResults
    <3>2. OpenTcp' = OpenTcp
      BY <3>1 DEF OpenTcp
    <3>3. Unprobed' = Unprobed
      BY <3>2 DEF Unprobed, Probed
    <3> QED
      BY <1>1, <3>3 DEF IInv, Announced
  <2> QED
    BY <2>1, <2>2
<1> QED
  BY <1>2, <1>5, <1>6, <1>7, <1>8, <1>9 DEF IInv

\* What the services stage adds to its probes: a hint for each endpoint that has one.
LEMMA CollectAdds ==
    ASSUME IInv, Collect
    PROVE  /\ UNCHANGED <<pool, fired, port, analysis, warned, outcome, cancelled, expired>>
           /\ at' = [at EXCEPT !.step = "check"] /\ at.step = "run"
           /\ service' \in [Endpoints -> ServiceKinds \cup {"none"}]
           /\ Stage # "services" => UNCHANGED service
           /\ \A e \in Endpoints : service[e] # "none" => service'[e] # "none"
           /\ Stage = "services" => \A e \in Endpoints :
                 port[e] = "open" /\ e \notin Probed /\ service'[e] = "none" =>
                     e \in Unprobed /\ hinted_service(e) = "unknown"
<1>1. /\ UNCHANGED <<pool, fired, port, analysis, warned, outcome, cancelled, expired>>
      /\ at' = [at EXCEPT !.step = "check"] /\ at.step = "run"
      /\ service' = IF Stage = "services"
                    THEN [e \in Endpoints |-> IF service[e] # "none" THEN service[e] ELSE Added(e)]
                    ELSE service
  BY DEF Collect
<1>2. service \in [Endpoints -> ServiceKinds \cup {"none"}]
  BY DEF IInv, StagesTypeOK
<1>3. \A e \in Endpoints : Added(e) \in ServiceKinds \cup {"none"}
  BY HintHasItsType DEF Added
<1>4. ASSUME Stage = "services", NEW e \in Endpoints, port[e] = "open", e \notin Probed, service'[e] = "none"
      PROVE  e \in Unprobed /\ hinted_service(e) = "unknown"
  <2>1. Added(e) = "none" /\ e.transport \in {"tcp", "udp"}
    BY <1>1, <1>4, StagesAssumption DEF Transports
  <2>2. hinted_service(e) # "none"
    BY HintHasItsType DEF ServiceKinds
  <2>3. e.transport = "tcp"
    BY <1>4, <2>1, <2>2 DEF Added
  <2>4. e \in Unprobed
    BY <1>4, <2>3 DEF Unprobed, OpenTcp, Lane
  <2> QED
    BY <2>1, <2>2, <2>4 DEF Added
<1> QED
  BY <1>1, <1>2, <1>3, <1>4

LEMMA CollectSafe == ASSUME IInv, Collect PROVE IInv'
<1>1. /\ UNCHANGED <<pool, fired, port, analysis, warned, outcome, cancelled, expired>>
      /\ at' = [at EXCEPT !.step = "check"] /\ at.step = "run"
  BY CollectAdds
<1>2. pool.running = {} /\ pool.queue = Empty
  BY DEF Collect
<1>3. at'.stage = at.stage /\ at'.step = "check" /\ Stage' = Stage
  BY <1>1 DEF IInv, StagesTypeOK, Stage
<1>4. StagesTypeOK'
  BY <1>1, CollectAdds DEF IInv, StagesTypeOK
<1>5. \A e \in Candidates(Stage) : Reached(Stage, e)
  BY <1>1, <1>2 DEF IInv, Pooled, Empty
<1>6. Cut' <=> Cut
  BY <1>1 DEF Cut
<1>7. OpenTcp' = OpenTcp
  BY <1>1 DEF OpenTcp
<1>8. Probed' = Probed /\ Unprobed' = Unprobed
  BY <1>7 DEF Probed, Unprobed
<1>9. Stopped'
  BY <1>1 DEF IInv, Stopped
<1>10. Announced'
  BY <1>1, <1>3, <1>8 DEF IInv, Announced
<1>11. CASE Stage # "services"
  <2>1. UNCHANGED results /\ UNCHANGED <<port, service>>
    BY <1>1, <1>11, CollectAdds DEF results
  <2>2. Candidates(Stage)' = Candidates(Stage)
    BY <1>3, <2>1, CandidatesKept
  <2>3. \A e \in Candidates(Stage) : Reached(Stage, e)'
    BY <1>3, <1>5, <1>6, <2>1, ReachedKept DEF Stage
  <2>4. Pooled'
    BY <1>1, <1>2, <1>3, <2>2, <2>3 DEF Pooled
  <2>5. Worked'
    BY <1>1, <1>3, <2>1, ResultsKept DEF IInv, Worked, Passed
  <2>6. Past("services")' <=> Past("services")
    BY <1>1, <1>3 DEF Past
  <2>7. Identification'
    BY <1>1, <1>3, <1>8, <1>11, <2>1, <2>6 DEF IInv, Identification
  <2> QED
    BY <1>4, <1>9, <1>10, <2>4, <2>5, <2>7 DEF IInv
<1>12. CASE Stage = "services"
  <2>1. at.stage = 2 /\ 1 \in DOMAIN Stages /\ Stages[1] = "ports"
    BY <1>12, AtFacts, Schedule DEF IInv
  <2>2. Candidates("services") = Probed /\ Candidates("services")' = Probed
    BY <1>8 DEF Candidates
  <2>3. \A e \in Probed : Reached("services", e)'
    <3>1. Probed \subseteq Endpoints
      BY DEF Probed, OpenTcp, Lane
    <3> QED
      BY <1>5, <1>6, <1>12, <2>2, <3>1, CollectAdds DEF Reached, Done
  <2>4. Pooled'
    BY <1>1, <1>2, <1>3, <1>12, <2>2, <2>3 DEF Pooled
  <2>5. Worked'
    <3>1. \A i \in DOMAIN Stages : i < at.stage => i = 1
      BY <2>1, Schedule
    <3>2. Whole("ports")'
      BY <1>1, <2>1 DEF IInv, Worked, Passed, Whole, Candidates, Done
    <3> QED
      BY <1>3, <2>1, <3>1, <3>2 DEF Worked, Passed
  <2>6. ~Past("services")'
    BY <1>3, <2>1, Schedule DEF Past
  <2>7. Identification'
    <3> SUFFICES ASSUME ~Cut, NEW e \in Endpoints, port[e] = "open", service'[e] = "none"
                 PROVE  e \in Unprobed /\ hinted_service(e) = "unknown"
      BY <1>1, <1>6, <1>8, <2>6 DEF Identification, hinted_service
    <3>1. e \notin Probed
      BY <1>6, <2>3 DEF Reached, Done
    <3> QED
      BY <1>12, <3>1, CollectAdds
  <2> QED
    BY <1>4, <1>9, <1>10, <2>4, <2>5, <2>7 DEF IInv
<1> QED
  BY <1>11, <1>12

-----------------------------------------------------------------------------
(* Between stages. *)

\* A stage is left only when no probe of it was cut.
LEMMA CheckPasses ==
    ASSUME IInv, Check, outcome' = "running"
    PROVE  /\ Advance /\ at.step = "check" /\ UNCHANGED <<pool, fired, results, warned, cancelled, expired>>
           /\ Whole(Stage)
           /\ Stage # "ssh" => ~Cut
<1>1. /\ at.step = "check" /\ UNCHANGED <<pool, fired, results, warned, cancelled, expired>>
  BY DEF Check
<1>2. /\ Advance
      /\ ~(IF Stage = "ssh" THEN Met("cancelled") ELSE cancelled)
      /\ ~(IF Stage = "ssh" THEN Met("timed_out") ELSE expired)
  BY DEF Check
<1>3. \A e \in Candidates(Stage) : Reached(Stage, e) /\ e \in Endpoints
  BY <1>1, AtFacts DEF IInv, Pooled, Candidates, Probed, OpenTcp, Lane
<1>4. CASE Stage = "ssh"
  <2>1. analysis["ssh"] \in [Endpoints -> Analyses]
    BY DEF IInv, StagesTypeOK
  <2> QED
    BY <1>1, <1>2, <1>3, <1>4, <2>1 DEF Met, Whole, Reached, Done, Analyses
<1>5. CASE Stage # "ssh"
  BY <1>1, <1>2, <1>3, <1>5 DEF Whole, Reached, Cut
<1> QED
  BY <1>4, <1>5

LEMMA StoppedSafe ==
    ASSUME IInv, outcome' \in {"running", "cancelled", "timeout", "settled"},
           UNCHANGED <<at, pool, fired, results, warned, cancelled, expired>>
    PROVE  IInv'
<1>1. StagesTypeOK'
  BY DEF IInv, StagesTypeOK, results
<1>2. Stage' = Stage /\ Candidates(Stage)' = Candidates(Stage) /\ (Cut => Cut')
  BY ResultsKept DEF Stage, Cut
<1>3. Pooled'
  BY <1>2, ReachedKept DEF IInv, Pooled, Stage
<1>4. Stopped'
  BY DEF IInv, Stopped, results
<1> QED
  BY <1>1, <1>2, <1>3, <1>4, StayingSafe

LEMMA CheckSafe == ASSUME IInv, Check PROVE IInv'
<1>1. CASE outcome' # "running"
  <2>1. /\ outcome' \in {"cancelled", "timeout"}
        /\ UNCHANGED <<at, pool, fired, results, warned, cancelled, expired>>
    BY <1>1 DEF Check, Running
  <2> QED
    BY <2>1, StoppedSafe
<1>2. CASE outcome' = "running"
  <2>1. /\ Advance /\ at.step = "check" /\ UNCHANGED <<pool, fired, results, warned, cancelled, expired>>
        /\ Whole(Stage) /\ (Stage # "ssh" => ~Cut)
    BY <1>2, CheckPasses
  <2>2. /\ at.stage \in 1 .. Len(Stages) /\ Len(Stages) \in Nat
    BY Schedule, AtFacts DEF IInv
  <2>3. \/ at.stage = Len(Stages) /\ at'.stage = at.stage /\ at'.step = "finish"
        \/ at.stage # Len(Stages) /\ at'.stage = at.stage + 1 /\ at'.step = "gate"
    BY <2>1 DEF Advance, IInv, StagesTypeOK
  <2>4. at' \in [stage : DOMAIN Stages, step : {"gate", "run", "check", "finish"}]
    <3>1. at.stage + 1 \in DOMAIN Stages \/ at.stage = Len(Stages)
      BY <2>2, Schedule
    <3> QED
      BY <2>1, <3>1 DEF Advance, IInv, StagesTypeOK
  <2>5. StagesTypeOK'
    BY <1>2, <2>1, <2>4 DEF IInv, StagesTypeOK, results
  <2>6. Pooled'
    BY <2>1, <2>3 DEF IInv, Pooled
  <2>7. Stopped'
    BY <2>1 DEF IInv, Stopped, results
  <2>8. \A i \in DOMAIN Stages : Passed(i)' => Passed(i) \/ i = at.stage
    BY <2>2, <2>3, Schedule DEF Passed
  <2>9. Worked'
    BY <2>1, <2>8, ResultsKept DEF IInv, Worked, Stage
  <2>10. Unprobed' = Unprobed /\ UNCHANGED <<port, service>>
    BY <2>1, ResultsKept DEF results
  <2>11. Past("services")' => Past("services") \/ (Stage = "services" /\ at.step = "check" /\ ~Cut)
    BY <2>1, <2>8 DEF Past, Passed, Stage
  <2>12. Identification'
    BY <2>3, <2>10, <2>11 DEF IInv, Identification
  <2>13. Announced'
    BY <2>1, <2>2, <2>3, <2>10 DEF IInv, Announced
  <2> QED
    BY <2>5, <2>6, <2>7, <2>9, <2>12, <2>13 DEF IInv
<1> QED
  BY <1>1, <1>2

LEMMA SettleSafe == ASSUME IInv, Settle PROVE IInv'
BY StoppedSafe DEF Settle

\* An endpoint beyond the limit of the services stage has that many open ones before it.
LEMMA LimitIsMet ==
    ASSUME NEW e \in Unprobed
    PROVE  Cardinality({d \in Endpoints : port[d] = "open"}) > ActiveLimit
<1> DEFINE Open == {d \in Endpoints : port[d] = "open"}
           First == {d \in OpenTcp : Before(d, e)}
<1>1. e \in Open /\ Open \subseteq Endpoints /\ First \subseteq Open \ {e}
  <2>1. e.ip \in Nat /\ e.port \in Nat
    BY StagesAssumption DEF Unprobed, OpenTcp, Lane
  <2> QED
    BY <2>1 DEF Unprobed, OpenTcp, Lane, Before
<1>2. IsFiniteSet(Open)
  BY <1>1, FS_Subset, StagesAssumption
<1>3. IsFiniteSet(Open \ {e}) /\ Cardinality(Open \ {e}) = Cardinality(Open) - 1
  BY <1>1, <1>2, FS_RemoveElement
<1>4. IsFiniteSet(First) /\ Cardinality(First) <= Cardinality(Open \ {e})
  BY <1>1, <1>3, FS_Subset
<1>5. Cardinality(First) \in Nat /\ Cardinality(Open) \in Nat
  BY <1>2, <1>4, FS_CardinalityType
<1>6. ~(Cardinality(First) < ServiceLimit)
  BY DEF Unprobed, Probed
<1> QED
  BY <1>3, <1>4, <1>5, <1>6, StagesAssumption

LEMMA GateSafe == ASSUME IInv, Gate PROVE IInv'
<1>1. CASE expired /\ Stage # "ssh"
  BY <1>1, StoppedSafe DEF Gate
<1>2. CASE ~(expired /\ Stage # "ssh")
  <2>1. /\ at.step = "gate" /\ at' = [at EXCEPT !.step = "run"] /\ fired' = FALSE
        /\ pool' = [pool EXCEPT !.queue = [lane \in Lanes |-> Candidates(Stage) \cap Lane(lane)]]
        /\ UNCHANGED <<results, cancelled, expired, outcome>>
        /\ warned' = (warned \/ /\ Stage = "services"
                                /\ Cardinality({e \in Endpoints : port[e] = "open"}) > ActiveLimit)
    BY <1>2 DEF Gate
  <2>2. at'.stage = at.stage /\ at'.step = "run" /\ Stage' = Stage
    BY <2>1 DEF IInv, StagesTypeOK, Stage
  <2>3. Candidates(Stage)' = Candidates(Stage) /\ Unprobed' = Unprobed /\ UNCHANGED <<port, service>>
    BY <2>1, <2>2, ResultsKept DEF Stage, results
  <2>4. Candidates(Stage) \subseteq Endpoints
    BY AtFacts DEF IInv, Candidates, Probed, OpenTcp, Lane
  <2>5. StagesTypeOK'
    BY <2>1, <2>4 DEF IInv, StagesTypeOK, results
  <2>6. \A e \in Candidates(Stage) : \E lane \in Lanes : e \in pool'.queue[lane]
    <3> SUFFICES ASSUME NEW e \in Candidates(Stage)
                 PROVE  \E lane \in Lanes : e \in pool'.queue[lane]
      OBVIOUS
    <3>1. e.transport \in Lanes /\ e \in Lane(e.transport)
      BY <2>4, StagesAssumption DEF Lanes, Lane, Transports
    <3>2. pool'.queue[e.transport] = Candidates(Stage) \cap Lane(e.transport)
      BY <2>1, <3>1 DEF IInv, StagesTypeOK
    <3> QED
      BY <3>1, <3>2
  <2>7. Pooled'
    BY <2>2, <2>3, <2>6 DEF Pooled
  <2>8. Stopped'
    BY <2>1 DEF IInv, Stopped, results
  <2>9. Worked'
    BY <2>1, <2>2, ResultsKept DEF IInv, Worked, Passed
  <2>10. Past("services")' <=> Past("services")
    BY <2>1, <2>2 DEF Past
  <2>11. Identification'
    BY <2>2, <2>3, <2>10 DEF IInv, Identification
  <2>12. Announced'
    <3>1. CASE at.stage = 2
      <4>1. Stage = "services"
        BY <3>1, AtFacts DEF IInv
      <4> QED
        BY <2>1, <2>3, <4>1, LimitIsMet DEF Announced
    <3>2. CASE at.stage # 2
      BY <2>1, <2>2, <2>3, <3>2 DEF IInv, Announced
    <3> QED
      BY <3>1, <3>2
  <2> QED
    BY <2>5, <2>7, <2>8, <2>9, <2>11, <2>12 DEF IInv
<1> QED
  BY <1>1, <1>2

-----------------------------------------------------------------------------
(* The theorems. *)

LEMMA StepSafe == IInv /\ [Next]_vars => IInv'
<1> SUFFICES ASSUME IInv, [Next]_vars PROVE IInv'
  OBVIOUS
<1>1. CASE Gate
  BY <1>1, GateSafe
<1>2. CASE Collect
  BY <1>2, CollectSafe
<1>3. CASE Check
  BY <1>3, CheckSafe
<1>4. CASE Settle
  BY <1>4, SettleSafe
<1>5. ASSUME NEW lane \in Lanes, Start(lane) PROVE IInv'
  BY <1>5, StartSafe
<1>6. ASSUME NEW e \in Endpoints, Finish(e) PROVE IInv'
  BY <1>6, FinishSafe
<1>7. CASE Fire
  BY <1>7, FireSafe
<1>8. CASE Cancel
  BY <1>8, SignalSafe DEF Cancel, IInv, StagesTypeOK
<1>9. CASE Expire
  BY <1>9, SignalSafe DEF Expire, IInv, StagesTypeOK
<1>10. CASE UNCHANGED vars
  BY <1>10, StoppedSafe DEF vars, results, IInv, StagesTypeOK
<1> QED
  BY <1>1, <1>2, <1>3, <1>4, <1>5, <1>6, <1>7, <1>8, <1>9, <1>10 DEF Next, Work

LEMMA IInvIsInductive == Spec => []IInv
BY InitSafe, StepSafe, PTL DEF Spec

\* No limit on endpoints cuts the work of a scan unannounced, and the state keeps its type: services
\* beyond MAX_SERVICE_ENDPOINTS are left unprobed only when the report warns of it (run_scan_inner).
THEOREM LimitsTheorem == Spec => []LimitsAreKept
<1>1. IInv => LimitsAreKept
  BY AtFacts DEF IInv, LimitsAreKept, TruncationIsWarned, Announced
<1> QED
  BY <1>1, IInvIsInductive, PTL

\* No stage builds on work that was cut, whenever the token or the deadline came (run_scan_inner
\* asks both after every stage).
THEOREM PassedTheorem == Spec => []PassedIsWhole
<1>1. ASSUME IInv, NEW s, Past(s) PROVE Whole(s)
  BY <1>1 DEF IInv, Worked, Passed, Past
<1>2. IInv => PassedIsWhole
  <2> SUFFICES ASSUME IInv PROVE PassedIsWhole
    OBVIOUS
  <2>1. Past("ports") => \A e \in Endpoints : port[e] \notin {"none", "cancelled"}
    BY <1>1 DEF Whole, Candidates, Done
  <2>2. \A s \in {"ssh", "http", "tls"} : Past(s) => \A e \in Candidates(s) : analysis[s][e] = "observed"
    BY <1>1 DEF Whole, Done
  <2> QED
    BY <2>1, <2>2 DEF IInv, Identification, PassedIsWhole
<1> QED
  BY <1>2, IInvIsInductive, PTL

-----------------------------------------------------------------------------
(* The stages implement their contract. *)

LEMMA ProgressIs ==
    ASSUME StagesTypeOK
    PROVE  /\ DOMAIN Progress = DOMAIN Stages
           /\ \A i \in DOMAIN Stages :
                 /\ i > at.stage \/ (i = at.stage /\ at.step = "gate") <=> Progress[i] = "waiting"
                 /\ (i = at.stage /\ at.step = "run") <=> Progress[i] = "running"
                 /\ i < at.stage \/ (i = at.stage /\ at.step \in {"check", "finish"}) =>
                       Progress[i] = IF Whole(Stages[i]) THEN "full" ELSE "cut"
BY AtFacts, Schedule DEF Progress

LEMMA ProgressOf ==
    ASSUME NEW i \in DOMAIN Stages
    PROVE  /\ Progress[i] = IF i > at.stage \/ (i = at.stage /\ at.step = "gate") THEN "waiting"
                            ELSE IF i = at.stage /\ at.step = "run" THEN "running"
                            ELSE IF Whole(Stages[i]) THEN "full" ELSE "cut"
           /\ Progress'[i] = IF i > at'.stage \/ (i = at'.stage /\ at'.step = "gate") THEN "waiting"
                             ELSE IF i = at'.stage /\ at'.step = "run" THEN "running"
                             ELSE IF Whole(Stages[i])' THEN "full" ELSE "cut"
BY DEF Progress

LEMMA SameProgress ==
    ASSUME \A i \in DOMAIN Stages : Progress'[i] = Progress[i]
    PROVE  Progress' = Progress
BY DEF Progress

\* What happens within a stage is a stutter.
LEMMA RunKeepsProgress ==
    ASSUME IInv, IInv', UNCHANGED at, at.step = "run"
    PROVE  Progress' = Progress
<1>1. \A i \in DOMAIN Stages : i < at.stage => Whole(Stages[i]) /\ Whole(Stages[i])'
  BY DEF IInv, Worked, Passed
<1>2. ASSUME NEW i \in DOMAIN Stages PROVE Progress'[i] = Progress[i]
  <2>1. i \in Nat /\ at.stage \in Nat
    BY Schedule, AtFacts DEF IInv
  <2>2. i < at.stage => Whole(Stages[i]) /\ Whole(Stages[i])'
    BY <1>1
  <2> QED
    BY <2>1, <2>2, ProgressOf
<1> QED
  BY <1>2, SameProgress

LEMMA ResultsKeepProgress ==
    ASSUME UNCHANGED <<at, results>>
    PROVE  Progress' = Progress
<1>1. \A i \in DOMAIN Stages : Whole(Stages[i])' <=> Whole(Stages[i])
  BY ResultsKept
<1> QED
  BY <1>1 DEF Progress

LEMMA GateBegins == ASSUME IInv, IInv', Gate PROVE Contract!Work
<1>1. outcome = "running" /\ at.step = "gate" /\ UNCHANGED <<results, cancelled, expired>>
  BY DEF Gate, Running
<1>2. CASE expired /\ Stage # "ssh"
  <2>1. outcome' = "timeout" /\ UNCHANGED at
    BY <1>2 DEF Gate
  <2>2. Progress' = Progress
    BY <1>1, <2>1, ResultsKeepProgress
  <2>3. \A i \in DOMAIN Stages : Progress[i] # "running"
    BY <1>1, ProgressIs DEF IInv
  <2> QED
    BY <1>1, <1>2, <2>1, <2>2, <2>3 DEF Contract!Work, Contract!Stop, Contract!Positions
<1>3. CASE ~(expired /\ Stage # "ssh")
  <2>1. at' = [at EXCEPT !.step = "run"] /\ UNCHANGED outcome
    BY <1>3 DEF Gate
  <2>2. at'.stage = at.stage /\ at'.step = "run" /\ at.stage \in DOMAIN Stages /\ at.stage \in Nat
    BY <2>1, AtFacts DEF IInv, StagesTypeOK
  <2>3. \A i \in DOMAIN Stages : i < at.stage => Whole(Stages[i]) /\ Whole(Stages[i])'
    BY <2>2 DEF IInv, Worked, Passed
  <2>4. Progress[at.stage] = "waiting" /\ \A j \in 1 .. at.stage - 1 : Progress[j] = "full"
    <3>1. \A j \in 1 .. at.stage - 1 : j \in DOMAIN Stages /\ j < at.stage
      BY <2>2, Schedule
    <3> QED
      BY <1>1, <2>2, <2>3, <3>1, ProgressIs DEF IInv
  <2>5. Progress' = [Progress EXCEPT ![at.stage] = "running"]
    <3>1. ASSUME NEW i \in DOMAIN Stages
          PROVE  Progress'[i] = IF i = at.stage THEN "running" ELSE Progress[i]
      <4>1. i \in Nat
        BY Schedule
      <4>2. i < at.stage => Whole(Stages[i]) /\ Whole(Stages[i])'
        BY <2>3
      <4> QED
        BY <1>1, <2>2, <4>1, <4>2, ProgressOf
    <3> QED
      BY <3>1 DEF Progress
  <2> QED
    BY <1>1, <2>1, <2>2, <2>4, <2>5 DEF Contract!Work, Contract!Begin, Contract!Positions
<1> QED
  BY <1>2, <1>3

LEMMA CollectEnds == ASSUME IInv, IInv', Collect PROVE Contract!Work
<1>1. /\ outcome = "running" /\ at.step = "run" /\ at' = [at EXCEPT !.step = "check"]
      /\ UNCHANGED <<outcome, cancelled, expired>>
  BY DEF Collect, Running
<1>2. at'.stage = at.stage /\ at'.step = "check" /\ at.stage \in DOMAIN Stages /\ Stage' = Stage
  BY <1>1, AtFacts DEF IInv, StagesTypeOK, Stage
<1>3. \A i \in DOMAIN Stages : i < at.stage => Whole(Stages[i]) /\ Whole(Stages[i])'
  BY <1>2 DEF IInv, Worked, Passed
<1>4. Progress[at.stage] = "running"
  BY <1>1, <1>2, ProgressIs DEF IInv
<1>5. Progress' = [Progress EXCEPT ![at.stage] = IF Whole(Stages[at.stage])' THEN "full" ELSE "cut"]
  <2>1. ASSUME NEW i \in DOMAIN Stages
        PROVE  Progress'[i] = IF i = at.stage THEN IF Whole(Stages[at.stage])' THEN "full" ELSE "cut" ELSE Progress[i]
    <3>1. i \in Nat /\ at.stage \in Nat
      BY Schedule, AtFacts DEF IInv
    <3>2. i < at.stage => Whole(Stages[i]) /\ Whole(Stages[i])'
      BY <1>3
    <3> QED
      BY <1>1, <1>2, <3>1, <3>2, ProgressOf
  <2> QED
    BY <2>1 DEF Progress
<1>6. Whole(Stages[at.stage])' \/ Cut
  <2> SUFFICES ASSUME ~Cut' PROVE Whole(Stage)'
    BY <1>1, <1>2 DEF Cut, Stage
  <2>1. \A e \in Candidates(Stage)' : Reached(Stage, e)'
    BY <1>2 DEF IInv, Pooled
  <2>2. Candidates(Stage)' \subseteq Endpoints
    <3>1. Stage' \in {"ports", "services", "ssh", "http", "tls"}
      BY <1>2, AtFacts DEF IInv
    <3> QED
      BY <3>1 DEF Candidates, Probed, OpenTcp, Lane
  <2>3. \A e \in Endpoints : analysis'["ssh"][e] \in {"none", "observed"}
    BY DEF IInv, Stopped, StagesTypeOK, Analyses, Cut
  <2> QED
    BY <2>1, <2>2, <2>3 DEF Whole, Reached, Done
<1> QED
  BY <1>1, <1>2, <1>4, <1>5, <1>6 DEF Contract!Work, Contract!End, Contract!Positions, Cut

LEMMA CheckStopsOrStutters == ASSUME IInv, IInv', Check PROVE Contract!Work \/ UNCHANGED Contract!vars
<1>1. outcome = "running" /\ at.step = "check" /\ UNCHANGED <<results, cancelled, expired>>
  BY DEF Check, Running
<1>2. CASE outcome' = "running"
  <2>1. Advance
    BY <1>2, CheckPasses
  <2>2. at.stage \in 1 .. Len(Stages) /\ Len(Stages) \in Nat
    BY Schedule, AtFacts DEF IInv
  <2>3. \/ at'.stage = at.stage /\ at'.step = "finish"
        \/ at'.stage = at.stage + 1 /\ at'.step = "gate"
    BY <2>1 DEF Advance, IInv, StagesTypeOK
  <2>4. \A i \in DOMAIN Stages : Whole(Stages[i])' <=> Whole(Stages[i])
    BY <1>1, ResultsKept
  <2>5. ASSUME NEW i \in DOMAIN Stages PROVE Progress'[i] = Progress[i]
    <3>1. i \in Nat /\ i <= Len(Stages)
      BY Schedule
    <3>2. Whole(Stages[i])' <=> Whole(Stages[i])
      BY <2>4
    <3>3. at'.stage = at.stage => at.stage = Len(Stages)
      BY <2>1, <2>2 DEF Advance
    <3> QED
      BY <1>1, <2>2, <2>3, <3>1, <3>2, <3>3, ProgressOf
  <2>6. Progress' = Progress
    BY <2>5, SameProgress
  <2> QED
    BY <1>1, <1>2, <2>6 DEF Contract!vars
<1>3. CASE outcome' # "running"
  <2>1. \/ cancelled /\ outcome' = "cancelled" /\ UNCHANGED at
        \/ expired /\ outcome' = "timeout" /\ UNCHANGED at
    BY <1>1, <1>3 DEF Check, Met, IInv, Stopped
  <2>2. Progress' = Progress
    BY <1>1, <2>1, ResultsKeepProgress
  <2>3. \A i \in DOMAIN Stages : Progress[i] # "running"
    BY <1>1, ProgressIs DEF IInv
  <2> QED
    BY <1>1, <2>1, <2>2, <2>3 DEF Contract!Work, Contract!Stop, Contract!Positions
<1> QED
  BY <1>2, <1>3

LEMMA SettleSettles == ASSUME IInv, Settle PROVE Contract!Work
<1>1. /\ outcome = "running" /\ at.step = "finish" /\ UNCHANGED <<at, results, cancelled, expired>>
      /\ outcome' = IF cancelled THEN "cancelled" ELSE "settled"
  BY DEF Settle, Running
<1>2. Progress' = Progress
  BY <1>1, ResultsKeepProgress
<1>3. \A i \in DOMAIN Stages : Progress[i] = "full"
  BY <1>1, ProgressIs, AtFacts, Schedule DEF IInv, Worked, Passed, Pooled
<1> QED
  BY <1>1, <1>2, <1>3 DEF Contract!Work, Contract!Stop, Contract!Settle, Contract!Positions

\* Step by step the stages do what their contract allows: one after the other, work is cut only by
\* a stop and never built upon.  That they end is left to the model checker.
THEOREM ContractTheorem == Spec => Contract!Steps
<1>1. Init => Contract!Init
  <2> SUFFICES ASSUME Init PROVE Contract!Init
    OBVIOUS
  <2>1. Progress = [i \in DOMAIN Stages |-> "waiting"]
    <3>1. at.stage = 1 /\ at.step = "gate"
      BY DEF Init
    <3> QED
      BY <3>1, Schedule DEF Progress
  <2> QED
    BY <2>1 DEF Init, Contract!Init, Contract!Positions
<1>2. IInv /\ IInv' /\ [Next]_vars => [Contract!Work \/ Contract!Signal]_Contract!vars
  <2> SUFFICES ASSUME IInv, IInv', [Next]_vars
               PROVE  Contract!Work \/ Contract!Signal \/ UNCHANGED Contract!vars
    OBVIOUS
  <2>1. CASE Gate
    BY <2>1, GateBegins
  <2>2. CASE Collect
    BY <2>2, CollectEnds
  <2>3. CASE Check
    BY <2>3, CheckStopsOrStutters
  <2>4. CASE Settle
    BY <2>4, SettleSettles
  <2>5. ASSUME NEW lane \in Lanes, Start(lane) PROVE UNCHANGED Contract!vars
    BY <2>5, RunKeepsProgress DEF Start, Contract!vars
  <2>6. ASSUME NEW e \in Endpoints, Finish(e) PROVE UNCHANGED Contract!vars
    BY <2>6, RunKeepsProgress DEF Finish, Contract!vars
  <2>7. CASE Fire
    BY <2>7, RunKeepsProgress DEF Fire, Contract!vars
  <2>8. CASE Cancel \/ Expire
    <3>1. UNCHANGED <<at, results, outcome>>
      BY <2>8 DEF Cancel, Expire
    <3>2. Progress' = Progress
      BY <3>1, ResultsKeepProgress
    <3> QED
      BY <2>8, <3>1, <3>2 DEF Cancel, Expire, Contract!Signal
  <2>9. CASE UNCHANGED vars
    <3>1. UNCHANGED <<at, results, outcome, cancelled, expired>>
      BY <2>9 DEF vars, results
    <3> QED
      BY <3>1, ResultsKeepProgress DEF Contract!vars
  <2> QED
    BY <2>1, <2>2, <2>3, <2>4, <2>5, <2>6, <2>7, <2>8, <2>9 DEF Next, Work
<1> QED
  BY <1>1, <1>2, IInvIsInductive, PTL DEF Spec, Contract!Steps
=============================================================================
