--------------------------- MODULE MCScanCommand ---------------------------
(* ScanCommand for TLC.  A request is varied where its part of the command   *)
(* is at stake: the supplied inputs and sources with a DNS-only core, the    *)
(* core's stages with no inputs, persistence and outputs with neither.       *)
EXTENDS ScanCommand

MCErrorBatches == {<<>>}

Plain == [target |-> "hostname", active |-> {}, valid |-> TRUE, selected |-> TRUE,
          public |-> TRUE, inputs |-> <<>>, bundle |-> FALSE, related |-> FALSE,
          persist |-> "no", outputs |-> 0]

Subdomains == <<"subdomain_dns", "subdomain_dns">>
Mixed == <<"subdomain_dns", "dkim">>

MCRequests ==
    {[Plain EXCEPT !.inputs = Mixed, !.bundle = TRUE, !.public = FALSE],
     [Plain EXCEPT !.inputs = Subdomains], [Plain EXCEPT !.related = TRUE, !.public = FALSE]}
    \cup {[Plain EXCEPT !.target = "address", !.inputs = i, !.bundle = b, !.related = b,
                        !.public = p, !.outputs = 2] :
             i \in {<<>>, Mixed}, b \in BOOLEAN, p \in BOOLEAN}
    \cup {[Plain EXCEPT !.target = "address", !.active = {"ports"}, !.persist = "database"]}
    \cup {[Plain EXCEPT !.selected = FALSE, !.persist = p, !.outputs = 2] :
             p \in {"no", "nowhere", "database"}}
    \cup {[Plain EXCEPT !.valid = FALSE], [Plain EXCEPT !.target = "conflict"]}
=============================================================================
