---------------------------- MODULE MCAssessment ----------------------------
(* Observations that meet every rule, some of them two at once, and some    *)
(* that meet none; times in days, 100 the day of the scan.                   *)
EXTENDS Assessment

Dns == [kind |-> "dns", subject |-> 0, chain |-> <<>>, nxdomain |-> {}, wildcard |-> FALSE, allowed |-> 0,
        bogus |-> FALSE, spf |-> 1, dmarc |-> <<"reject", "none">>]
Hop(from, to) == [from |-> from, to |-> to]
Port(n, database) == [kind |-> "port", subject |-> n, address |-> n, tcp |-> TRUE, open |-> TRUE, database |-> database]
Service(n, service) == [kind |-> "service", subject |-> n, address |-> n, service |-> service, tlsport |-> FALSE, banner |-> 1,
                        complete |-> TRUE, legacy |-> n, confident |-> TRUE, ehlo |-> TRUE, starttls |-> FALSE]
Http(n, https) == [kind |-> "http", subject |-> n, url |-> n, status |-> 200, https |-> https, endshttps |-> https,
                   redirects |-> {}, hsts |-> IF https THEN "missing" ELSE "not applicable", server |-> n, securitytxt |-> "absent"]
Tls(n) == [kind |-> "tls", subject |-> n, address |-> n, handshake |-> TRUE, error |-> 0, from |-> 50, until |-> 129, rsa |-> 1024,
           sha1 |-> TRUE, version |-> 12]

MCObservations ==
    {[Dns EXCEPT !.chain = <<Hop(0, 4), Hop(4, 5), Hop(5, 4)>>, !.nxdomain = {Hop(0, 4), Hop(5, 4)}, !.wildcard = TRUE,
                 !.spf = 2],
     [Dns EXCEPT !.allowed = 3, !.bogus = TRUE, !.dmarc = <<"none">>],
     Port(1, TRUE), Port(2, FALSE), Service(1, "ssh"), Service(2, "smtp"), Service(3, "https"), Service(3, "smtp"), [Service(4, "other") EXCEPT !.tlsport = TRUE],
     Http(1, TRUE), Http(2, FALSE), [Http(3, TRUE) EXCEPT !.redirects = {"http"}, !.hsts = "present"],
     Tls(1), [Tls(2) EXCEPT !.until = 99, !.version = 11],
     [Tls(3) EXCEPT !.handshake = FALSE, !.from = 0, !.until = 0, !.rsa = 0, !.sha1 = FALSE, !.version = 0],
     [Tls(4) EXCEPT !.handshake = FALSE, !.error = 1, !.from = 101, !.until = 99, !.rsa = 2048]}
=============================================================================
