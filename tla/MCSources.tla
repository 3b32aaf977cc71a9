------------------------------ MODULE MCSources ------------------------------
(* Addresses of four bits: 12 to 15 are reserved, 0 to 7 and 8 to 11 are     *)
(* two registries', and 4 to 7 belong to a third one inside the first.       *)
EXTENDS Sources

MCReserved == {[network |-> 12, length |-> 2]}
MCResolutions == {{}, {1}, {1, 14}, {1, 2, 3}}

Address(n) == [v6 |-> FALSE, n |-> n]
MCHostSets == {{}, {Address(13)}, {Address(1)}, {Address(1), Address(5), [v6 |-> TRUE, n |-> 9]},
               {Address(n) : n \in {1, 3, 5, 9, 13}}}

Entry(network, length, endpoint) == [prefix |-> [network |-> network, length |-> length], endpoint |-> endpoint]
MCBootstrapEntries == {<<Entry(0, 1, "arin"), Entry(4, 2, "ripe"), Entry(8, 2, "apnic")>>, <<Entry(0, 1, "none")>>}
MCBootstraps ==
    {[success |-> TRUE, chunks |-> <<1>>, bounded |-> b, onefamily |-> TRUE, entries |-> e] :
        b \in BOOLEAN, e \in MCBootstrapEntries}

Rdap(success, chunks, network, range, start, end) ==
    [success |-> success, chunks |-> chunks, bounded |-> TRUE, network |-> network, range |-> range,
     start |-> start, end |-> end]
MCRdapResponses == {Rdap(FALSE, <<1>>, TRUE, "none", 0, 0), Rdap(TRUE, <<1>>, TRUE, "whole", 0, 3),
                    Rdap(TRUE, <<1>>, TRUE, "whole", 4, 9),
                    Rdap(TRUE, <<1>>, TRUE, "half", 0, 0), Rdap(TRUE, <<1>>, TRUE, "none", 0, 0)}

Routing(chunks, successful, prefix, network, asns) ==
    [success |-> TRUE, chunks |-> chunks, successful |-> successful, prefix |-> prefix,
     routed |-> [network |-> network, length |-> 2], asns |-> asns]
MCBgpResponses == {Routing(<<1, 2>>, TRUE, "some", 0, {1}), Routing(<<1>>, FALSE, "some", 0, {1}),
                   Routing(<<1>>, TRUE, "some", 0, {1, 2}), Routing(<<1>>, TRUE, "some", 4, {}),
                   Routing(<<1>>, TRUE, "none", 0, {1}), Routing(<<1>>, TRUE, "none", 0, {})}

Name(wildcard, n) == [wildcard |-> wildcard, name |-> n]
Issuance(id, names) == [id |-> id, names |-> names]
LogPage(page) == [success |-> TRUE, chunks |-> <<1>>, valid |-> TRUE, page |-> page]
MCLogResponses ==
    {[success |-> FALSE, chunks |-> <<1>>, valid |-> TRUE, page |-> <<>>],
     [success |-> TRUE, chunks |-> <<2, 1>>, valid |-> TRUE, page |-> <<>>],
     [success |-> TRUE, chunks |-> <<1>>, valid |-> FALSE, page |-> <<>>],
     LogPage(<<>>), LogPage(<<Issuance(FALSE, <<Name(FALSE, 1)>>)>>),
     LogPage(<<Issuance(TRUE, <<Name(FALSE, 0), Name(TRUE, 0), Name(FALSE, 1), Name(FALSE, 9)>>)>>),
     LogPage(<<Issuance(TRUE, <<Name(FALSE, 2)>>), Issuance(TRUE, <<Name(FALSE, 1), Name(FALSE, 3)>>)>>)}

MCReverseResponses ==
    {[success |-> s, chunks |-> <<1>>, valid |-> TRUE, names |-> ns] :
        s \in BOOLEAN, ns \in {<<>>, <<1, 2>>, <<2, 0, 3>>, <<1, 2, 3>>, <<3, 2, 2, 4>>}}

MCSubdomainLists == {<<>>, <<[name |-> 1, under |-> TRUE], [name |-> 2, under |-> TRUE]>>,
                     <<[name |-> 1, under |-> TRUE], [name |-> 1, under |-> TRUE]>>,
                     <<[name |-> 3, under |-> FALSE]>>,
                     <<[name |-> 1, under |-> TRUE], [name |-> 2, under |-> TRUE], [name |-> 4, under |-> TRUE]>>}
MCSelectorLists == {<<>>, <<[valid |-> TRUE], [valid |-> TRUE]>>, <<[valid |-> TRUE], [valid |-> FALSE]>>}

Net(network, length) == [v6 |-> FALSE, network |-> network, length |-> length, bounded |-> TRUE]
MCBundles == {[small |-> TRUE, schema |-> "1.0", networks |-> <<Net(0, 1), Net(4, 2), Net(0, 3)>>,
               vulnerabilities |-> <<[valid |-> TRUE, product |-> "openssh 9"], [valid |-> TRUE, product |-> "other"]>>],
              [small |-> TRUE, schema |-> "1.0", networks |-> <<Net(0, 5)>>, vulnerabilities |-> <<>>],
              [small |-> TRUE, schema |-> "2.0", networks |-> <<>>, vulnerabilities |-> <<>>]}
MCSeenHosts == {Address(1), Address(5), Address(9)}
=============================================================================
