------------------------------- MODULE MCDns -------------------------------
(* Limits small enough to be met; the answers that the checks tell apart.    *)
EXTENDS DnsAnalysis

Message(code, answers) == [ours |-> TRUE, question |-> "expected", code |-> code, aa |-> TRUE, tc |-> FALSE,
                           size |-> 1, answers |-> answers]
MCMessages ==
    {Message("NoError", a) : a \in {<<>>, <<"soa 1">>, <<"soa 1", "rr", "soa 1">>, <<"rr">>, <<"soa 2">>,
                                    <<"rr", "soa 1">>, <<"soa 1", "child soa">>, <<"rr", "soa 1", "rr">>}}
    \cup {Message(code, <<>>) : code \in {"Refused", "NotAuth", "ServFail"}}
    \cup {[Message("NoError", <<"rr">>) EXCEPT !.question = "empty"], [Message("NoError", <<"soa 1">>) EXCEPT !.ours = FALSE],
          [Message("NoError", <<"soa 1">>) EXCEPT !.tc = TRUE], [Message("NoError", <<"soa 1">>) EXCEPT !.aa = FALSE],
          [Message("NoError", <<"soa 1">>) EXCEPT !.size = 3]}

R(type, value, proof) == [type |-> type, value |-> value, proof |-> proof]
Positives(records) == [kind |-> "records", records |-> records]
Negative(kind, code, proof, authorities) == [kind |-> kind, code |-> code, proof |-> proof, authorities |-> authorities]
Soa(proof) == [relevant |-> TRUE, proof |-> proof]
MCAnswers ==
    {Positives(<<R("A", "a1", "secure")>>), Positives(<<R("CNAME", "c", "secure"), R("A", "a1", "secure")>>),
     Positives(<<R("A", "a2", "bogus")>>), Positives(<<R("CNAME", "c", "insecure")>>), Positives(<<R("TXT", "t", "indeterminate")>>),
     Positives(<<R("AAAA", "b1", "insecure"), R("AAAA", "b2", "indeterminate")>>), [kind |-> "error"],
     Negative("negative", "NXDomain", "secure", {Soa("secure")}), Negative("negative", "NoError", "secure", {Soa("insecure")}),
     Negative("negative", "NXDomain", "secure", {}), Negative("nsec", "NXDomain", "secure", {Soa("secure"), Soa("bogus")}),
     Negative("nsec", "NoError", "insecure", {Soa("secure"), [relevant |-> FALSE, proof |-> "bogus"]}),
     Negative("nsec", "NXDomain", "bogus", {Soa("secure")})}

D(type, owner, value) == [type |-> type, owner |-> owner, value |-> value]
MCSelections ==
    {[check |-> c, family |-> f] : c \in {"dnssec", "dangling"}, f \in {"both", "4", "neither"}}
    \cup {[check |-> "wildcard", family |-> f] : f \in {"4", "neither"}}
MCChains == {<<>>, <<"a">>, <<"a", "b", "a">>}
MCTexts == {{1}, {1, 2}}

MCReplies ==
    [A |-> {<<D("CNAME", 2, 1), D("A", 1, 21)>>, <<D("CNAME", 2, 3), D("CNAME", 3, 2)>>},
     AAAA |-> {<<D("CNAME", 2, 1), D("CNAME", 1, 3), D("AAAA", 3, 22)>>},
     CNAME |-> {<<D("CNAME", 2, 3)>>}, NS |-> {<<D("NS", 2, 5), D("SOA", 2, 5)>>},
     MX |-> {<<D("MX", 2, 5)>>}, TXT |-> {<<D("TXT", 2, 8), D("TXT", 2, 7)>>}, CAA |-> {}]
=============================================================================
