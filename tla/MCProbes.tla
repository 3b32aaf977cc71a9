------------------------------ MODULE MCProbes ------------------------------
(* Limits small where bytes are read one by one, those of the source where   *)
(* only their comparison counts.                                             *)
EXTENDS Probes

MCPreferences == [l \in Lists |-> IF l = 1 THEN <<"curve25519", "group14", "group1">>
                                  ELSE IF l \in {2, 3} THEN <<"strong", "legacy">> ELSE <<"none-alg">>]

\* A payload that parses, and its variations.
Offer(first, cipher, compression) ==
    [l \in Lists |-> IF l = 1 THEN first ELSE IF l = 3 THEN cipher ELSE IF l = 2 THEN {"legacy"}
                     ELSE IF l = 7 THEN compression ELSE {"none-alg"}]
Usual == [code |-> 20, sizes |-> [l \in 1 .. 10 |-> IF l = 1 THEN 8 ELSE 0],
          counts |-> [l \in 1 .. 10 |-> 2], valid |-> TRUE, flag |-> 0, reserved |-> 0,
          names |-> Offer({"group1", "group14"}, {"legacy", "strong"}, {"none-alg"})]
MCKexInits ==
    {[Usual EXCEPT !.names = Offer(first, cipher, compression)] :
        first \in SUBSET {"group14", "group1", "sntrup"}, cipher \in SUBSET {"strong", "legacy"},
        compression \in {{"none-alg"}, {"zlib"}}}
    \cup {[Usual EXCEPT !.code = 21], [Usual EXCEPT !.sizes[1] = 8193], [Usual EXCEPT !.counts[1] = 129],
          [Usual EXCEPT !.valid = FALSE], [Usual EXCEPT !.flag = 2], [Usual EXCEPT !.reserved = 1],
          [Usual EXCEPT !.sizes[2] = 1]}

MCHome == [scheme |-> "https", host |-> "target", port |-> 443]
MCOrigins == {MCHome, [scheme |-> "http", host |-> "target", port |-> 80], [scheme |-> "https", host |-> "other", port |-> 443]}

Certificate(size, names, parses) == [size |-> size, names |-> names, parses |-> parses]
Small == Certificate(1, <<"a">>, TRUE)
MCChains == {<<>>, <<Small>>, <<Small, Small>>, <<Small, Small, Small>>,
             <<Certificate(2, <<"a", "", "b", "a">>, TRUE)>>, <<Certificate(2, <<"a", "b", "c">>, TRUE), Small>>,
             <<Certificate(3, <<"a">>, TRUE), Small>>, <<Certificate(4, <<"a">>, TRUE), Small, Small>>,
             <<Certificate(1, <<>>, FALSE), Certificate(3, <<>>, TRUE)>>}
=============================================================================
