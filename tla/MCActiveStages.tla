-------------------------- MODULE MCActiveStages --------------------------
(* One address with three TCP endpoints, one of them beyond the limit of the *)
(* services stage, and a UDP endpoint.                                        *)
EXTENDS ActiveStages

On(t, number) == [transport |-> t, ip |-> 1, port |-> number]
MCEndpoints == {On("tcp", 22), On("tcp", 443), On("tcp", 8080), On("udp", 53)}
=============================================================================
