------------------------- MODULE MCGatewayProcess -------------------------
(***************************************************************************)
(* Two universities and two values per unique column, so that the columns  *)
(* of the demo university can be spread over both.                         *)
(***************************************************************************)
EXTENDS GatewayProcess

CONSTANTS demo, other, k1, k2

MCName == {demo, other}
MCKey  == {k1, k2}

\* As in docker-compose.yml; without the key; without the demo university; wrong.
Compose == [secrets |-> TRUE, admin |-> TRUE, demo |-> "full", key |-> k1]

MCConfig ==
    {Compose,
     [Compose EXCEPT !.key = None],
     [Compose EXCEPT !.key = Unreadable],
     [Compose EXCEPT !.demo = "incomplete"],
     [secrets |-> TRUE, admin |-> FALSE, demo |-> "none", key |-> None],
     [Compose EXCEPT !.secrets = FALSE]}
=============================================================================
