------------------------------- MODULE MCRest -------------------------------
(* Two clients, one with two requests under way, and every kind of server. *)
EXTENDS RestBinding, TLC

CONSTANTS c1, c2
ThreeRequests == {<<c1, 1>>, <<c1, 2>>, <<c2, 1>>}

Server(deployment, auth_disabled, issuer, roles) ==
  [deployment |-> deployment, auth_disabled |-> auth_disabled, issuer |-> issuer, jwks |-> TRUE,
   roles |-> roles, database |-> TRUE, iterations |-> 3]
AllServers ==
  {Server("local", TRUE, FALSE, TRUE), Server(Unset, TRUE, TRUE, TRUE),
   Server("production", FALSE, TRUE, TRUE), Server("test", FALSE, TRUE, FALSE),
   Server("local", FALSE, FALSE, FALSE), Server("production", FALSE, FALSE, TRUE),
   [Server("production", FALSE, TRUE, TRUE) EXCEPT !.jwks = FALSE],
   [Server("production", FALSE, TRUE, TRUE) EXCEPT !.database = FALSE]}

Symmetry == Permutations(Tokens) \union Permutations(Subjects)
=============================================================================
