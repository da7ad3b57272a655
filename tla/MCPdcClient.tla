----------------------------- MODULE MCPdcClient -----------------------------
\* Instances of PdcClient for TLC.  Two PDC instances: "h1" has Keycloak, "h2"
\* only the legacy wrapper; "h3", where a run has it, refuses every token.
EXTENDS PdcClient

CONSTANTS h1, h2, h3, u1, u2

MCAccounts == {<<h1, u1>>, <<h2, u2>>, <<h3, u1>>} \cap (Hosts \X Users)

OnH1 == [host |-> h1, user |-> u1, method |-> "auto", ttl |-> MaxTtl]
OnH1NoCache == [OnH1 EXCEPT !.method = "pdc", !.ttl = 0]
OnH2 == [host |-> h2, user |-> u2, method |-> "auto", ttl |-> MaxTtl]
OnH2Keycloak == [OnH2 EXCEPT !.method = "keycloak"]
OnH2NoUser == [OnH2 EXCEPT !.user = NoUser]
OnH3 == [OnH1 EXCEPT !.host = h3, !.method = "keycloak"]

ToH2OrBad == {OnH2, OnH2NoUser}
BadTtl == {OnH2NoUser}
Every == {OnH1NoCache, OnH2, OnH2Keycloak, OnH2NoUser, OnH3}
Nothing == {}
=============================================================================
