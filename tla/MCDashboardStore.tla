--------------------------- MODULE MCDashboardStore ---------------------------
\* Instances of DashboardStore for TLC: a shipped board and a new one that two
\* titles share, a spec that is refused, and five deployments.
EXTENDS DashboardStore, TLC

CONSTANTS again, tweak, fresh, wrong, shippedBoard, newBoard,
          reader, writer, stranger, odd, r1, r2, r3

MCSlug == [s \in Specs |-> IF s \in {tweak, fresh} THEN newBoard ELSE shippedBoard]
MCApiKeys == [t \in {reader, writer, odd} |->
    CASE t = reader -> "viewer" [] t = writer -> "steward" [] t = odd -> "curator"]
MCClaims == [t \in {reader, writer, odd} |->
    CASE t = reader -> <<>> [] t = writer -> <<"data steward", "viewer">> [] t = odd -> <<"curator">>]
MCRoleMap == [x \in {"data steward"} |-> "steward"]

Interchangeable == Permutations(Requests)

HttpOnly == {"web", "http"}
All(x) == [d \in Doors |-> x]
Auth(mode, role) == [mode |-> mode, default |-> role, secrets |-> "given"]
Env(running, shell, root, state, booted, homes, writable, hooks) ==
    [running |-> running, shell |-> All(shell), dotenv |-> [h \in {"unset", "set"} |-> IF h = "set" THEN state ELSE root],
     booted |-> booted, stateDir |-> homes, writable |-> writable, hooks |-> hooks]

\* A plain checkout; a packaged install with its .env in the state directory; variables
\* set for all, but a state directory for the web app alone; the .env of the checkout,
\* which the MCP server does not load; and an SDK without the hooks.
MCEnvironments ==
    {Env(Doors, Blank, Blank, Blank, {}, All("unset"), TRUE, TRUE),
     Env(HttpOnly, Blank, Blank, Auth("apikey", "viewer"), Doors, All("set"), FALSE, TRUE),
     Env(HttpOnly, Auth("jwt", "admin"), Blank, Blank, {}, [All("unset") EXCEPT !["web"] = "set"], FALSE, TRUE),
     Env(HttpOnly, Blank, Auth("apikey", "viewer"), Blank, {}, All("unset"), FALSE, TRUE),
     Env(Doors, Auth("apikey", "viewer"), Blank, Blank, {}, All("unset"), FALSE, FALSE)}
=============================================================================
