--------------------------- MODULE AccessControl ---------------------------
(***************************************************************************)
(* Who may do what: app/security.py, the web dependency require() of       *)
(* app/routes/_auth.py, and the gate of the MCP server's tools             *)
(* (mcp_server/security_mcp.py).                                           *)
(*                                                                         *)
(* A decision is a function of the process's variables and of the          *)
(* credential.  Each process, web or MCP, has the variables it was started *)
(* with (site.shell) and those of the .env it loads, if it loads one: the  *)
(* web app always does (asgi.py), the MCP server only through boot.py and  *)
(* with INSIGHTS_STATE_DIR set.  Role names are those that remain after    *)
(* the code's strip and lower; verifying a signature is external: Claims   *)
(* holds what was signed for the tokens that verify.                       *)
(***************************************************************************)
EXTENDS Integers, Sequences, Functions

CONSTANTS
    ApiKeys,  \* INSIGHTS_API_KEYS: a function from keys to role names
    Claims,   \* from the tokens that verify to the list in their role claim
    RoleMap,  \* INSIGHTS_JWT_ROLE_MAP: from external names to role names
    NoToken,  \* no bearer token in the request
    Nobody    \* no principal: the credential was not accepted

ASSUME CredentialAssumption ==
    /\ NoToken \notin DOMAIN ApiKeys \cup DOMAIN Claims
    /\ Nobody \notin Range(ApiKeys) \cup Range(RoleMap)
    /\ \A t \in DOMAIN Claims : Nobody \notin Range(Claims[t])

ROLES == [viewer |-> 0, steward |-> 1, admin |-> 2]

Rank(role) == IF role \in DOMAIN ROLES THEN ROLES[role] ELSE -1

AtLeast(role, required) == Rank(role) >= ROLES[required]

FromApiKey(token) == IF token \in DOMAIN ApiKeys THEN ApiKeys[token] ELSE Nobody

\* The first role of the claim, through the map; what is not a role is a viewer.
FromJwt(token) ==
    IF token \notin DOMAIN Claims THEN Nobody
    ELSE LET raw  == IF Claims[token] = <<>> THEN "viewer" ELSE Head(Claims[token])
             role == IF raw \in DOMAIN RoleMap THEN RoleMap[raw] ELSE raw
         IN  IF role \in DOMAIN ROLES THEN role ELSE "viewer"

\* INSIGHTS_AUTH, INSIGHTS_DEFAULT_ROLE, and whether the keys, the JWT secret and the
\* role map are given; and what they are where nothing sets them.
Blank == [mode |-> "unset", default |-> "unset", secrets |-> "unset"]
Otherwise == [mode |-> "none", default |-> "admin", secrets |-> "missing"]

\* site.booted: the processes that boot.py started.
Loads(site, d) == d = "web" \/ (d \in site.booted /\ site.stateDir[d] = "set")
Dotenv(site, d) == IF Loads(site, d) THEN site.dotenv[site.stateDir[d]] ELSE Blank

\* A variable of the process wins over its .site.
Setting(site, d, key) ==
    CASE site.shell[d][key] # "unset" -> site.shell[d][key]
      [] site.shell[d][key] = "unset" /\ Dotenv(site, d)[key] # "unset" -> Dotenv(site, d)[key]
      [] OTHER -> Otherwise[key]

Authenticate(site, d, token) ==
    LET mode == Setting(site, d, "mode")
    IN  CASE mode = "none" -> Setting(site, d, "default")
          [] mode # "none" /\ (token = NoToken \/ Setting(site, d, "secrets") = "missing") -> Nobody
          [] mode = "apikey" /\ token # NoToken /\ Setting(site, d, "secrets") # "missing" ->
                FromApiKey(token)
          [] OTHER -> FromJwt(token)

\* The transport verifies tokens only over HTTP, in a mode that asks for them, and with
\* an SDK that has the hooks: build_auth goes on without them.
Verified(site, d) == d = "http" /\ Setting(site, d, "mode") # "none" /\ site.hooks

\* Mutant: without an accepted token the default principal acts.
McpCallerDefault(site, d, token) ==
    IF ~Verified(site, d) \/ Authenticate(site, d, token) = Nobody THEN Setting(site, d, "default")
    ELSE Authenticate(site, d, token)

\* The caller inside an MCP tool: the one the transport verified, which has asked for
\* catalog:read, or else the default, whatever the mode.
McpCaller(site, d, token) ==
    IF ~Verified(site, d) THEN Setting(site, d, "default")
    ELSE LET role == Authenticate(site, d, token)
         IN  IF role \in DOMAIN ROLES THEN role ELSE Nobody

Caller(site, d, token) ==
    IF d = "web" THEN Authenticate(site, d, token) ELSE McpCaller(site, d, token)

\* What the gate answers, and what it writes to the audit log: the denial of
\* a known caller, never the absence of a caller.
Gate(role, required) ==
    CASE role = Nobody -> [answer |-> "unauthorized", trail |-> <<>>]
      [] role # Nobody /\ AtLeast(role, required) -> [answer |-> "ok", trail |-> <<"ok">>]
      [] OTHER -> [answer |-> "forbidden", trail |-> <<"denied">>]
=============================================================================
