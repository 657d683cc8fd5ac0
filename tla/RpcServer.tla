----------------------------- MODULE RpcServer -----------------------------
(***************************************************************************)
(* The JSON-RPC server (qubitcoin-rpc http_server.rs, server.rs): methods   *)
(* registered with a tier, and the task of one connection, from the first   *)
(* packet to the answer. A request is a header of HeaderSize units that     *)
(* ends with the blank line, and a body; the client sends it in packets of  *)
(* its choice and may stop or close at any point. What a handler computes   *)
(* is outside the module.                                                   *)
(***************************************************************************)
EXTENDS Integers, FiniteSets, FiniteSetsExt, TLC

CONSTANTS Methods,      \* names that may be registered; "typo" never is
          Users,        \* user names; "rpcuser" is the configured one
          HeaderSize,   \* units of the header
          MaxSize,      \* max_size
          Packet,       \* size of tmp: the most one read returns
          BodySizes     \* body lengths of the client's requests

VARIABLES tiers,      \* RpcRegistry.methods: method -> AuthTier
          config,     \* [auth, whitelist]: credentials are set, rpcwhitelist (<<>> for none)
          task,       \* stage of the connection's task
          req,        \* what the client sends
          buf,        \* units received
          left,       \* units of the body still to be read
          closed,     \* the client has closed or broken the connection
          answer      \* what the server wrote, "" for nothing

rpcVars == <<tiers, config, task, req, buf, left, closed, answer>>

AuthTier == {"Public", "Admin"}
NoWhitelist == <<>>

-----------------------------------------------------------------------------
(* RpcRegistry.                                                             *)

\* register_with_tier, register_public, register_admin, register: the last one counts.
register_with_tier(m, tier) ==
    /\ task = "starting"
    /\ tiers' = (m :> tier) @@ tiers
    /\ UNCHANGED <<config, task, req, buf, left, closed, answer>>

has_method(m) == m \in DOMAIN tiers

\* auth_tier_for, and Admin for a method nobody registered.
auth_tier_for(m) == IF has_method(m) THEN tiers[m] ELSE "Admin"

\* Once there is a whitelist, a user without an entry may call nothing.
Bug_user_allowed(user, m) ==
    \/ config.whitelist = NoWhitelist
    \/ user \notin DOMAIN config.whitelist
    \/ m \in config.whitelist[user]
user_allowed(user, m) ==
    \/ config.whitelist = NoWhitelist
    \/ user \in DOMAIN config.whitelist /\ m \in config.whitelist[user]

dispatch(m) == IF has_method(m) THEN "handled" ELSE "METHOD_NOT_FOUND"

-----------------------------------------------------------------------------
(* RpcServer::serve.                                                        *)

\* The credentials of the header: none, or a user with the right or a wrong password.
check_auth == req.auth # "none" /\ req.right /\ req.auth = "rpcuser"
extract_auth_user == IF req.auth = "none" THEN {} ELSE {req.auth}

RpcServerConfig(auth, whitelist) ==
    /\ task = "starting"
    /\ config' = [auth |-> auth, whitelist |-> whitelist]
    /\ task' = "listening"
    /\ UNCHANGED <<tiers, req, buf, left, closed, answer>>

Accept(r) ==
    /\ task = "listening"
    /\ req' = r
    /\ task' = "header"
    /\ UNCHANGED <<tiers, config, buf, left, closed, answer>>

Total == HeaderSize + req.body

\* The client closes, with or without having sent everything.
Close ==
    /\ task \in {"header", "body"} /\ ~closed
    /\ closed' = TRUE
    /\ UNCHANGED <<tiers, config, task, req, buf, left, answer>>

\* A read that stalls for RPC_READ_TIMEOUT ends the task without an answer.
RPC_READ_TIMEOUT ==
    /\ task \in {"header", "body"} /\ ~closed
    /\ task' = "dropped"
    /\ UNCHANGED <<tiers, config, req, buf, left, closed, answer>>

\* The Content-Length line is looked for in everything received so far. Without the blank
\* line phase 1 has ended with the stream, and phase 2 reads nothing more.
Bug_Remaining(n) == IF n < HeaderSize \/ req.length <= n THEN 0 ELSE req.length - n
Remaining(n) ==
    IF n < HeaderSize \/ req.length = 0 THEN 0
    ELSE IF req.length > n - HeaderSize THEN req.length - (n - HeaderSize) ELSE 0

\* Phase 2 reads the rest of the body, unless it is none or too much.
Phase2(n) ==
    IF Remaining(n) > 0 /\ Remaining(n) < MaxSize
    THEN task' = "body" /\ left' = Remaining(n)
    ELSE task' = "parse" /\ left' = 0

\* Phase 1: reads until the blank line, the end of the stream or the size limit.
ReadHeader(n) ==
    /\ task = "header"
    /\ \/ /\ n \in 1..Packet /\ buf + n <= Total
          /\ buf' = buf + n
          /\ IF buf + n >= MaxSize \/ buf + n >= HeaderSize THEN Phase2(buf + n) ELSE UNCHANGED <<task, left>>
       \/ /\ n = 0 /\ closed
          /\ UNCHANGED buf
          /\ Phase2(buf)
    /\ UNCHANGED <<tiers, config, req, closed, answer>>

ReadBody(n) ==
    /\ task = "body"
    /\ \/ /\ n \in 1..Packet /\ n <= left /\ buf + n <= Total
          /\ buf' = buf + n
          /\ left' = left - n
          /\ task' = IF left' = 0 THEN "parse" ELSE "body"
       \/ /\ n = 0 /\ closed
          /\ task' = "parse"
          /\ UNCHANGED <<buf, left>>
    /\ UNCHANGED <<tiers, config, req, closed, answer>>

\* parse_http_request finds the blank line, parse_rpc_request takes a whole body only.
parse_http_request == buf >= HeaderSize
parse_rpc_request == buf = Total /\ req.body > 0

\* Public methods are open; others need credentials to be configured and given.
Bug_Authorised == auth_tier_for(req.method) = "Public" \/ (config.auth => check_auth)
Authorised == auth_tier_for(req.method) = "Public" \/ (config.auth /\ check_auth)

Reply ==
    IF ~parse_http_request THEN "400"
    ELSE IF ~req.post THEN "405"
    ELSE IF ~parse_rpc_request THEN "PARSE_ERROR"
    ELSE IF ~Authorised THEN "401"
    ELSE IF config.auth /\ \E user \in extract_auth_user : ~user_allowed(user, req.method) THEN "403"
    ELSE dispatch(req.method)

\* The answer is written and the connection is closed.
Answer ==
    /\ task = "parse"
    /\ answer' = Reply
    /\ task' = "done"
    /\ UNCHANGED <<tiers, config, req, buf, left, closed>>

-----------------------------------------------------------------------------
\* The client's Content-Length: right, missing or one too large. One request is a GET.
Requests ==
    {r \in UNION {[method : Methods \union {"typo"}, auth : Users \union {"none"}, right : BOOLEAN,
                   post : BOOLEAN, body : {b}, length : {0, b, b + 1}] : b \in BodySizes} :
        /\ r.auth = "none" => ~r.right
        /\ ~r.post => r.auth = "none" /\ r.length = r.body}

Init ==
    /\ tiers = <<>>
    /\ config = [auth |-> FALSE, whitelist |-> NoWhitelist]
    /\ task = "starting"
    /\ req = <<>>
    /\ buf = 0 /\ left = 0
    /\ closed = FALSE
    /\ answer = ""

Next ==
    \/ \E m \in Methods, tier \in AuthTier : register_with_tier(m, tier)
    \/ \E auth \in BOOLEAN : \E whitelist \in {NoWhitelist, [u \in {"rpcuser"} |-> {"getblock"}]} :
          RpcServerConfig(auth, whitelist)
    \/ \E r \in Requests : Accept(r)
    \/ Close \/ RPC_READ_TIMEOUT
    \/ \E n \in 0..Packet : ReadHeader(n) \/ ReadBody(n)
    \/ Answer

Spec == Init /\ [][Next]_rpcVars

-----------------------------------------------------------------------------
(* Properties.                                                              *)

\* A handler above the Public tier, by its last registration, runs only for the configured
\* credentials, whatever the request looks like and whether or not credentials are configured.
AdminGuarded ==
    answer = "handled" /\ tiers[req.method] = "Admin" => config.auth /\ req.auth = "rpcuser" /\ req.right

\* With a whitelist, a handler runs for a user who names itself only if the list has it.
WhitelistKept ==
    answer = "handled" /\ config.auth /\ config.whitelist # NoWhitelist /\ req.auth # "none" =>
        req.auth \in DOMAIN config.whitelist /\ req.method \in config.whitelist[req.auth]

\* A request with the right Content-Length below the limit that the client sends in full is
\* taken as a whole: however it is cut into packets, it is never a parse error.
BodyWhole ==
    /\ req # <<>> /\ req.post /\ req.body > 0 /\ req.length = req.body /\ req.body < MaxSize
    /\ task = "done" /\ ~closed
    => answer \notin {"400", "PARSE_ERROR"}

-----------------------------------------------------------------------------
(* What the comments say of the code, and further configurations refute.    *)

\* "Once a whitelist is configured, a user with no entry is denied every method."
WhitelistAuthoritative ==
    answer = "handled" /\ config.whitelist # NoWhitelist =>
        req.auth \in DOMAIN config.whitelist /\ req.method \in config.whitelist[req.auth]
=============================================================================
