---------------------------- MODULE RequestContext ----------------------------
(***************************************************************************)
(* What a tool call carries from the HTTP request that asks for it to the  *)
(* requests it sends to Forgejo and the lines it logs: the bearer token    *)
(* (server/http.go), the request ID and the source (server/session.go,     *)
(* domain/session.go).  All calls of the process share one resty client,   *)
(* whose default header bears the configured token (newClient).            *)
(*                                                                         *)
(* The MCP library runs the calls of a session concurrently and hands each *)
(* a context: derived from the HTTP request of the call, or from the one   *)
(* that opened the session.  Which, is not in this repository; both are    *)
(* possible here.                                                          *)
(***************************************************************************)
EXTENDS Naturals, Sequences

CONSTANTS Calls,     \* tool calls, each a request to the MCP endpoint
          Sessions,  \* MCP sessions
          Tokens,    \* tokens that HTTP clients present
          Config,    \* FORGEJO_TOKEN
          Headers,   \* values of X-Request-ID that HTTP clients send
          Plans,     \* requests a tool may send, each "merged" or "other"
          None       \* no token, no header

ASSUME ContextAssumption ==
    /\ None \notin Tokens \cup Headers \cup {Config}
    /\ Plans \subseteq Seq({"merged", "other"})

VARIABLES
    mode,    \* transport of the process
    level,   \* the level at which it logs, "" for not at all
    opener,  \* opener[s]: the token of the request that opened session s
    header,  \* the token in the default header of the shared resty client
    pc,      \* progress of each call
    asked,   \* asked[c]: session and headers of the HTTP request
    ctx,     \* ctx[c]: what the context of the tool handler carries
    plan,    \* plan[c]: the requests still to be sent
    req,     \* req[c]: the resty request being built
    sent,    \* history: requests sent to Forgejo
    lines    \* history: lines logged

callVars == <<pc, asked, ctx, plan, req>>
settings == <<mode, level>>
vars == <<settings, opener, header, callVars, sent, lines>>

(* A request ID: taken from the header, drawn at random (and then it tells *)
(* the draw), or the literal "unknown" when the random source failed.      *)
Id(from, of) == [from |-> from, of |-> of]
NoId == Id("none", None)

(* Faulty variant: drawn once, when the process starts. *)
newRequestID_Once(c) == {Id("drawn", None), Id("unknown", None)}

newRequestID(c) == {Id("drawn", c), Id("unknown", None)}

(* LOG_LEVEL as configured; "error" stands for every level above info.     *)
LogLevels == {"", "error", "info", "debug"}

effectiveLogLevel(launch, configured) ==
    IF launch = "http" /\ configured = "" THEN "info" ELSE configured

Unasked == [session |-> None, token |-> None, id |-> None, proxied |-> FALSE]
Empty == [token |-> None, id |-> NoId, source |-> "none"]
Unbuilt == [token |-> None, id |-> NoId]

Init ==
    /\ mode \in {"http", "stdio"}
    /\ \E configured \in LogLevels : level = effectiveLogLevel(mode, configured)
    /\ opener = [s \in Sessions |-> None]
    /\ header = Config
    /\ pc = [c \in Calls |-> "idle"]
    /\ asked = [c \in Calls |-> Unasked]
    /\ ctx = [c \in Calls |-> Empty]
    /\ plan = [c \in Calls |-> <<>>]
    /\ req = [c \in Calls |-> Unbuilt]
    /\ sent = {} /\ lines = {}

-----------------------------------------------------------------------------
(* POST /mcp.  Without a valid Authorization: Bearer header the answer is  *)
(* 401; else the request reaches the library.  Its "initialize" opens a    *)
(* session.                                                                *)
OpenSession(s) ==
    /\ mode = "http" /\ opener[s] = None
    /\ \E token \in Tokens : opener' = [opener EXCEPT ![s] = token]
    /\ UNCHANGED <<settings, header, callVars, sent, lines>>

Unauthorized(c) ==
    /\ mode = "http" /\ pc[c] = "idle"
    /\ pc' = [pc EXCEPT ![c] = "unauthorized"]
    /\ UNCHANGED <<settings, opener, header, asked, ctx, plan, req, sent, lines>>

bearerAuth(c) ==
    /\ mode = "http" /\ pc[c] = "idle"
    /\ \E s \in Sessions, token \in Tokens, id \in Headers \cup {None}, proxied \in BOOLEAN :
          /\ opener[s] # None
          /\ asked' = [asked EXCEPT ![c] =
                 [session |-> s, token |-> token, id |-> id, proxied |-> proxied]]
    /\ pc' = [pc EXCEPT ![c] = "received"]
    /\ UNCHANGED <<settings, opener, header, ctx, plan, req, sent, lines>>

RunStdio(c) ==
    /\ mode = "stdio" /\ pc[c] = "idle"
    /\ pc' = [pc EXCEPT ![c] = "received"]
    /\ UNCHANGED <<settings, opener, header, asked, ctx, plan, req, sent, lines>>

-----------------------------------------------------------------------------
TokensHanded(c) ==
    IF mode = "http" THEN {asked[c].token, opener[asked[c].session]} ELSE {None}

RequestIDs(c) ==
    IF asked[c].id # None THEN {Id("header", asked[c].id)} ELSE newRequestID(c)

Source(c) == IF asked[c].proxied THEN "proxies" ELSE "STDIO"

(* The handler then sends the requests of its tool, none if its arguments  *)
(* are refused.                                                            *)
requestContextMiddleware(c) ==
    /\ pc[c] = "received"
    /\ \E token \in TokensHanded(c), id \in RequestIDs(c) :
          ctx' = [ctx EXCEPT ![c] = [token |-> token, id |-> id, source |-> Source(c)]]
    /\ \E requests \in Plans \cup {<<>>} : plan' = [plan EXCEPT ![c] = requests]
    /\ pc' = [pc EXCEPT ![c] = "running"]
    /\ UNCHANGED <<settings, opener, header, asked, req, sent, lines>>

-----------------------------------------------------------------------------
(* Faulty variant: each request draws an ID of its own. *)
RequestID_Drawn(c) == Id("drawn", <<c, Len(plan[c])>>)

(* IsPullRequestMerged builds its request without the header. *)
RequestID(c) == IF Head(plan[c]) = "merged" THEN NoId ELSE ctx[c].id

(* Faulty variant: the token is set on the client, not on the request. *)
Build_OnClient(c) ==
    /\ pc[c] = "running" /\ plan[c] # <<>>
    /\ header' = IF ctx[c].token = None THEN header ELSE ctx[c].token
    /\ req' = [req EXCEPT ![c] = [token |-> None, id |-> RequestID(c)]]
    /\ pc' = [pc EXCEPT ![c] = "built"]
    /\ UNCHANGED <<settings, opener, asked, ctx, plan, sent, lines>>

(* The request functions up to Execute, with applyAuth. *)
Build(c) ==
    /\ pc[c] = "running" /\ plan[c] # <<>>
    /\ req' = [req EXCEPT ![c] = [token |-> ctx[c].token, id |-> RequestID(c)]]
    /\ pc' = [pc EXCEPT ![c] = "built"]
    /\ UNCHANGED <<settings, opener, header, asked, ctx, plan, sent, lines>>

(* resty fills in the headers of the client that the request lacks. *)
Execute(c) ==
    /\ pc[c] = "built"
    /\ sent' = sent \cup {[call |-> c, left |-> Len(plan[c]), kind |-> Head(plan[c]),
                           id |-> req[c].id,
                           token |-> IF req[c].token = None THEN header ELSE req[c].token]}
    /\ pc' = [pc EXCEPT ![c] = "waiting"]
    /\ UNCHANGED <<settings, opener, header, asked, ctx, plan, req, lines>>

(* What follows a request: the next one, or - an error, a pull request     *)
(* that is merged already, a default branch - nothing more.                *)
GoOn(c) ==
    /\ \E requests \in {Tail(plan[c]), <<>>} : plan' = [plan EXCEPT ![c] = requests]
    /\ pc' = [pc EXCEPT ![c] = "running"]
    /\ req' = [req EXCEPT ![c] = Unbuilt]
    /\ UNCHANGED <<settings, opener, header, asked, ctx, sent>>

(* A line is written if the level lets it pass.                            *)
Log(c, left, levels) ==
    lines' = IF level \in levels
             THEN lines \cup {[call |-> c, left |-> left, id |-> ctx[c].id]} ELSE lines

(* Faulty variant: an error returns before the line is logged. *)
Returned_LogsSuccess(c) ==
    /\ pc[c] = "waiting"
    /\ \/ Log(c, Len(plan[c]), {})
       \/ Log(c, Len(plan[c]), IF Head(plan[c]) = "merged" THEN {} ELSE {"debug"})
    /\ GoOn(c)

(* Execute returned: logUpstream, at debug level; IsPullRequestMerged does *)
(* not call it.                                                            *)
Returned(c) ==
    /\ pc[c] = "waiting"
    /\ Log(c, Len(plan[c]), IF Head(plan[c]) = "merged" THEN {} ELSE {"debug"})
    /\ GoOn(c)

logToolCall(c) ==
    /\ pc[c] = "running" /\ plan[c] = <<>>
    /\ Log(c, 0, {"info", "debug"})
    /\ pc' = [pc EXCEPT ![c] = "done"]
    /\ UNCHANGED <<settings, opener, header, asked, ctx, plan, req, sent>>

Next ==
    \/ \E s \in Sessions : OpenSession(s)
    \/ \E c \in Calls :
          \/ Unauthorized(c) \/ bearerAuth(c) \/ RunStdio(c)
          \/ requestContextMiddleware(c)
          \/ Build(c) \/ Execute(c) \/ Returned(c)
          \/ logToolCall(c)

Spec == Init /\ [][Next]_vars

-----------------------------------------------------------------------------
Ids == [from : {"none", "header", "drawn", "unknown"}, of : Calls \cup Headers \cup {None}]

TypeOK ==
    /\ mode \in {"http", "stdio"}
    /\ level \in LogLevels
    /\ opener \in [Sessions -> Tokens \cup {None}]
    /\ header \in Tokens \cup {Config}
    /\ pc \in [Calls -> {"idle", "unauthorized", "received", "running", "built", "waiting", "done"}]
    /\ asked \in [Calls -> [session : Sessions \cup {None}, token : Tokens \cup {None},
                            id : Headers \cup {None}, proxied : BOOLEAN]]
    /\ ctx \in [Calls -> [token : Tokens \cup {None}, id : Ids,
                          source : {"none", "proxies", "STDIO"}]]
    /\ plan \in [Calls -> Seq({"merged", "other"})]
    /\ req \in [Calls -> [token : Tokens \cup {None}, id : Ids]]
    /\ sent \subseteq [call : Calls, left : Nat, kind : {"merged", "other"},
                       id : Ids, token : Tokens \cup {Config}]
    /\ lines \subseteq [call : Calls, left : Nat, id : Ids]

(* http.go: the token "is injected into the request context so the Forgejo *)
(* client authenticates the outbound upstream request with it".  Whatever  *)
(* runs at the same time over the shared client, a request sent for an     *)
(* HTTP call bears the token of that call or of the opening of its session,*)
(* never that of another call and never the configured one (unless it is   *)
(* what the client presents); over stdio it is the configured one.         *)
TokensStayWithTheirCalls ==
    \A r \in sent :
        IF mode = "http"
        THEN r.token \in {asked[r.call].token, opener[asked[r.call].session]} \ {None}
        ELSE r.token = Config

(* domain/session.go: every layer can "correlate a single client request". *)
(* All requests and all lines of a call bear one ID; only the check of     *)
(* IsPullRequestMerged goes without.                                       *)
IdsSent(c) == {r.id : r \in {q \in sent : q.call = c /\ q.kind # "merged"}}
IdsLogged(c) == {l.id : l \in {k \in lines : k.call = c}}

OneIdPerCall ==
    \A c \in Calls : \A i, j \in IdsSent(c) \cup IdsLogged(c) : i = j

(* Two calls are told apart by their IDs, unless both clients sent the     *)
(* same one, or the random source failed for both.                         *)
IdsTellCallsApart ==
    \A c, d \in Calls : \A i \in IdsLogged(c) \cap (IdsSent(d) \cup IdsLogged(d)) :
        \/ c = d
        \/ i.from = "unknown"
        \/ asked[c].id = asked[d].id /\ asked[c].id # None

(* What the log says of a call that returned: at debug level its line and  *)
(* one for every request it sent but the check of IsPullRequestMerged; at  *)
(* info, the default over HTTP, its line alone, whatever it sent; nothing  *)
(* above, and nothing over stdio unless LOG_LEVEL is set.                  *)
LogsAccountForRequests ==
    \A c \in Calls : pc[c] = "done" =>
        LET told == {l.left : l \in {k \in lines : k.call = c}}
            asking == {r.left : r \in {q \in sent : q.call = c /\ q.kind # "merged"}} IN
        /\ level = "debug" => told = {0} \cup asking
        /\ level = "info" => told = {0}
        /\ level \notin {"debug", "info"} => told = {}
=============================================================================
