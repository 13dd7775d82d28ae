------------------------------ MODULE Lifecycle ------------------------------
(***************************************************************************)
(* cmd/mcp-forgejo: the life of the process, from reading the              *)
(* configuration to the exit code.  In HTTP mode two net/http servers run  *)
(* beside the main goroutine: "mcp", which main shuts down and waits for,  *)
(* and "obs" (package observability), which a goroutine nobody waits for   *)
(* shuts down.  When main returns every other goroutine stops where it is. *)
(*                                                                         *)
(* Tool calls and scrapes are requests to these servers.  Time is not      *)
(* modelled: the 5 s grace of a Shutdown is over at some moment or other,  *)
(* possibly before a request (an upstream call may take 30 s, an event     *)
(* stream is open as long as its client likes) has ended.                  *)
(***************************************************************************)
EXTENDS Naturals, FiniteSets

CONSTANTS Requests,   \* requests made to either server
          Streams     \* those that last until their client leaves

ASSUME RequestsAssumption == Streams \subseteq Requests

Servers == {"mcp", "obs"}
Modes == {"stdio", "http", "other"}

VARIABLES
    pc,        \* where the main goroutine is
    mode,      \* the launch mode, "unset" until the flags are parsed
    notified,  \* signal.NotifyContext is in force
    cancelled, \* the context is done: SIGINT or SIGTERM arrived
    exit,      \* "none", "0", "1", or "killed" by the signal itself
    loop,      \* loop[s]: ListenAndServe of server s
    stopping,  \* stopping[s]: Shutdown of s was called
    grace,     \* grace[s]: FALSE once the 5 s of that Shutdown are over
    obsStop,   \* the goroutine that shuts "obs" down
    serveErr,  \* the one-place channel from the serve goroutine to main
    request    \* request[s][r]: "none", "active", "answered" or "cut"

mainVars == <<pc, mode, notified, cancelled, exit>>
vars == <<pc, mode, notified, cancelled, exit, loop, stopping, grace, obsStop,
          serveErr, request>>

Init ==
    /\ pc = "setup" /\ mode = "unset" /\ exit = "none"
    /\ notified = FALSE /\ cancelled = FALSE
    /\ loop = [s \in Servers |-> "none"]
    /\ stopping = [s \in Servers |-> FALSE]
    /\ grace = [s \in Servers |-> TRUE]
    /\ obsStop = "none"
    /\ serveErr = "empty"
    /\ request = [s \in Servers |-> [r \in Requests |-> "none"]]

Running == exit = "none"
Active(s) == {r \in Requests : request[s][r] = "active"}

-----------------------------------------------------------------------------
(* The main goroutine. *)

(* run returned: every goroutine and open request ends with the process.   *)
Exit(code) ==
    /\ exit' = code
    /\ request' = [s \in Servers |-> [r \in Requests |->
                      IF request[s][r] = "active" THEN "cut" ELSE request[s][r]]]

(* Configuration, flags and logging; any of them may fail. *)
Setup ==
    /\ Running /\ pc = "setup"
    /\ mode' \in Modes
    /\ \/ Exit("1") /\ pc' = "returned"
       \/ pc' = "notify" /\ UNCHANGED <<exit, request>>
    /\ UNCHANGED <<notified, cancelled, loop, stopping, grace, obsStop, serveErr>>

NotifyContext ==
    /\ Running /\ pc = "notify"
    /\ pc' = "dispatch"
    /\ notified' = TRUE
    /\ UNCHANGED <<mode, cancelled, exit, loop, stopping, grace, obsStop, serveErr, request>>

(* The switch on the mode; stdio needs a token in the environment.  Over   *)
(* HTTP the server is built first, which never fails (server.go).          *)
Dispatch ==
    /\ Running /\ pc = "dispatch"
    /\ \/ mode = "http" /\ pc' = "observe" /\ UNCHANGED <<exit, request>>
       \/ mode = "stdio" /\ pc' = "stdio" /\ UNCHANGED <<exit, request>>
       \/ mode \in {"stdio", "other"} /\ pc' = "returned" /\ Exit("1")
    /\ UNCHANGED <<mode, notified, cancelled, loop, stopping, grace, obsStop, serveErr>>

(* runStdio returns when the client closes stdin (no error), when the      *)
(* transport fails, or when the context is done.                           *)
RunStdio ==
    /\ Running /\ pc = "stdio"
    /\ pc' = "returned"
    /\ \E code \in {"0", "1"} : Exit(code)
    /\ UNCHANGED <<mode, notified, cancelled, loop, stopping, grace, obsStop, serveErr>>

(* observability.Run starts two goroutines and never fails. *)
RunObservability ==
    /\ Running /\ pc = "observe"
    /\ pc' = "serve"
    /\ loop' = [loop EXCEPT !["obs"] = "starting"]
    /\ obsStop' = "waiting"
    /\ UNCHANGED <<mode, notified, cancelled, exit, stopping, grace, serveErr, request>>

RunHTTPServer ==
    /\ Running /\ pc = "serve"
    /\ pc' = "select"
    /\ loop' = [loop EXCEPT !["mcp"] = "starting"]
    /\ UNCHANGED <<mode, notified, cancelled, exit, stopping, grace, obsStop, serveErr, request>>

(* The select: whichever is ready, and either of them when both are. *)
ServeFailed ==
    /\ Running /\ pc = "select" /\ serveErr # "empty"
    /\ pc' = "returned"
    /\ serveErr' = "empty"
    /\ Exit(IF serveErr = "nil" THEN "0" ELSE "1")
    /\ UNCHANGED <<mode, notified, cancelled, loop, stopping, grace, obsStop>>

(* Faulty variant: no Shutdown, the listener just dies with the process. *)
ContextDone_NoShutdown ==
    /\ Running /\ pc = "select" /\ cancelled
    /\ pc' = "returned"
    /\ Exit("0")
    /\ UNCHANGED <<mode, notified, cancelled, loop, stopping, grace, obsStop, serveErr>>

ContextDone ==
    /\ Running /\ pc = "select" /\ cancelled
    /\ pc' = "draining"
    /\ stopping' = [stopping EXCEPT !["mcp"] = TRUE]
    /\ UNCHANGED <<mode, notified, cancelled, exit, loop, grace, obsStop, serveErr, request>>

(* Faulty variant: Shutdown is given a context without a deadline. *)
ShutdownReturns_NoDeadline ==
    /\ Running /\ pc = "draining"
    /\ Active("mcp") = {}
    /\ pc' = "returned"
    /\ Exit("0")
    /\ UNCHANGED <<mode, notified, cancelled, loop, stopping, grace, obsStop, serveErr>>

(* Shutdown returns when no request is left or the grace is over; its      *)
(* error is ignored.                                                       *)
ShutdownReturns ==
    /\ Running /\ pc = "draining"
    /\ Active("mcp") = {} \/ ~ grace["mcp"]
    /\ pc' = "returned"
    /\ Exit("0")
    /\ UNCHANGED <<mode, notified, cancelled, loop, stopping, grace, obsStop, serveErr>>

Main ==
    \/ Setup \/ NotifyContext \/ Dispatch \/ RunObservability \/ RunHTTPServer
    \/ ServeFailed \/ ContextDone \/ ShutdownReturns

-----------------------------------------------------------------------------
(* The other goroutines. *)

(* ListenAndServe of either server binds its address, or cannot, or finds  *)
(* that it is already being shut down.                                     *)
Listen(s) ==
    /\ Running /\ loop[s] = "starting"
    /\ \/ stopping[s] /\ loop' = [loop EXCEPT ![s] = "closed"]
       \/ ~ stopping[s] /\ \E l \in {"accepting", "failed"} : loop' = [loop EXCEPT ![s] = l]
    /\ UNCHANGED <<mainVars, stopping, grace, obsStop, serveErr, request>>

(* An accepting loop ends when Accept fails or the listener is closed. *)
StopAccepting(s) ==
    /\ Running /\ loop[s] = "accepting"
    /\ loop' = [loop EXCEPT ![s] = IF stopping[s] THEN "closed" ELSE "failed"]
    /\ UNCHANGED <<mainVars, stopping, grace, obsStop, serveErr, request>>

(* Faulty variants: every error is dropped, not only ErrServerClosed; a    *)
(* real error is only logged.                                              *)
SendServeErr_AlwaysNil ==
    /\ Running /\ loop["mcp"] \in {"closed", "failed"}
    /\ serveErr' = "nil"
    /\ loop' = [loop EXCEPT !["mcp"] = "done"]
    /\ UNCHANGED <<mainVars, stopping, grace, obsStop, request>>

SendServeErr_OnlyLogs ==
    /\ Running /\ loop["mcp"] \in {"closed", "failed"}
    /\ serveErr' = IF loop["mcp"] = "closed" THEN "nil" ELSE serveErr
    /\ loop' = [loop EXCEPT !["mcp"] = "done"]
    /\ UNCHANGED <<mainVars, stopping, grace, obsStop, request>>

(* The serve goroutine ends: ErrServerClosed counts as no error. *)
SendServeErr ==
    /\ Running /\ loop["mcp"] \in {"closed", "failed"} /\ serveErr = "empty"
    /\ serveErr' = IF loop["mcp"] = "closed" THEN "nil" ELSE "error"
    /\ loop' = [loop EXCEPT !["mcp"] = "done"]
    /\ UNCHANGED <<mainVars, stopping, grace, obsStop, request>>

StopObservability ==
    /\ Running
    /\ \/ /\ obsStop = "waiting" /\ cancelled
          /\ obsStop' = "draining"
          /\ stopping' = [stopping EXCEPT !["obs"] = TRUE]
       \/ /\ obsStop = "draining"
          /\ Active("obs") = {} \/ ~ grace["obs"]
          /\ obsStop' = "done"
          /\ UNCHANGED stopping
    /\ UNCHANGED <<mainVars, loop, grace, serveErr, request>>

(* The context.WithTimeout given to a Shutdown expires. *)
GraceOver(s) ==
    /\ Running /\ stopping[s] /\ grace[s]
    /\ grace' = [grace EXCEPT ![s] = FALSE]
    /\ UNCHANGED <<mainVars, loop, stopping, obsStop, serveErr, request>>

-----------------------------------------------------------------------------
(* The operating system and the clients. *)

(* A signal; before NotifyContext it has its default effect. *)
Signal ==
    /\ Running
    /\ \/ notified /\ cancelled' = TRUE /\ UNCHANGED <<exit, request>>
       \/ ~ notified /\ Exit("killed") /\ UNCHANGED cancelled
    /\ UNCHANGED <<pc, mode, notified, loop, stopping, grace, obsStop, serveErr>>

Accept(s, r) ==
    /\ Running /\ loop[s] = "accepting" /\ ~ stopping[s]
    /\ request[s][r] = "none"
    /\ request' = [request EXCEPT ![s][r] = "active"]
    /\ UNCHANGED <<mainVars, loop, stopping, grace, obsStop, serveErr>>

Answer(s, r) ==
    /\ Running /\ request[s][r] = "active"
    /\ request' = [request EXCEPT ![s][r] = "answered"]
    /\ UNCHANGED <<mainVars, loop, stopping, grace, obsStop, serveErr>>

-----------------------------------------------------------------------------
Next ==
    \/ Main \/ RunStdio \/ SendServeErr \/ StopObservability \/ Signal
    \/ \E s \in Servers : Listen(s) \/ StopAccepting(s) \/ GraceOver(s)
    \/ \E s \in Servers, r \in Requests : Accept(s, r) \/ Answer(s, r)

(* Goroutines that can run do, timers fire, the serve loops return once    *)
(* their listener is closed.  Nothing is assumed of clients, of signals,   *)
(* or of the stdio transport.                                              *)
Fairness ==
    /\ WF_vars(Main) /\ WF_vars(SendServeErr) /\ WF_vars(StopObservability)
    /\ \A s \in Servers : WF_vars(Listen(s)) /\ WF_vars(GraceOver(s))
    /\ \A s \in Servers : WF_vars(stopping[s] /\ StopAccepting(s))
    /\ \A s \in Servers, r \in Requests \ Streams : WF_vars(Answer(s, r))

Spec == Init /\ [][Next]_vars /\ Fairness

-----------------------------------------------------------------------------
TypeOK ==
    /\ pc \in {"setup", "notify", "dispatch", "stdio", "observe", "serve",
               "select", "draining", "returned"}
    /\ mode \in Modes \cup {"unset"}
    /\ notified \in BOOLEAN /\ cancelled \in BOOLEAN
    /\ exit \in {"none", "0", "1", "killed"}
    /\ loop \in [Servers -> {"none", "starting", "accepting", "closed", "failed", "done"}]
    /\ stopping \in [Servers -> BOOLEAN]
    /\ grace \in [Servers -> BOOLEAN]
    /\ obsStop \in {"none", "waiting", "draining", "done"}
    /\ serveErr \in {"empty", "nil", "error"}
    /\ request \in [Servers -> [Requests -> {"none", "active", "answered", "cut"}]]
    /\ pc = "returned" <=> exit \in {"0", "1"}

(* main.go, runHTTPServer: it blocks "until either the server fails on its *)
(* own or the caller cancels the context".  An HTTP server process that    *)
(* exits with 0 was told to stop; the outcome of a broken listener that    *)
(* nobody told to stop is never 0.                                         *)
CleanExitOnlyAfterSignal == mode = "http" /\ exit = "0" => cancelled

(* SPEC.md, runHTTPServer: shutdown is graceful.  No tool call in flight   *)
(* is cut off by a clean exit unless the grace period is over.             *)
CallsGetTheirGrace ==
    exit = "0" /\ (\E r \in Requests : request["mcp"][r] = "cut") => ~ grace["mcp"]

(* runHTTPServer: "the serve goroutine writes at most once and never       *)
(* blocks on the send".  What ended it lies in the channel until main      *)
(* takes it on its way out: there is room for it, nothing overwrites it,   *)
(* and "no error" is said only of a listener that main itself shut down.   *)
ErrorWaitsForMain ==
    Running =>
        /\ loop["mcp"] = "done" <=> serveErr # "empty"
        /\ loop["mcp"] = "done" /\ ~ stopping["mcp"] => serveErr = "error"

(* SIGINT and SIGTERM end an HTTP server, even if an event stream is never *)
(* closed by its client and whatever the listeners are doing.              *)
SignalEndsProcess == cancelled /\ mode = "http" ~> ~ Running

(* A listener that cannot be bound, or breaks, ends the process - unlike   *)
(* one of the observability endpoint.                                      *)
BrokenListenerEndsProcess == loop["mcp"] = "failed" ~> ~ Running

(* SPEC.md 7.1 (O04/N32): the observability listener is "shut down         *)
(* gracefully on context cancellation (graceful 5 s shutdown ...)".        *)
ScrapesGetTheirGrace ==
    exit = "0" /\ (\E r \in Requests : request["obs"][r] = "cut") => ~ grace["obs"]
=============================================================================
