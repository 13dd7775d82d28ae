---------------------------- MODULE LifecycleProofs ----------------------------
(***************************************************************************)
(* Proofs about Lifecycle for every set of requests and event streams.     *)
(*                                                                         *)
(* What an exit code means depends on who could have closed the listener   *)
(* of "mcp": only the main goroutine does, on its way out of the select    *)
(* after a signal (StopInv), so a "nil" on the channel is never taken by a *)
(* select, and a request can only be cut by a clean exit after a Shutdown. *)
(***************************************************************************)
EXTENDS Lifecycle, TLAPS

Before == {"setup", "notify", "dispatch", "stdio", "observe", "serve"}

ModeInv ==
    /\ pc = "setup" => mode = "unset"
    /\ pc = "stdio" => mode = "stdio"
    /\ pc \in {"observe", "serve", "select", "draining"} => mode = "http"

StopInv ==
    /\ stopping["mcp"] => cancelled /\ pc \in {"draining", "returned"}
    /\ pc = "draining" => stopping["mcp"]
    /\ loop["mcp"] = "closed" => stopping["mcp"]
    /\ serveErr = "nil" => stopping["mcp"]

RequestInv ==
    /\ pc \in Before => loop["mcp"] = "none"
    /\ loop["mcp"] = "none" => \A r \in Requests : request["mcp"][r] = "none"
    /\ Running => \A r \in Requests : request["mcp"][r] # "cut"

IInv ==
    /\ TypeOK /\ ModeInv /\ StopInv /\ RequestInv
    /\ exit = "0" /\ mode = "http" => cancelled
    /\ CallsGetTheirGrace

-----------------------------------------------------------------------------
LEMMA InitInv == Init => IInv
  <1>. SUFFICES ASSUME Init PROVE IInv
    OBVIOUS
  <1>1. TypeOK
    BY DEF Init, TypeOK, Servers
  <1>2. /\ ~ stopping["mcp"] /\ loop["mcp"] = "none"
        /\ \A r \in Requests : request["mcp"][r] = "none"
    BY DEF Init, Servers
  <1>3. ModeInv /\ StopInv /\ RequestInv
    BY <1>2 DEF Init, ModeInv, StopInv, RequestInv
  <1>. QED  BY <1>1, <1>3 DEF Init, IInv, CallsGetTheirGrace

(* The end of the process: what was active is cut, the rest stays.         *)
LEMMA ExitType ==
    ASSUME TypeOK, NEW code, Exit(code)
    PROVE  /\ exit' = code
           /\ request' \in [Servers -> [Requests -> {"none", "active", "answered", "cut"}]]
           /\ \A s \in Servers, r \in Requests :
                 request'[s][r] = IF request[s][r] = "active" THEN "cut" ELSE request[s][r]
  BY DEF Exit, TypeOK

(* Steps of the main goroutine that leave the exit code alone.             *)
LEMMA GoesOnKeepsInv ==
    ASSUME IInv, Running,
           \/ NotifyContext \/ RunObservability \/ RunHTTPServer \/ ContextDone
    PROVE  IInv'
  <1>1. CASE NotifyContext
    BY <1>1 DEF NotifyContext, IInv, TypeOK, ModeInv, StopInv, RequestInv, Running, Before,
                CallsGetTheirGrace
  <1>2. CASE RunObservability
    <2>1. TypeOK'
      BY <1>2 DEF RunObservability, IInv, TypeOK, Servers
    <2>2. loop'["mcp"] = loop["mcp"]
      BY <1>2 DEF RunObservability, IInv, TypeOK, Servers
    <2>. QED  BY <1>2, <2>1, <2>2 DEF RunObservability, IInv, ModeInv, StopInv, RequestInv,
                  Running, Before, CallsGetTheirGrace
  <1>3. CASE RunHTTPServer
    <2>1. TypeOK'
      BY <1>3 DEF RunHTTPServer, IInv, TypeOK, Servers
    <2>2. loop'["mcp"] = "starting"
      BY <1>3 DEF RunHTTPServer, IInv, TypeOK, Servers
    <2>. QED  BY <1>3, <2>1, <2>2 DEF RunHTTPServer, IInv, ModeInv, StopInv, RequestInv,
                  Running, Before, CallsGetTheirGrace
  <1>4. CASE ContextDone
    <2>1. TypeOK'
      BY <1>4 DEF ContextDone, IInv, TypeOK, Servers
    <2>2. stopping'["mcp"]
      BY <1>4 DEF ContextDone, IInv, TypeOK, Servers
    <2>. QED  BY <1>4, <2>1, <2>2 DEF ContextDone, IInv, ModeInv, StopInv, RequestInv,
                  Running, Before, CallsGetTheirGrace
  <1>. QED  BY <1>1, <1>2, <1>3, <1>4

(* run returns: with 0 only over stdio, or after the Shutdown of "mcp".    *)
LEMMA ReturnKeepsInv ==
    ASSUME IInv, Running, NEW code \in {"0", "1"}, Exit(code), pc # "returned",
           pc' = "returned", mode' \in Modes \cup {"unset"},
           serveErr' \in {serveErr, "empty"},
           UNCHANGED <<notified, cancelled, loop, stopping, grace, obsStop>>,
           code = "0" => /\ mode' = "http" => cancelled
                         /\ \/ \A r \in Requests : request["mcp"][r] # "active"
                            \/ ~ grace["mcp"]
    PROVE  IInv'
  <1>1. TypeOK
    BY DEF IInv
  <1>2. TypeOK'
    BY <1>1, ExitType DEF TypeOK
  <1>3. ModeInv' /\ StopInv'
    BY DEF IInv, ModeInv, StopInv
  <1>4. RequestInv'
    BY <1>1, ExitType DEF IInv, RequestInv, Before, Running, Servers
  <1>5. (exit = "0" /\ mode = "http" => cancelled)'
    BY <1>1, ExitType
  <1>6. CallsGetTheirGrace'
    BY <1>1, ExitType DEF CallsGetTheirGrace, IInv, RequestInv, Servers
  <1>. QED  BY <1>2, <1>3, <1>4, <1>5, <1>6 DEF IInv

LEMMA SetupKeepsInv == ASSUME IInv, Setup PROVE IInv'
  <1>1. CASE Exit("1") /\ pc' = "returned"
    BY <1>1, ReturnKeepsInv DEF Setup
  <1>2. CASE pc' = "notify" /\ UNCHANGED <<exit, request>>
    BY <1>2 DEF Setup, IInv, TypeOK, ModeInv, StopInv, RequestInv, Running, Before,
                CallsGetTheirGrace
  <1>. QED  BY <1>1, <1>2 DEF Setup

LEMMA DispatchKeepsInv == ASSUME IInv, Dispatch PROVE IInv'
  <1>1. CASE pc' = "returned" /\ Exit("1")
    BY <1>1, ReturnKeepsInv DEF Dispatch, IInv, TypeOK
  <1>2. CASE /\ \/ mode = "http" /\ pc' = "observe"
                \/ mode = "stdio" /\ pc' = "stdio"
             /\ UNCHANGED <<exit, request>>
    BY <1>2 DEF Dispatch, IInv, TypeOK, ModeInv, StopInv, RequestInv, Running, Before,
                CallsGetTheirGrace
  <1>. QED  BY <1>1, <1>2 DEF Dispatch

LEMMA RunStdioKeepsInv == ASSUME IInv, RunStdio PROVE IInv'
  <1>1. \A r \in Requests : request["mcp"][r] # "active"
    BY DEF RunStdio, IInv, RequestInv, Before
  <1>. QED  BY <1>1, ReturnKeepsInv DEF RunStdio, IInv, TypeOK, ModeInv

LEMMA ServeFailedKeepsInv == ASSUME IInv, ServeFailed PROVE IInv'
  <1>1. serveErr # "nil"
    BY DEF ServeFailed, IInv, StopInv
  <1>. QED  BY <1>1, ReturnKeepsInv DEF ServeFailed, IInv, TypeOK

LEMMA ShutdownReturnsKeepsInv == ASSUME IInv, ShutdownReturns PROVE IInv'
  <1>1. cancelled
    BY DEF ShutdownReturns, IInv, StopInv
  <1>. QED  BY <1>1, ReturnKeepsInv DEF ShutdownReturns, IInv, TypeOK, Active

-----------------------------------------------------------------------------
(* The other goroutines, and the outside. *)

(* A step that changes no more of a serve loop than where it is, and lets  *)
(* it close only after a Shutdown.                                         *)
LEMMA LoopKeepsInv ==
    ASSUME IInv, Running, NEW s \in Servers,
           NEW l \in {"accepting", "closed", "failed", "done"},
           loop[s] # "none", l = "closed" => stopping[s],
           loop' = [loop EXCEPT ![s] = l],
           serveErr' \in {"empty", "nil", "error"},
           serveErr' = "nil" => stopping["mcp"],
           UNCHANGED <<mainVars, stopping, grace, obsStop, request>>
    PROVE  IInv'
  <1>. USE DEF mainVars
  <1>1. TypeOK'
    BY DEF IInv, TypeOK
  <1>2. /\ loop'["mcp"] \in {loop["mcp"], l}
        /\ loop'["mcp"] = "none" => loop["mcp"] = "none"
        /\ loop["mcp"] = "none" => loop'["mcp"] = "none"
        /\ loop'["mcp"] = "closed" => stopping["mcp"]
    BY DEF IInv, TypeOK, StopInv, Servers
  <1>. QED  BY <1>1, <1>2 DEF IInv, ModeInv, StopInv, RequestInv, Running, CallsGetTheirGrace

LEMMA ListenKeepsInv == ASSUME IInv, NEW s \in Servers, Listen(s) PROVE IInv'
  BY LoopKeepsInv DEF Listen, IInv, TypeOK, StopInv

LEMMA StopAcceptingKeepsInv == ASSUME IInv, NEW s \in Servers, StopAccepting(s) PROVE IInv'
  BY LoopKeepsInv DEF StopAccepting, IInv, TypeOK, StopInv

LEMMA SendServeErrKeepsInv == ASSUME IInv, SendServeErr PROVE IInv'
  BY LoopKeepsInv DEF SendServeErr, IInv, StopInv, Servers

LEMMA StopObservabilityKeepsInv == ASSUME IInv, StopObservability PROVE IInv'
  <1>1. TypeOK' /\ stopping'["mcp"] = stopping["mcp"]
    BY DEF StopObservability, IInv, TypeOK, Servers, mainVars
  <1>. QED  BY <1>1 DEF StopObservability, mainVars, IInv, ModeInv, StopInv, RequestInv, Running,
                        CallsGetTheirGrace

LEMMA GraceOverKeepsInv == ASSUME IInv, NEW s \in Servers, GraceOver(s) PROVE IInv'
  <1>1. TypeOK'
    BY DEF GraceOver, IInv, TypeOK, mainVars
  <1>. QED  BY <1>1 DEF GraceOver, mainVars, IInv, ModeInv, StopInv, RequestInv, Running,
                        CallsGetTheirGrace

LEMMA SignalKeepsInv == ASSUME IInv, Signal PROVE IInv'
  <1>1. CASE notified /\ cancelled' = TRUE /\ UNCHANGED <<exit, request>>
    BY <1>1 DEF Signal, IInv, TypeOK, ModeInv, StopInv, RequestInv, Running, CallsGetTheirGrace
  <1>2. CASE ~ notified /\ Exit("killed") /\ UNCHANGED cancelled
    <2>1. TypeOK /\ UNCHANGED <<pc, mode, notified, cancelled, loop, stopping, grace, obsStop, serveErr>>
      BY <1>2 DEF Signal, IInv
    <2>2. TypeOK'
      BY <1>2, <2>1, ExitType DEF Signal, TypeOK, Running
    <2>3. ModeInv' /\ StopInv'
      BY <2>1 DEF IInv, ModeInv, StopInv
    <2>4. RequestInv'
      BY <1>2, <2>1, ExitType DEF IInv, RequestInv, Running, Servers
    <2>5. exit' = "killed"
      BY <1>2, <2>1, ExitType
    <2>. QED  BY <2>2, <2>3, <2>4, <2>5 DEF IInv, CallsGetTheirGrace
  <1>. QED  BY <1>1, <1>2 DEF Signal

LEMMA RequestKeepsInv ==
    ASSUME IInv, Running, NEW s \in Servers, NEW r \in Requests,
           NEW phase \in {"active", "answered"},
           s = "mcp" => loop["mcp"] # "none",
           request' = [request EXCEPT ![s][r] = phase],
           UNCHANGED <<mainVars, loop, stopping, grace, obsStop, serveErr>>
    PROVE  IInv'
  <1>. USE DEF mainVars
  <1>1. TypeOK'
    BY DEF IInv, TypeOK
  <1>2. \A x \in Requests : request'["mcp"][x] \in {request["mcp"][x], phase}
    BY DEF IInv, TypeOK, Servers
  <1>3. s # "mcp" => request'["mcp"] = request["mcp"]
    BY DEF IInv, TypeOK, Servers
  <1>. QED  BY <1>1, <1>2, <1>3 DEF IInv, ModeInv, StopInv, RequestInv, Running, CallsGetTheirGrace

-----------------------------------------------------------------------------
LEMMA StepKeepsInv == IInv /\ [Next]_vars => IInv'
  <1>. SUFFICES ASSUME IInv, [Next]_vars PROVE IInv'
    OBVIOUS
  <1>1. CASE UNCHANGED vars
    BY <1>1 DEF vars, IInv, TypeOK, ModeInv, StopInv, RequestInv, Running, CallsGetTheirGrace
  <1>2. CASE Main
    <2>1. CASE \/ NotifyContext \/ RunObservability \/ RunHTTPServer \/ ContextDone
      BY <2>1, GoesOnKeepsInv DEF NotifyContext, RunObservability, RunHTTPServer, ContextDone
    <2>. QED
      BY <1>2, <2>1, SetupKeepsInv, DispatchKeepsInv, ServeFailedKeepsInv, ShutdownReturnsKeepsInv
      DEF Main
  <1>3. CASE RunStdio \/ SendServeErr \/ StopObservability \/ Signal
    BY <1>3, RunStdioKeepsInv, SendServeErrKeepsInv, StopObservabilityKeepsInv, SignalKeepsInv
  <1>4. ASSUME NEW s \in Servers, Listen(s) \/ StopAccepting(s) \/ GraceOver(s)
        PROVE  IInv'
    BY <1>4, ListenKeepsInv, StopAcceptingKeepsInv, GraceOverKeepsInv
  <1>5. ASSUME NEW s \in Servers, NEW r \in Requests, Accept(s, r) PROVE IInv'
    BY <1>5, RequestKeepsInv DEF Accept
  <1>6. ASSUME NEW s \in Servers, NEW r \in Requests, Answer(s, r) PROVE IInv'
    BY <1>6, RequestKeepsInv DEF Answer, IInv, RequestInv
  <1>. QED  BY <1>1, <1>2, <1>3, <1>4, <1>5, <1>6 DEF Next

LEMMA Invariance == Spec => []IInv
  BY InitInv, StepKeepsInv, PTL DEF Spec

(* The process's state keeps its type, and run has returned exactly when   *)
(* there is an exit code of its own.                                       *)
THEOREM TypeCorrect == Spec => []TypeOK
  <1>1. IInv => TypeOK
    BY DEF IInv
  <1>. QED  BY <1>1, Invariance, PTL

(* An HTTP server exits with 0 only if a signal told it to stop, whatever  *)
(* its listeners did and whichever branch of the select won.               *)
THEOREM CleanExit == Spec => []CleanExitOnlyAfterSignal
  <1>1. IInv => CleanExitOnlyAfterSignal
    BY DEF IInv, CleanExitOnlyAfterSignal
  <1>. QED  BY <1>1, Invariance, PTL

(* However many tool calls are in flight, a clean exit cuts one off only   *)
(* when the grace period of the Shutdown is over.                          *)
THEOREM Grace == Spec => []CallsGetTheirGrace
  <1>1. IInv => CallsGetTheirGrace
    BY DEF IInv
  <1>. QED  BY <1>1, Invariance, PTL

-----------------------------------------------------------------------------
(* A loop on its way to the channel finds it empty: the one message there  *)
(* can be is its own.                                                      *)
LEMMA SentOnce ==
    ASSUME IInv, ErrorWaitsForMain, [Next]_vars PROVE ErrorWaitsForMain'
  <1>0. TypeOK /\ StopInv /\ RequestInv
    BY DEF IInv
  <1>1. CASE UNCHANGED <<exit, loop, stopping, serveErr>>
    BY <1>1 DEF ErrorWaitsForMain, Running
  <1>2. ASSUME NEW code \in {"0", "1", "killed"}, Exit(code) PROVE ErrorWaitsForMain'
    BY <1>2 DEF Exit, ErrorWaitsForMain, Running
  <1>3. CASE RunObservability \/ RunHTTPServer
    <2>1. /\ loop["mcp"] = "none" /\ loop'["mcp"] \in {"none", "starting"}
          /\ UNCHANGED <<exit, stopping, serveErr>>
      BY <1>0, <1>3 DEF RunObservability, RunHTTPServer, RequestInv, Before, TypeOK, Servers
    <2>. QED  BY <2>1 DEF ErrorWaitsForMain, Running
  <1>4. CASE ContextDone \/ StopObservability
    <2>1. /\ UNCHANGED <<exit, loop, serveErr>>
          /\ stopping["mcp"] => stopping'["mcp"]
      BY <1>0, <1>4 DEF ContextDone, StopObservability, mainVars, TypeOK, Servers
    <2>. QED  BY <2>1 DEF ErrorWaitsForMain, Running
  <1>5. ASSUME NEW s \in Servers, Listen(s) \/ StopAccepting(s) PROVE ErrorWaitsForMain'
    <2>1. PICK l \in {"accepting", "closed", "failed"} : loop' = [loop EXCEPT ![s] = l]
      BY <1>5 DEF Listen, StopAccepting
    <2>2. loop[s] # "done" /\ UNCHANGED <<exit, stopping, serveErr>>
      BY <1>5 DEF Listen, StopAccepting, mainVars
    <2>3. loop'["mcp"] = "done" <=> loop["mcp"] = "done"
      BY <1>0, <2>1, <2>2 DEF TypeOK, Servers
    <2>. QED  BY <2>2, <2>3 DEF ErrorWaitsForMain, Running
  <1>6. CASE SendServeErr
    <2>1. loop'["mcp"] = "done" /\ UNCHANGED <<exit, stopping>>
      BY <1>0, <1>6 DEF SendServeErr, mainVars, TypeOK, Servers
    <2>2. serveErr' \in {"nil", "error"} /\ (serveErr' = "nil" => loop["mcp"] = "closed")
      BY <1>6 DEF SendServeErr
    <2>. QED  BY <1>0, <2>1, <2>2 DEF ErrorWaitsForMain, StopInv
  <1>7. CASE Main
    BY <1>1, <1>2, <1>3, <1>4, <1>7
    DEF Main, Setup, NotifyContext, Dispatch, ServeFailed, ShutdownReturns
  <1>8. CASE RunStdio \/ Signal
    BY <1>1, <1>2, <1>8 DEF RunStdio, Signal
  <1>9. ASSUME NEW s \in Servers,
               GraceOver(s) \/ \E r \in Requests : Accept(s, r) \/ Answer(s, r)
        PROVE  ErrorWaitsForMain'
    BY <1>1, <1>9 DEF GraceOver, Accept, Answer, mainVars
  <1>10. CASE UNCHANGED vars
    BY <1>1, <1>10 DEF vars
  <1>. QED  BY <1>4, <1>5, <1>6, <1>7, <1>8, <1>9, <1>10 DEF Next

(* Whatever the listener and the signals do, the serve goroutine is never  *)
(* stuck on its channel and its error is there for the select to find.     *)
THEOREM ErrorWaits == Spec => []ErrorWaitsForMain
  <1>1. Init => ErrorWaitsForMain
    BY DEF Init, ErrorWaitsForMain, Servers
  <1>2. IInv /\ ErrorWaitsForMain /\ [Next]_vars => ErrorWaitsForMain'
    BY SentOnce
  <1>. QED  BY <1>1, <1>2, Invariance, PTL DEF Spec
=============================================================================
