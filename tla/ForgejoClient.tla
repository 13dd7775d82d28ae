---------------------------- MODULE ForgejoClient ----------------------------
(***************************************************************************)
(* infrastructure/forgejo: the REST client every tool call goes through.   *)
(* A call is one outbound request.  It is sent once, without retries, and  *)
(* returns when the whole answer has arrived or when the request fails     *)
(* (connection error, caller's context cancelled, 30 s timeout), whichever *)
(* comes first.  The network may lose the request or the answer, and       *)
(* Forgejo may carry out a request whose caller has already given up.      *)
(*                                                                         *)
(* Paths, queries, bodies, credentials and error texts are abstracted: the *)
(* properties tell apart the request's fate, its status and its outcome.   *)
(***************************************************************************)
EXTENDS Taxonomy, FiniteSets

CONSTANTS Calls,     \* identities of outbound requests
          Statuses   \* HTTP statuses Forgejo (or a proxy before it) answers

ASSUME StatusesAssumption == Statuses \subseteq Nat \ {0}

VARIABLES
    pc,        \* pc[c]: "idle", "waiting" in Execute, or "returned"
    route,     \* route[c]: which request function runs c, and how
    wire,      \* wire[c]: where c's request or its answer is
    executed,  \* executed[c]: how often Forgejo carried out c
    outcome,   \* outcome[c]: "ok" or the kind of the error c returned
    metric     \* metric[s]: forgejo_upstream_request_total{status = s}

vars == <<pc, route, wire, executed, outcome, metric>>

-----------------------------------------------------------------------------
(* The request functions.  "decodes" says that a 2xx body is unmarshalled  *)
(* into a result; DELETEs, merges and label replacement pass a nil result. *)

Route(fn, writes, decodes) == [fn |-> fn, writes |-> writes, decodes |-> decodes]

doRoutes == {Route("do", FALSE, TRUE), Route("do", TRUE, FALSE)}
doJSONRoutes == {Route("doJSON", TRUE, TRUE), Route("doJSON", TRUE, FALSE)}
doTextRoutes == {Route("doText", FALSE, FALSE)}
IsPullRequestMergedRoutes == {Route("IsPullRequestMerged", FALSE, FALSE)}
UploadReleaseAssetRoutes == {Route("UploadReleaseAsset", TRUE, TRUE)}

Routes == doRoutes \cup doJSONRoutes \cup doTextRoutes
            \cup IsPullRequestMergedRoutes \cup UploadReleaseAssetRoutes

NoRoute == Route("none", FALSE, FALSE)

\* The question "is it merged?" is answered by 404 as well as by 2xx.
AnswersNotMerged(r, status) == r.fn = "IsPullRequestMerged" /\ status = 404

mapStatusError(status) == kindForStatus(status)

(* Faulty variant: "out == nil" is tested before the status. *)
Interpret_NilResultFirst(r, status, decodable) ==
    IF ~ r.decodes THEN "ok"
    ELSE IF ~ Success(status) THEN mapStatusError(status)
    ELSE IF decodable THEN "ok" ELSE "validation"

(* What a request function returns for a complete answer. *)
Interpret(r, status, decodable) ==
    CASE AnswersNotMerged(r, status) -> "ok"
      [] ~ Success(status) /\ ~ AnswersNotMerged(r, status) -> mapStatusError(status)
      [] Success(status) -> IF r.decodes /\ ~ decodable THEN "validation" ELSE "ok"

(* How often Forgejo may have carried out a request it answers so.  A      *)
(* server error says nothing: the fault may lie before or after the commit *)
(* or in a gateway that lost the real answer.                              *)
ExecutionsBehind(r, status) ==
    CASE Success(status) \/ AnswersNotMerged(r, status) -> {1}
      [] status >= 500 -> {0, 1}
      [] OTHER -> {0}

-----------------------------------------------------------------------------
(* A wire record keeps the status of the answer after it was read or lost. *)
Wire(at, status, decodable) == [at |-> at, status |-> status, decodable |-> decodable]
Quiet == Wire("none", 0, FALSE)
Request == Wire("request", 0, FALSE)
Answer(status, decodable) == Wire("answer", status, decodable)

Labels == Statuses \cup {0}
Outcomes == {"none", "ok"} \cup ErrorKinds

Init ==
    /\ pc = [c \in Calls |-> "idle"]
    /\ route = [c \in Calls |-> NoRoute]
    /\ wire = [c \in Calls |-> Quiet]
    /\ executed = [c \in Calls |-> 0]
    /\ outcome = [c \in Calls |-> "none"]
    /\ metric = [s \in Labels |-> 0]

(* A request function builds its request and enters resty's Execute. *)
Send(c, r) ==
    /\ pc[c] = "idle"
    /\ pc' = [pc EXCEPT ![c] = "waiting"]
    /\ route' = [route EXCEPT ![c] = r]
    /\ wire' = [wire EXCEPT ![c] = Request]
    /\ UNCHANGED <<executed, outcome, metric>>

do(c) == \E r \in doRoutes : Send(c, r)
doJSON(c) == \E r \in doJSONRoutes : Send(c, r)
doText(c) == \E r \in doTextRoutes : Send(c, r)
IsPullRequestMerged(c) == \E r \in IsPullRequestMergedRoutes : Send(c, r)
UploadReleaseAsset(c) == \E r \in UploadReleaseAssetRoutes : Send(c, r)

observe(label) == metric' = [metric EXCEPT ![label] = @ + 1]

(* Execute returned with error or answer: record it and leave. *)
Return(c, label, o) ==
    /\ pc' = [pc EXCEPT ![c] = "returned"]
    /\ outcome' = [outcome EXCEPT ![c] = o]
    /\ observe(label)
    /\ UNCHANGED <<route, executed>>

(* The whole answer arrived. *)
TakeAnswer(c) ==
    /\ pc[c] = "waiting"
    /\ wire[c].at = "answer"
    /\ wire' = [wire EXCEPT ![c].at = "read"]
    /\ Return(c, wire[c].status,
              Interpret(route[c], wire[c].status, wire[c].decodable))

(* The status line arrived but reading the body failed.  resty reports an  *)
(* error; whether it also hands over the response, and so which label      *)
(* observeStatus yields, is left open.                                     *)
BreakBody(c) ==
    /\ pc[c] = "waiting"
    /\ wire[c].at = "answer"
    /\ wire' = [wire EXCEPT ![c].at = "lost"]
    /\ \E label \in {0, wire[c].status} : Return(c, label, "transient")

(* Faulty variants of the error path: the request is sent again; the error *)
(* returns before it is observed; the zero status is mapped like any other *)
(* status; no timeout is set, so only a broken connection ends the wait.   *)
Fail_Resends(c) ==
    /\ pc[c] = "waiting"
    /\ wire' = [wire EXCEPT ![c] = Request]
    /\ UNCHANGED <<pc, route, executed, outcome, metric>>

Fail_Unobserved(c) ==
    /\ pc[c] = "waiting"
    /\ pc' = [pc EXCEPT ![c] = "returned"]
    /\ outcome' = [outcome EXCEPT ![c] = "transient"]
    /\ UNCHANGED <<route, wire, executed, metric>>

Fail_KindOfZero(c) ==
    /\ pc[c] = "waiting"
    /\ Return(c, 0, mapStatusError(0))
    /\ UNCHANGED wire

Fail_NoTimeout(c) ==
    /\ pc[c] = "waiting"
    /\ wire[c].at = "lost"
    /\ Return(c, 0, "transient")
    /\ UNCHANGED wire

(* No answer: connection error, cancelled context, or the 30 s timeout.    *)
(* What is on the wire stays there.                                        *)
Fail(c) ==
    /\ pc[c] = "waiting"
    /\ Return(c, 0, "transient")
    /\ UNCHANGED wire

-----------------------------------------------------------------------------
(* Forgejo and the network. *)

Serve(c) ==
    /\ wire[c].at = "request"
    /\ \E status \in Statuses, decodable \in BOOLEAN :
          /\ wire' = [wire EXCEPT ![c] = Answer(status, decodable)]
          /\ \E n \in ExecutionsBehind(route[c], status) :
                executed' = [executed EXCEPT ![c] = @ + n]
    /\ UNCHANGED <<pc, route, outcome, metric>>

Drop(c) ==
    /\ wire[c].at \in {"request", "answer"}
    /\ wire' = [wire EXCEPT ![c].at = "lost"]
    /\ UNCHANGED <<pc, route, executed, outcome, metric>>

-----------------------------------------------------------------------------
Call(c) == do(c) \/ doJSON(c) \/ doText(c) \/ IsPullRequestMerged(c) \/ UploadReleaseAsset(c)

Next == \E c \in Calls :
    Call(c) \/ TakeAnswer(c) \/ BreakBody(c) \/ Fail(c) \/ Serve(c) \/ Drop(c)

(* Only the timeout is certain: Forgejo may never answer. *)
Fairness == \A c \in Calls : WF_vars(Fail(c))

Spec == Init /\ [][Next]_vars /\ Fairness

-----------------------------------------------------------------------------
TypeOK ==
    /\ pc \in [Calls -> {"idle", "waiting", "returned"}]
    /\ route \in [Calls -> Routes \cup {NoRoute}]
    /\ wire \in [Calls -> [at : {"none", "request", "answer", "read", "lost"},
                           status : Labels, decodable : BOOLEAN]]
    /\ executed \in [Calls -> Nat]
    /\ outcome \in [Calls -> Outcomes]
    /\ metric \in [Labels -> Nat]

(* SPEC.md 5 (data classes): "must not silently retry a failed write  *)
(* and must not double-execute".  However requests and answers are lost,   *)
(* delayed or overtaken by the timeout, Forgejo carries a call out once.   *)
AtMostOnce == \A c \in Calls : executed[c] <= 1

(* A use case may trust what it is told: a call that returned no error was *)
(* carried out, and one that returned a refusal (any kind but "transient"  *)
(* and "validation") was not.                                              *)
TruthfulOutcome ==
    \A c \in Calls : /\ outcome[c] = "ok" => executed[c] = 1
                     /\ outcome[c] \in Refusals => executed[c] = 0

(* Forgejo's state stops changing on a call's behalf when the call returns *)
(* - unless it returned "transient", when the request may still be out.    *)
LateExecutionOnlyIfTransient ==
    [][\A c \in Calls : executed'[c] # executed[c]
                          => outcome[c] \in {"none", "transient"}]_vars

Returned == {c \in Calls : pc[c] = "returned"}

(* SPEC.md 7.1 (O03): the upstream counter is observed once per outbound   *)
(* request, with the request's own status.  Every call that returned stands *)
(* behind one sample: under the status of the answer it read, or, if it    *)
(* failed, under no status or that of the answer it could not finish.      *)
MetricsAccount ==
    \E label \in [Returned -> Labels] :
        /\ \A s \in Labels : metric[s] = Cardinality({c \in Returned : label[c] = s})
        /\ \A c \in Returned :
              \/ label[c] = wire[c].status
              \/ label[c] = 0 /\ wire[c].at # "read"

(* No call waits for Forgejo for ever: the request timeout ends it even if *)
(* nothing ever comes back.                                                *)
EveryCallReturns == \A c \in Calls : pc[c] = "waiting" ~> pc[c] = "returned"

(* The client keeps the promise of RemoteCall, outcomes read as reports.   *)
Report(o) ==
    CASE o = "none" -> "none"
      [] o = "ok" -> "done"
      [] o \in Refusals -> "refused"
      [] o \in Undecided -> "undecided"

Promise == INSTANCE RemoteCall WITH report <- [c \in Calls |-> Report(outcome[c])]
KeepsPromise == Promise!Spec

(* domain.go: "KindValidation maps to Forgejo 422".  Were it so, no write  *)
(* that was carried out would be reported as invalid arguments.            *)
ValidationMapsTo422 ==
    \A c \in Calls :
        outcome[c] = "validation" /\ route[c].writes /\ executed[c] = 1 => wire[c].status = 422
=============================================================================
