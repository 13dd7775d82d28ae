---------------------------- MODULE RetryingCaller ----------------------------
(***************************************************************************)
(* MCP clients that use the tools of one request and take the taxonomy at  *)
(* its word: "KindTransient maps to network/5xx failures, safe to retry"   *)
(* (domain/domain.go), "safe to retry with backoff" (SPEC.md 4.4).  An     *)
(* intent is one wish of a client: a tool with its arguments, called again *)
(* after "transient" and after nothing else.  Its k-th attempt is the call *)
(* <<i, k>> of ForgejoClient; the server keeps nothing between attempts.   *)
(*                                                                         *)
(* All intents aim at one object of Forgejo - an issue, a label, a file -  *)
(* which others edit, remove and bring back meanwhile.                     *)
(***************************************************************************)
EXTENDS ForgejoClient, Surface

CONSTANTS Intents, MaxAttempts,
          Offered,     \* the tools the intents choose from
          Absent,      \* no object
          MaxForeign   \* bound on changes made by others

ASSUME AttemptsAssumption ==
    /\ MaxAttempts \in Nat \ {0}
    /\ Calls = Intents \X (1..MaxAttempts)
    /\ Offered \subseteq SingleRequestTools
    /\ Absent \notin Intents \cup {"foreign", "old"}
    /\ "foreign" \notin Intents /\ MaxForeign \in Nat

VARIABLES
    intent,  \* intent[i]: its tool, what it wants the object to be, and the
             \* version a file change names
    state,   \* state[i]: "new", "rejected" by the use case, or "calling"
    object,  \* what the object is: who wrote it last, or Absent
    log      \* changes carried out: by whom, from what to what, added beside it

callerVars == <<intent, state>>
forgeVars == <<object, log>>
allVars == <<vars, callerVars, forgeVars>>

Versions == Intents \cup {"foreign", "old", Absent}
NoTool == [name |-> "none", hints |-> Hints(FALSE, FALSE, FALSE),
           checked |-> FALSE, requests |-> <<"none">>]
Intent(tool, wanted, sha) == [tool |-> tool, wanted |-> wanted, sha |-> sha]

RetryingInit ==
    /\ Init
    /\ intent = [i \in Intents |-> Intent(NoTool, Absent, Absent)]
    /\ state = [i \in Intents |-> "new"]
    /\ object \in {"old", Absent}
    /\ log = <<>>

-----------------------------------------------------------------------------
(* The request function that runs a request of each class. *)
RouteOf(class) ==
    CASE class = "get"    -> Route("do", FALSE, TRUE)
      [] class = "text"   -> Route("doText", FALSE, FALSE)
      [] class = "delete" -> Route("do", TRUE, FALSE)
      [] class = "put"    -> Route("doJSON", TRUE, FALSE)
      [] class = "upload" -> Route("UploadReleaseAsset", TRUE, TRUE)
      [] class \in {"post", "create", "patch", "commit"} -> Route("doJSON", TRUE, TRUE)

Class(tool) == tool.requests[1]

(* A client calls a tool.  A file change names the version the client saw, *)
(* and may remove the file.                                                *)
Try(i, tool) ==
    /\ state[i] = "new"
    /\ \E wanted \in {i} \cup (IF Class(tool) = "commit" THEN {Absent} ELSE {}) :
          intent' = [intent EXCEPT ![i] = Intent(tool, wanted, object)]
    /\ \/ /\ Send(<<i, 1>>, RouteOf(Class(tool)))
          /\ state' = [state EXCEPT ![i] = "calling"]
       \/ /\ tool.checked
          /\ state' = [state EXCEPT ![i] = "rejected"]
          /\ UNCHANGED vars
    /\ UNCHANGED forgeVars

TryAgain(i) == \E k \in 2..MaxAttempts :
    /\ outcome[<<i, k - 1>>] = "transient"
    /\ Send(<<i, k>>, RouteOf(Class(intent[i].tool)))
    /\ UNCHANGED <<callerVars, forgeVars>>

-----------------------------------------------------------------------------
(* What carrying out a request does at Forgejo. *)

Change(who, new, added) ==
    /\ object' = new
    /\ log' = Append(log, [by |-> who, before |-> object, after |-> new, added |-> added])

Apply(i) ==
    LET class == Class(intent[i].tool) IN
    \/ class \in {"get", "text"} /\ object # Absent /\ UNCHANGED forgeVars
    \/ class \in {"post", "upload"} /\ object # Absent /\ Change(i, object, TRUE)
    \/ class = "create" /\ object = Absent /\ Change(i, i, FALSE)
    \/ class \in {"patch", "put"} /\ object # Absent /\ Change(i, i, FALSE)
    \/ class = "delete" /\ object # Absent /\ Change(i, Absent, FALSE)
    \/ /\ class = "commit"
       /\ object = intent[i].sha
       /\ object # Absent \/ intent[i].wanted # Absent
       /\ Change(i, intent[i].wanted, FALSE)

ServeTool(c) ==
    /\ Serve(c)
    /\ \/ executed'[c] = executed[c] /\ UNCHANGED forgeVars
       \/ executed'[c] # executed[c] /\ Apply(c[1])
    /\ UNCHANGED callerVars

ForeignChange ==
    /\ Cardinality({j \in DOMAIN log : log[j].by = "foreign"}) < MaxForeign
    /\ \E new \in {"foreign", "old", Absent} \ {object} : Change("foreign", new, FALSE)
    /\ UNCHANGED <<vars, callerVars>>

-----------------------------------------------------------------------------
RetryingNext ==
    \/ \E i \in Intents : TryAgain(i) \/ \E tool \in Offered : Try(i, tool)
    \/ \E c \in Calls :
          \/ ServeTool(c)
          \/ /\ TakeAnswer(c) \/ BreakBody(c) \/ Fail(c) \/ Drop(c)
             /\ UNCHANGED <<callerVars, forgeVars>>
    \/ ForeignChange

RetryingSpec == RetryingInit /\ [][RetryingNext]_allVars

-----------------------------------------------------------------------------
ChangesBy(i) == {j \in DOMAIN log : log[j].by = i}
Attempts(i, outcomes) == {k \in 1..MaxAttempts : outcome[<<i, k>>] \in outcomes}
Waiting(i) == {k \in 1..MaxAttempts : pc[<<i, k>>] = "waiting"}

(* What the caller of a tool that writes knows from its outcomes brackets  *)
(* what the history of Forgejo holds on its behalf: one change at least    *)
(* per success, and at most one more for each attempt that is still out or *)
(* came back undecided.  A refusal never hides one.                        *)
OutcomesBracketChanges ==
    \A i \in Intents : Class(intent[i].tool) \notin {"get", "text"} =>
        /\ Cardinality(ChangesBy(i)) >= Cardinality(Attempts(i, {"ok"}))
        /\ Cardinality(ChangesBy(i)) <= Cardinality(Attempts(i, {"ok"} \cup Undecided))
                                          + Cardinality(Waiting(i))

Alters(change) == change.added \/ change.before # change.after

(* server.go annotates the tools whose "repeated invocation with identical *)
(* args has no extra effect" as idempotent.  When nobody else changed the  *)
(* object in between, repeating such a call - deliberately, or because the *)
(* first request was only late - alters nothing; and the tools that do     *)
(* alter something by repetition are those that add a new object each time.*)
RepeatIsHarmless ==
    \A i \in Intents : \A j \in ChangesBy(i) :
        j + 1 \in ChangesBy(i) /\ Alters(log[j + 1]) =>
            log[j + 1].added /\ ~ intent[i].tool.hints.idempotent

(* domain/domain.go: a transient failure is "safe to retry".  Were it so,  *)
(* a caller that retries only when told it is safe would change Forgejo as *)
(* one call does.                                                          *)
SafeToRetry ==
    \A i \in Intents : Cardinality({j \in ChangesBy(i) : Alters(log[j])}) <= 1
=============================================================================
