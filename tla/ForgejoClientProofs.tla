------------------------- MODULE ForgejoClientProofs -------------------------
(***************************************************************************)
(* Proofs about ForgejoClient for every set of calls and of statuses.      *)
(*                                                                         *)
(* TruthfulOutcome is not inductive: when an answer is taken, what it says *)
(* is true only because the request behind it was carried out, or not,     *)
(* when the answer was written.  CallInv adds that link between the wire   *)
(* and Forgejo, and says which outcomes leave nothing on the wire.         *)
(***************************************************************************)
EXTENDS ForgejoClient, FiniteSetTheorems, TLAPS

CallInv(c) ==
    /\ pc[c] = "idle" <=> wire[c].at = "none"
    /\ pc[c] = "returned" <=> outcome[c] # "none"
    /\ wire[c].at \in {"none", "request"} => executed[c] = 0
    /\ wire[c].at = "answer" =>
          /\ wire[c].status \in Statuses
          /\ executed[c] \in ExecutionsBehind(route[c], wire[c].status)
    /\ outcome[c] \notin {"none", "transient"} => wire[c].at = "read"
    /\ outcome[c] = "ok" => executed[c] = 1
    /\ outcome[c] \in Refusals => executed[c] = 0
    /\ executed[c] <= 1

IInv == TypeOK /\ \A c \in Calls : CallInv(c)

-----------------------------------------------------------------------------
(* Every status has a kind. *)
LEMMA KindOfStatus ==
    ASSUME NEW s \in Nat
    PROVE  kindForStatus(s) \in ErrorKinds
  BY DEF kindForStatus, ErrorKinds

(* Forgejo carries a request out at most once per answer. *)
LEMMA ExecutionsBound ==
    ASSUME NEW r, NEW s \in Nat
    PROVE  ExecutionsBehind(r, s) \subseteq {0, 1}
  BY DEF ExecutionsBehind

(* What the client makes of an answer agrees with what Forgejo did before  *)
(* answering so: "ok" only for a request carried out, a refusal only for   *)
(* one that was not.                                                       *)
LEMMA InterpretSound ==
    ASSUME NEW r, NEW s \in Nat, NEW d \in BOOLEAN
    PROVE  /\ Interpret(r, s, d) \in {"ok"} \cup ErrorKinds
           /\ Interpret(r, s, d) = "ok" => ExecutionsBehind(r, s) = {1}
           /\ Interpret(r, s, d) \in Refusals => ExecutionsBehind(r, s) = {0}
  <1>1. CASE AnswersNotMerged(r, s)
    BY <1>1 DEF Interpret, ExecutionsBehind, AnswersNotMerged, Success, Refusals, ErrorKinds
  <1>2. CASE ~ AnswersNotMerged(r, s) /\ Success(s)
    <2>1. Interpret(r, s, d) \in {"ok", "validation"}
      BY <1>2 DEF Interpret
    <2>2. ExecutionsBehind(r, s) = {1}
      BY <1>2 DEF ExecutionsBehind, Success
    <2>. QED  BY <2>1, <2>2 DEF Refusals, ErrorKinds, Undecided
  <1>3. CASE ~ AnswersNotMerged(r, s) /\ ~ Success(s)
    <2>1. Interpret(r, s, d) = kindForStatus(s)
      BY <1>3 DEF Interpret, mapStatusError
    <2>2. kindForStatus(s) \in Refusals => ~ (s >= 500)
      BY DEF kindForStatus, Refusals, ErrorKinds, Undecided
    <2>3. ~ (s >= 500) => ExecutionsBehind(r, s) = {0}
      BY <1>3 DEF ExecutionsBehind
    <2>4. kindForStatus(s) # "ok"
      BY KindOfStatus DEF ErrorKinds
    <2>. QED  BY <2>1, <2>2, <2>3, <2>4, KindOfStatus
  <1>. QED  BY <1>1, <1>2, <1>3

-----------------------------------------------------------------------------
(* A step of one call leaves the others' invariant alone. *)
LEMMA OthersUntouched ==
    ASSUME NEW d \in Calls, CallInv(d),
           pc'[d] = pc[d], route'[d] = route[d], wire'[d] = wire[d],
           executed'[d] = executed[d], outcome'[d] = outcome[d]
    PROVE  CallInv(d)'
  BY DEF CallInv

LEMMA InitInv == Init => IInv
  <1>. SUFFICES ASSUME Init PROVE IInv
    OBVIOUS
  <1>1. TypeOK
    BY StatusesAssumption
    DEF Init, TypeOK, NoRoute, Quiet, Wire, Route, Labels, Outcomes
  <1>2. ASSUME NEW c \in Calls PROVE CallInv(c)
    BY DEF Init, CallInv, Quiet, Wire, Refusals, ErrorKinds
  <1>. QED  BY <1>1, <1>2 DEF IInv

(* Every way of calling the client is a Send along a known route. *)
LEMMA CallIsSend ==
    ASSUME NEW c \in Calls, Call(c)
    PROVE  \E r \in Routes : Send(c, r)
  BY DEF Call, do, doJSON, doText, IsPullRequestMerged, UploadReleaseAsset, Routes

LEMMA SendKeepsInv ==
    ASSUME IInv, NEW c \in Calls, NEW r \in Routes, Send(c, r)
    PROVE  IInv'
  <1>1. TypeOK'
    BY DEF IInv, TypeOK, Send, Request, Wire, Labels
  <1>2. ASSUME NEW d \in Calls PROVE CallInv(d)'
    <2>1. CASE d = c
      BY <2>1 DEF IInv, TypeOK, CallInv, Send, Request, Wire, Refusals, ErrorKinds
    <2>2. CASE d # c
      BY <2>2, OthersUntouched DEF IInv, TypeOK, Send
    <2>. QED  BY <2>1, <2>2
  <1>. QED  BY <1>1, <1>2 DEF IInv

LEMMA TakeAnswerKeepsInv ==
    ASSUME IInv, NEW c \in Calls, TakeAnswer(c)
    PROVE  IInv'
  <1>. DEFINE s == wire[c].status
              o == Interpret(route[c], s, wire[c].decodable)
  <1>1. /\ s \in Statuses
        /\ s \in Nat
        /\ wire[c].decodable \in BOOLEAN
        /\ executed[c] \in ExecutionsBehind(route[c], s)
    BY StatusesAssumption DEF IInv, TypeOK, CallInv, TakeAnswer
  <1>2. /\ o \in {"ok"} \cup ErrorKinds
        /\ o = "ok" => executed[c] = 1
        /\ o \in Refusals => executed[c] = 0
    <2>. HIDE DEF s
    <2>1. /\ o \in {"ok"} \cup ErrorKinds
          /\ o = "ok" => ExecutionsBehind(route[c], s) = {1}
          /\ o \in Refusals => ExecutionsBehind(route[c], s) = {0}
      BY <1>1, InterpretSound
    <2>. QED  BY <1>1, <2>1
  <1>3. /\ wire' = [wire EXCEPT ![c].at = "read"]
        /\ pc' = [pc EXCEPT ![c] = "returned"]
        /\ outcome' = [outcome EXCEPT ![c] = o]
        /\ metric' = [metric EXCEPT ![s] = @ + 1]
        /\ UNCHANGED <<route, executed>>
    BY DEF TakeAnswer, Return, observe
  <1>. HIDE DEF o
  <1>4. TypeOK'
    BY <1>1, <1>2, <1>3 DEF IInv, TypeOK, Outcomes, Labels
  <1>5. ASSUME NEW d \in Calls PROVE CallInv(d)'
    <2>1. CASE d = c
      BY <2>1, <1>2, <1>3 DEF IInv, TypeOK, CallInv, ErrorKinds
    <2>2. CASE d # c
      BY <2>2, <1>3, OthersUntouched DEF IInv, TypeOK
    <2>. QED  BY <2>1, <2>2
  <1>. QED  BY <1>4, <1>5 DEF IInv

LEMMA BreakBodyKeepsInv ==
    ASSUME IInv, NEW c \in Calls, BreakBody(c)
    PROVE  IInv'
  <1>1. PICK label \in {0, wire[c].status} : Return(c, label, "transient")
    BY DEF BreakBody
  <1>2. label \in Labels
    BY DEF IInv, TypeOK, CallInv, BreakBody, Labels
  <1>3. TypeOK'
    BY <1>1, <1>2 DEF IInv, TypeOK, BreakBody, Return, observe, Outcomes, ErrorKinds
  <1>4. ASSUME NEW d \in Calls PROVE CallInv(d)'
    <2>1. CASE d = c
      BY <2>1, <1>1 DEF IInv, TypeOK, CallInv, BreakBody, Return, Refusals, Undecided
    <2>2. CASE d # c
      BY <2>2, <1>1, OthersUntouched DEF IInv, TypeOK, BreakBody, Return
    <2>. QED  BY <2>1, <2>2
  <1>. QED  BY <1>3, <1>4 DEF IInv

LEMMA FailKeepsInv ==
    ASSUME IInv, NEW c \in Calls, Fail(c)
    PROVE  IInv'
  <1>1. TypeOK'
    BY DEF IInv, TypeOK, Fail, Return, observe, Outcomes, ErrorKinds, Labels
  <1>2. ASSUME NEW d \in Calls PROVE CallInv(d)'
    <2>1. CASE d = c
      BY <2>1 DEF IInv, TypeOK, CallInv, Fail, Return, Refusals, Undecided
    <2>2. CASE d # c
      BY <2>2, OthersUntouched DEF IInv, TypeOK, Fail, Return
    <2>. QED  BY <2>1, <2>2
  <1>. QED  BY <1>1, <1>2 DEF IInv

LEMMA ServeKeepsInv ==
    ASSUME IInv, NEW c \in Calls, Serve(c)
    PROVE  IInv'
  <1>1. PICK s \in Statuses, b \in BOOLEAN :
            /\ wire' = [wire EXCEPT ![c] = Answer(s, b)]
            /\ \E n \in ExecutionsBehind(route[c], s) :
                  executed' = [executed EXCEPT ![c] = @ + n]
    BY DEF Serve
  <1>2. PICK n \in ExecutionsBehind(route[c], s) :
            executed' = [executed EXCEPT ![c] = @ + n]
    BY <1>1
  <1>3. n \in {0, 1}
    BY ExecutionsBound, StatusesAssumption
  <1>4. executed[c] = 0 /\ executed'[c] = n
    BY <1>2, <1>3 DEF IInv, TypeOK, CallInv, Serve
  <1>5. TypeOK'
    BY <1>1, <1>2, <1>3 DEF IInv, TypeOK, Serve, Answer, Wire, Labels
  <1>6. ASSUME NEW d \in Calls PROVE CallInv(d)'
    <2>1. CASE d = c
      <3>1. /\ wire'[c].at = "answer"
            /\ wire'[c].status = s
            /\ route'[c] = route[c] /\ pc'[c] = pc[c] /\ outcome'[c] = outcome[c]
        BY <1>1 DEF IInv, TypeOK, Serve, Answer, Wire
      <3>2. outcome[c] \in {"none", "transient"} /\ pc[c] # "idle"
        BY DEF IInv, CallInv, Serve
      <3>3. executed'[c] \in ExecutionsBehind(route'[c], wire'[c].status)
        BY <3>1, <1>4
      <3>4. executed'[c] <= 1
        BY <1>3, <1>4
      <3>5. outcome'[c] # "ok" /\ outcome'[c] \notin Refusals
        BY <3>1, <3>2 DEF Refusals, ErrorKinds, Undecided
      <3>6. pc[c] = "returned" <=> outcome[c] # "none"
        BY DEF IInv, CallInv
      <3>. QED  BY <2>1, <3>1, <3>2, <3>3, <3>4, <3>5, <3>6 DEF CallInv
    <2>2. CASE d # c
      BY <2>2, <1>1, <1>2, OthersUntouched DEF IInv, TypeOK, Serve
    <2>. QED  BY <2>1, <2>2
  <1>. QED  BY <1>5, <1>6 DEF IInv

LEMMA DropKeepsInv ==
    ASSUME IInv, NEW c \in Calls, Drop(c)
    PROVE  IInv'
  <1>1. TypeOK'
    BY DEF IInv, TypeOK, Drop
  <1>2. ASSUME NEW d \in Calls PROVE CallInv(d)'
    <2>1. CASE d = c
      BY <2>1 DEF IInv, TypeOK, CallInv, Drop, Refusals, Undecided
    <2>2. CASE d # c
      BY <2>2, OthersUntouched DEF IInv, TypeOK, Drop
    <2>. QED  BY <2>1, <2>2
  <1>. QED  BY <1>1, <1>2 DEF IInv

LEMMA StepInv == IInv /\ [Next]_vars => IInv'
  <1>. SUFFICES ASSUME IInv, [Next]_vars PROVE IInv'
    OBVIOUS
  <1>1. CASE UNCHANGED vars
    BY <1>1 DEF IInv, TypeOK, CallInv, vars
  <1>2. ASSUME NEW c \in Calls, Call(c) PROVE IInv'
    BY <1>2, CallIsSend, SendKeepsInv
  <1>3. ASSUME NEW c \in Calls, TakeAnswer(c) PROVE IInv'
    BY <1>3, TakeAnswerKeepsInv
  <1>4. ASSUME NEW c \in Calls, BreakBody(c) PROVE IInv'
    BY <1>4, BreakBodyKeepsInv
  <1>5. ASSUME NEW c \in Calls, Fail(c) PROVE IInv'
    BY <1>5, FailKeepsInv
  <1>6. ASSUME NEW c \in Calls, Serve(c) PROVE IInv'
    BY <1>6, ServeKeepsInv
  <1>7. ASSUME NEW c \in Calls, Drop(c) PROVE IInv'
    BY <1>7, DropKeepsInv
  <1>. QED  BY <1>1, <1>2, <1>3, <1>4, <1>5, <1>6, <1>7 DEF Next

-----------------------------------------------------------------------------
LEMMA Invariance == Spec => []IInv
  BY InitInv, StepInv, PTL DEF Spec

(* The client's state is always of its type. *)
THEOREM TypeCorrect == Spec => []TypeOK
  <1>1. IInv => TypeOK
    BY DEF IInv
  <1>. QED  BY <1>1, Invariance, PTL

(* The client never makes Forgejo carry out a call twice. *)
THEOREM ExecutesAtMostOnce == Spec => []AtMostOnce
  <1>1. IInv => AtMostOnce
    BY DEF IInv, CallInv, AtMostOnce
  <1>. QED  BY <1>1, Invariance, PTL

(* What a call returns is true of what Forgejo did. *)
THEOREM OutcomesAreTruthful == Spec => []TruthfulOutcome
  <1>1. IInv => TruthfulOutcome
    BY DEF IInv, CallInv, TruthfulOutcome
  <1>. QED  BY <1>1, Invariance, PTL

-----------------------------------------------------------------------------
(* Only Serve touches executed, and it needs a request on the wire, which  *)
(* no outcome but "transient" leaves behind.                               *)
LEMMA ExecutionIsServe ==
    ASSUME IInv, [Next]_vars, NEW c \in Calls, executed'[c] # executed[c]
    PROVE  Serve(c)
  <1>1. CASE UNCHANGED vars
    BY <1>1 DEF vars
  <1>2. ASSUME NEW d \in Calls,
               Call(d) \/ TakeAnswer(d) \/ BreakBody(d) \/ Fail(d) \/ Drop(d)
        PROVE  UNCHANGED executed
    BY <1>2, CallIsSend DEF Send, TakeAnswer, BreakBody, Fail, Return, Drop
  <1>3. ASSUME NEW d \in Calls, Serve(d)
        PROVE  d = c
    BY <1>3 DEF IInv, TypeOK, Serve
  <1>. QED  BY <1>1, <1>2, <1>3 DEF Next

(* Nothing happens on behalf of a call that returned, unless it returned   *)
(* "transient".                                                            *)
THEOREM LateOnlyIfTransient == Spec => LateExecutionOnlyIfTransient
  <1>. DEFINE Quietly == \A c \in Calls : executed'[c] # executed[c]
                                            => outcome[c] \in {"none", "transient"}
  <1>1. IInv /\ [Next]_vars => [Quietly]_vars
    <2>. SUFFICES ASSUME IInv, [Next]_vars, NEW c \in Calls, executed'[c] # executed[c]
                  PROVE  outcome[c] \in {"none", "transient"}
      OBVIOUS
    <2>1. Serve(c)
      BY ExecutionIsServe
    <2>. QED  BY <2>1 DEF IInv, CallInv, Serve
  <1>. QED  BY <1>1, Invariance, PTL DEF Spec, LateExecutionOnlyIfTransient

-----------------------------------------------------------------------------
(* Outcomes as the reports of RemoteCall. *)
LEMMA ReportOfOutcome ==
    /\ Report("none") = "none"
    /\ Report("ok") = "done"
    /\ Report("transient") = "undecided"
    /\ \A o \in ErrorKinds : Report(o) \in {"refused", "undecided"}
    /\ \A o \in ErrorKinds : Report(o) = "refused" <=> o \in Refusals
  BY DEF Report, ErrorKinds, Refusals, Undecided

(* Returning is telling, provided what is told is true. *)
LEMMA ReturnTells ==
    ASSUME IInv, NEW c \in Calls, pc[c] = "waiting", NEW o \in {"ok"} \cup ErrorKinds,
           outcome' = [outcome EXCEPT ![c] = o], UNCHANGED executed,
           o = "ok" => executed[c] = 1,
           o \in Refusals => executed[c] = 0
    PROVE  Promise!Tell(c)
  <1>1. outcome[c] = "none"
    BY DEF IInv, TypeOK, CallInv
  <1>2. outcome \in [Calls -> Outcomes]
    BY DEF IInv, TypeOK
  <1>3. Report(o) \in Promise!Reports \ {"none"}
    BY ReportOfOutcome DEF Promise!Reports
  <1>4. /\ Report(o) = "done" => executed[c] = 1
        /\ Report(o) = "refused" => executed[c] = 0
    BY ReportOfOutcome
  <1>5. [d \in Calls |-> Report(outcome[d])]'
          = [[d \in Calls |-> Report(outcome[d])] EXCEPT ![c] = Report(o)]
    BY <1>2
  <1>. QED  BY <1>1, <1>3, <1>4, <1>5, ReportOfOutcome DEF Promise!Tell

LEMMA InitIsPromised == Init => Promise!Init
  BY ReportOfOutcome DEF Init, Promise!Init

LEMMA StepIsPromised ==
    ASSUME IInv, IInv', [Next]_vars
    PROVE  [Promise!Next]_(Promise!promiseVars)
  <1>1. CASE UNCHANGED vars
    BY <1>1 DEF vars, Promise!promiseVars
  <1>2. ASSUME NEW c \in Calls, Call(c) \/ Drop(c)
        PROVE  UNCHANGED Promise!promiseVars
    BY <1>2, CallIsSend DEF Send, Drop, Promise!promiseVars
  <1>3. ASSUME NEW c \in Calls, TakeAnswer(c) \/ BreakBody(c) \/ Fail(c)
        PROVE  Promise!Tell(c)
    <2>1. pc[c] = "waiting" /\ UNCHANGED executed
      BY <1>3 DEF TakeAnswer, BreakBody, Fail, Return
    <2>2. PICK o : outcome' = [outcome EXCEPT ![c] = o]
      BY <1>3 DEF TakeAnswer, BreakBody, Fail, Return
    <2>3. outcome'[c] = o
      BY <2>2 DEF IInv, TypeOK
    <2>4. /\ o # "none"
          /\ o = "ok" => executed[c] = 1
          /\ o \in Refusals => executed[c] = 0
      <3>1. pc'[c] = "returned"
        BY <1>3 DEF TakeAnswer, BreakBody, Fail, Return, IInv, TypeOK
      <3>. QED  BY <3>1, <2>1, <2>3 DEF IInv, CallInv
    <2>5. o \in {"ok"} \cup ErrorKinds
      BY <2>3, <2>4 DEF IInv, TypeOK, Outcomes
    <2>. QED  BY <2>1, <2>2, <2>4, <2>5, ReturnTells
  <1>4. ASSUME NEW c \in Calls, Serve(c)
        PROVE  Promise!Execute(c) \/ UNCHANGED Promise!promiseVars
    <2>1. PICK n : executed' = [executed EXCEPT ![c] = @ + n]
      BY <1>4 DEF Serve
    <2>2. executed[c] = 0 /\ outcome[c] \in {"none", "transient"} /\ UNCHANGED outcome
      BY <1>4 DEF IInv, TypeOK, CallInv, Serve
    <2>3. executed'[c] \in {0, 1}
      <3>1. executed'[c] \in Nat /\ executed'[c] <= 1
        BY DEF IInv, TypeOK, CallInv
      <3>. QED  BY <3>1
    <2>4. executed \in [Calls -> Nat]
      BY DEF IInv, TypeOK
    <2>5. CASE executed'[c] = 1
      <3>1. executed' = [executed EXCEPT ![c] = 1]
        BY <2>1, <2>4, <2>5
      <3>. QED  BY <2>2, <3>1, ReportOfOutcome DEF Promise!Execute
    <2>6. CASE executed'[c] = 0
      <3>1. executed' = executed
        BY <2>1, <2>2, <2>4, <2>6
      <3>. QED  BY <2>2, <3>1 DEF Promise!promiseVars
    <2>. QED  BY <2>3, <2>5, <2>6
  <1>. QED  BY <1>1, <1>2, <1>3, <1>4 DEF Next, Promise!Next

(* The client implements RemoteCall: whatever the network and Forgejo do,  *)
(* a use case sees a call that takes effect at most once and a report it   *)
(* can rely on.                                                            *)
THEOREM ClientKeepsPromise == Spec => KeepsPromise
  <1>1. Spec => Promise!Init
    BY InitIsPromised DEF Spec
  <1>2. IInv /\ IInv' /\ [Next]_vars => [Promise!Next]_(Promise!promiseVars)
    BY StepIsPromised
  <1>. QED  BY <1>1, <1>2, Invariance, PTL DEF Spec, KeepsPromise, Promise!Spec
-----------------------------------------------------------------------------
(* The upstream counter.  A sample is explained by a label of its call; a  *)
(* step that returns adds one call and one sample, and a step on the wire  *)
(* of a call that returned leaves its label explained, because a request   *)
(* still out has no status yet.                                            *)

Explains(label) == \A c \in Returned :
    \/ label[c] = wire[c].status
    \/ label[c] = 0 /\ wire[c].at # "read"

Counts(label) == \A s \in Labels : metric[s] = Cardinality({c \in Returned : label[c] = s})

CountInv ==
    /\ IsFiniteSet(Returned)
    /\ \A c \in Calls : /\ wire[c].at \in {"none", "request"} => wire[c].status = 0
                        /\ wire[c].at = "read" => pc[c] = "returned"
    /\ MetricsAccount

LEMMA InitCounts == Init => CountInv
  <1>. SUFFICES ASSUME Init PROVE CountInv
    OBVIOUS
  <1>1. Returned = {}
    BY DEF Init, Returned
  <1>2. PICK label \in [Returned -> Labels] : TRUE
    <2>1. [c \in Returned |-> 0] \in [Returned -> Labels]
      BY DEF Labels
    <2>. QED  BY <2>1
  <1>3. \A s \in Labels : {c \in Returned : label[c] = s} = {}
    BY <1>1
  <1>4. MetricsAccount
    BY <1>1, <1>2, <1>3, FS_EmptySet DEF Init, MetricsAccount
  <1>. QED  BY <1>1, <1>4, FS_EmptySet DEF Init, Quiet, Wire, CountInv

(* Returning counts the call once, under the label it was observed with.   *)
LEMMA ReturnCounts ==
    ASSUME IInv, CountInv, NEW c \in Calls, NEW l \in Labels, pc[c] = "waiting",
           pc' = [pc EXCEPT ![c] = "returned"], observe(l),
           \A d \in Calls \ {c} : wire'[d] = wire[d],
           wire[c].at \notin {"none", "request"} \/ UNCHANGED wire,
           wire'[c].at \notin {"none", "request"} \/ UNCHANGED wire,
           l = wire'[c].status \/ (l = 0 /\ wire'[c].at # "read")
    PROVE  CountInv'
  <1>1. Returned' = Returned \cup {c} /\ c \notin Returned /\ IsFiniteSet(Returned)
    BY DEF IInv, TypeOK, Returned, CountInv
  <1>2. PICK label \in [Returned -> Labels] : Counts(label) /\ Explains(label)
    BY DEF CountInv, MetricsAccount, Counts, Explains
  <1>3. PICK more \in [Returned' -> Labels] :
            more[c] = l /\ \A d \in Returned : more[d] = label[d]
    <2>. DEFINE f == [d \in Returned' |-> IF d = c THEN l ELSE label[d]]
    <2>1. f \in [Returned' -> Labels] /\ f[c] = l /\ \A d \in Returned : f[d] = label[d]
      BY <1>1
    <2>. QED  BY <2>1
  <1>5. Explains(more)'
    <2>. SUFFICES ASSUME NEW d \in Returned'
                  PROVE  \/ more[d] = wire'[d].status
                         \/ more[d] = 0 /\ wire'[d].at # "read"
      BY DEF Explains
    <2>1. CASE d = c
      BY <1>3, <2>1
    <2>2. CASE d # c
      BY <1>1, <1>2, <1>3, <2>2 DEF Explains, Returned
    <2>. QED  BY <2>1, <2>2
  <1>6. Counts(more)'
    <2>. SUFFICES ASSUME NEW s \in Labels
                  PROVE  metric'[s] = Cardinality({d \in Returned' : more[d] = s})
      BY DEF Counts
    <2>. DEFINE before == {d \in Returned : label[d] = s}
    <2>1. IsFiniteSet(before) /\ c \notin before
      BY <1>1, FS_Subset
    <2>2. metric[s] = Cardinality(before) /\ metric[s] \in Nat
      BY <1>2 DEF Counts, IInv, TypeOK
    <2>3. CASE s = l
      <3>1. {d \in Returned' : more[d] = s} = before \cup {c}
        BY <1>1, <1>3, <2>3
      <3>2. Cardinality(before \cup {c}) = Cardinality(before) + 1
        BY <2>1, FS_AddElement
      <3>3. metric'[s] = metric[s] + 1
        BY <2>3 DEF observe, IInv, TypeOK
      <3>. QED  BY <2>2, <3>1, <3>2, <3>3
    <2>4. CASE s # l
      <3>1. {d \in Returned' : more[d] = s} = before
        BY <1>1, <1>3, <2>4
      <3>2. metric'[s] = metric[s]
        BY <2>4 DEF observe, IInv, TypeOK
      <3>. QED  BY <2>2, <3>1, <3>2
    <2>. QED  BY <2>3, <2>4
  <1>7. MetricsAccount'
    BY <1>3, <1>5, <1>6 DEF MetricsAccount, Counts, Explains
  <1>8. IsFiniteSet(Returned')
    BY <1>1, FS_AddElement
  <1>9. \A d \in Calls : /\ wire'[d].at \in {"none", "request"} => wire'[d].status = 0
                         /\ wire'[d].at = "read" => pc'[d] = "returned"
    BY DEF CountInv, IInv, TypeOK
  <1>. QED  BY <1>7, <1>8, <1>9 DEF CountInv

(* A step that returns nothing, on the wire of one call at most.           *)
LEMMA OthersCount ==
    ASSUME IInv, CountInv, Returned' = Returned, UNCHANGED metric, NEW c \in Calls,
           \A d \in Calls \ {c} : wire'[d] = wire[d],
           \/ c \notin Returned /\ wire'[c] = Request
           \/ wire[c].at = "request" /\ wire'[c].at = "answer"
           \/ wire'[c].at = "lost" /\ wire'[c].status = wire[c].status
           \/ wire'[c] = wire[c]
    PROVE  CountInv'
  <1>1. PICK label \in [Returned -> Labels] : Counts(label) /\ Explains(label)
    BY DEF CountInv, MetricsAccount, Counts, Explains
  <1>2. Explains(label)'
    <2>. SUFFICES ASSUME NEW d \in Returned
                  PROVE  \/ label[d] = wire'[d].status
                         \/ label[d] = 0 /\ wire'[d].at # "read"
      BY DEF Explains
    <2>1. d \in Calls /\ (label[d] = wire[d].status \/ (label[d] = 0 /\ wire[d].at # "read"))
      BY <1>1 DEF Explains, Returned
    <2>. QED  BY <2>1 DEF CountInv
  <1>3. Counts(label)'
    BY <1>1 DEF Counts
  <1>4. MetricsAccount'
    BY <1>1, <1>2, <1>3 DEF MetricsAccount, Counts, Explains
  <1>5. \A d \in Calls : /\ wire'[d].at \in {"none", "request"} => wire'[d].status = 0
                         /\ wire'[d].at = "read" => pc'[d] = "returned"
    <2>1. \A d \in Calls : pc[d] = "returned" => pc'[d] = "returned"
      BY DEF Returned
    <2>2. Request.at = "request" /\ Request.status = 0
      BY DEF Request, Wire
    <2>3. ASSUME NEW d \in Calls, wire'[d] = wire[d]
          PROVE  /\ wire'[d].at \in {"none", "request"} => wire'[d].status = 0
                 /\ wire'[d].at = "read" => pc'[d] = "returned"
      BY <2>1, <2>3 DEF CountInv
    <2>4. CASE wire'[c] # wire[c]
      <3>1. /\ wire'[c].at \in {"none", "request"} => wire'[c].status = 0
            /\ wire'[c].at # "read"
        BY <2>2, <2>4
      <3>. QED  BY <2>3, <3>1
    <2>. QED  BY <2>3, <2>4
  <1>. QED  BY <1>4, <1>5 DEF CountInv

LEMMA StepCounts == IInv /\ CountInv /\ [Next]_vars => CountInv'
  <1>. SUFFICES ASSUME IInv, CountInv, [Next]_vars PROVE CountInv'
    OBVIOUS
  <1>1. CASE UNCHANGED vars
    <2>1. Returned' = Returned /\ UNCHANGED <<pc, wire, metric>>
      BY <1>1 DEF vars, Returned
    <2>2. MetricsAccount'
      BY <2>1 DEF CountInv, MetricsAccount
    <2>. QED  BY <2>1, <2>2 DEF CountInv
  <1>2. ASSUME NEW c \in Calls, Call(c) PROVE CountInv'
    <2>1. PICK r \in Routes : Send(c, r)
      BY <1>2, CallIsSend
    <2>2. Returned' = Returned /\ c \notin Returned /\ UNCHANGED metric
      BY <2>1 DEF Send, Returned, IInv, TypeOK
    <2>3. wire'[c] = Request /\ \A d \in Calls \ {c} : wire'[d] = wire[d]
      BY <2>1 DEF Send, IInv, TypeOK
    <2>. QED  BY <2>2, <2>3, OthersCount
  <1>3. ASSUME NEW c \in Calls, TakeAnswer(c) PROVE CountInv'
    <2>1. /\ pc[c] = "waiting" /\ wire[c].at = "answer" /\ wire[c].status \in Labels
          /\ pc' = [pc EXCEPT ![c] = "returned"] /\ observe(wire[c].status)
          /\ wire'[c].at = "read" /\ wire'[c].status = wire[c].status
          /\ \A d \in Calls \ {c} : wire'[d] = wire[d]
      BY <1>3 DEF TakeAnswer, Return, IInv, TypeOK
    <2>. QED  BY <2>1, ReturnCounts
  <1>4. ASSUME NEW c \in Calls, BreakBody(c) PROVE CountInv'
    <2>1. PICK l \in {0, wire[c].status} : Return(c, l, "transient")
      BY <1>4 DEF BreakBody
    <2>2. /\ pc[c] = "waiting" /\ wire[c].at = "answer" /\ l \in Labels
          /\ pc' = [pc EXCEPT ![c] = "returned"] /\ observe(l)
          /\ wire'[c].at = "lost" /\ wire'[c].status = wire[c].status
          /\ \A d \in Calls \ {c} : wire'[d] = wire[d]
      BY <1>4, <2>1 DEF BreakBody, Return, IInv, TypeOK, Labels
    <2>. QED  BY <2>1, <2>2, ReturnCounts
  <1>5. ASSUME NEW c \in Calls, Fail(c) PROVE CountInv'
    <2>1. /\ pc[c] = "waiting" /\ UNCHANGED wire /\ 0 \in Labels
          /\ pc' = [pc EXCEPT ![c] = "returned"] /\ observe(0)
      BY <1>5 DEF Fail, Return, Labels
    <2>2. wire[c].at # "read"
      BY <2>1 DEF IInv, CallInv, CountInv
    <2>. QED  BY <2>1, <2>2, ReturnCounts
  <1>6. ASSUME NEW c \in Calls, Serve(c) PROVE CountInv'
    <2>1. /\ Returned' = Returned /\ UNCHANGED metric
          /\ wire[c].at = "request" /\ wire'[c].at = "answer"
          /\ \A d \in Calls \ {c} : wire'[d] = wire[d]
      BY <1>6 DEF Serve, Returned, Answer, Wire, IInv, TypeOK
    <2>. QED  BY <2>1, OthersCount
  <1>7. ASSUME NEW c \in Calls, Drop(c) PROVE CountInv'
    <2>1. /\ Returned' = Returned /\ UNCHANGED metric
          /\ wire'[c].at = "lost" /\ wire'[c].status = wire[c].status
          /\ \A d \in Calls \ {c} : wire'[d] = wire[d]
      BY <1>7 DEF Drop, Returned, IInv, TypeOK
    <2>. QED  BY <2>1, OthersCount
  <1>. QED  BY <1>1, <1>2, <1>3, <1>4, <1>5, <1>6, <1>7 DEF Next

(* Every call that returned is counted once, and under a status it had.    *)
THEOREM MetricsAreExact == Spec => []MetricsAccount
  <1>1. Init => IInv /\ CountInv
    BY InitInv, InitCounts
  <1>2. IInv /\ CountInv /\ [Next]_vars => IInv' /\ CountInv'
    BY StepInv, StepCounts
  <1>3. CountInv => MetricsAccount
    BY DEF CountInv
  <1>. QED  BY <1>1, <1>2, <1>3, PTL DEF Spec
=============================================================================
