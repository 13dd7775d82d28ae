------------------------- MODULE IssuesBranchesProofs -------------------------
(***************************************************************************)
(* Proofs about IssuesBranches for every set of tool calls and branches.   *)
(*                                                                         *)
(* DefaultAskedForOnlyInRace needs to know, from the answer that names the *)
(* default branch on, that this is the default still or that somebody else *)
(* made another branch the default since it was read (RaceInv).            *)
(* ShownIssueHasItsComments needs that a comment, once deleted, does not   *)
(* come back: each writer comments once (ShownInv).  The refinement counts *)
(* what each call has done at Forgejo (CountsInv).                         *)
(***************************************************************************)
EXTENDS IssuesBranches, FiniteSetTheorems, TLAPS

RequestsOf(tool) ==
    CASE tool = "issue_get"         -> {"issue", "comments"}
      [] tool = "issue_comment_add" -> {"comment"}
      [] tool = "comment_delete"    -> {"delete_comment"}
      [] tool = "issue_update"      -> {"edit"}
      [] tool = "issue_delete"      -> {"delete_issue"}
      [] tool = "branch_delete"     -> {"repo", "delete_branch"}
      [] tool = "branch_create"     -> {"create_branch"}
      [] tool = "repo_update"       -> {"edit_repo"}
      [] OTHER                      -> {}

(* Who has commented so far. *)
Said == {"old"} \cup UNION {log[i].is.comments : i \in DOMAIN log}

CallInv(o) ==
    /\ pc[o] = "idle" => wire[o].at = "none"
    /\ pc[o] \in Requests => pc[o] \in RequestsOf(call[o].tool)
    /\ wire[o].at # "none" => /\ pc[o] \in {wire[o].req, "done"}
                              /\ wire[o].req \in RequestsOf(call[o].tool)
    /\ wire[o].at = "answer" => wire[o].res # "none"
    /\ call[o].tool \in {"branch_delete", "branch_create", "repo_update"} =>
           call[o].arg \in Branches

ShownInv(o) ==
    /\ pc[o] = "idle" \/ (wire[o].at = "request" /\ wire[o].req = "comment") => o \notin Said
    /\ known[o].issue.comments \subseteq Said
    /\ wire[o].got.comments \subseteq Said
    /\ wire[o].at = "answer" /\ wire[o].req = "comments" /\ wire[o].res = "ok" =>
           known[o].issue.comments \cap forge.comments \subseteq wire[o].got.comments
    /\ o \in Got => known[o].issue.comments \cap forge.comments \subseteq known[o].comments

(* Somebody else made the present default branch the default after o read  *)
(* the repository.                                                         *)
Moved(o) ==
    \E k \in DOMAIN log : /\ k > readAt[o] /\ MadeDefault(k, forge.default)
                          /\ log[k].by # o

RaceInv(o) ==
    /\ readAt[o] <= Len(log)
    /\ wire[o].at = "answer" /\ wire[o].req = "repo" /\ wire[o].res = "ok" =>
           wire[o].got.default = forge.default \/ Moved(o)
    /\ wire[o].at = "request" /\ wire[o].req = "delete_branch" =>
           call[o].arg # forge.default \/ Moved(o)

(* An edit leaves alone what it was not given. *)
Confined(edit, was, is) ==
    /\ "title" \notin edit => is.title = was.title
    /\ "body" \notin edit => is.body = was.body
    /\ edit \cap {"close", "reopen"} = {} => is.open = was.open

LogInv(e) == e.by \in Ops =>
    /\ pc[e.by] # "idle"
    /\ call[e.by].tool = "issue_update" => Confined(call[e.by].edit, e.was, e.is)

IInv ==
    /\ TypeOK
    /\ forge.comments \subseteq Said
    /\ \A o \in Ops : CallInv(o) /\ ShownInv(o) /\ RaceInv(o)
    /\ \A i \in DOMAIN log : LogInv(log[i])

-----------------------------------------------------------------------------
LEMMA NothingIsThere == Nothing \in Forges /\ Nothing.comments = {}
  BY RepositoryAssumption DEF Nothing, Forges, Writers

LEMMA WireType ==
    ASSUME NEW at \in {"none", "request", "answer"}, NEW req \in {"none"} \cup Requests,
           NEW res \in Outcomes, NEW got \in Forges
    PROVE  /\ Wire(at, req, res, got) \in Wires
           /\ Wire(at, req, res, got).at = at /\ Wire(at, req, res, got).req = req
           /\ Wire(at, req, res, got).res = res /\ Wire(at, req, res, got).got = got
  BY DEF Wire, Wires

LEMMA SilenceType ==
    /\ Silence \in Wires /\ Silence.at = "none" /\ Silence.got.comments = {}
  BY WireType, NothingIsThere DEF Silence, Outcomes

LEMMA InitInv == Init => IInv
  <1>. SUFFICES ASSUME Init PROVE IInv
    OBVIOUS
  <1>1. TypeOK
    <2>1. forge \in Forges
      BY RepositoryAssumption DEF Init, Forges, Writers
    <2>2. known \in [Ops -> [issue : Forges, comments : SUBSET Writers]]
      BY NothingIsThere DEF Init
    <2>3. wire \in [Ops -> Wires]
      BY SilenceType DEF Init
    <2>4. log \in Seq([by : Ops \cup {"foreign"}, was : Forges, is : Forges])
      BY DEF Init
    <2>5. call \in [Ops -> [tool : {"none"} \cup Tools,
                            arg : {"none"} \cup Writers \cup Branches, edit : EveryEdit]]
      BY DEF Init, EveryEdit
    <2>6. readAt \in [Ops -> Nat]
      BY DEF Init
    <2>. QED  BY <2>1, <2>2, <2>3, <2>4, <2>5, <2>6 DEF Init, TypeOK, Outcomes
  <1>2. Said = {"old"} /\ forge.comments \subseteq Said
    BY DEF Init, Said
  <1>3. ASSUME NEW o \in Ops PROVE CallInv(o) /\ ShownInv(o) /\ RaceInv(o)
    <2>1. o \notin Said
      BY <1>2, RepositoryAssumption
    <2>2. /\ pc[o] = "idle" /\ call[o].tool = "none" /\ outcome[o] = "none"
          /\ wire[o] = Silence /\ known[o].issue = Nothing
      BY DEF Init
    <2>3. CallInv(o)
      BY <2>2, SilenceType DEF CallInv, Requests, ReadRequests, WriteRequests
    <2>4. ShownInv(o)
      BY <2>1, <2>2, SilenceType, NothingIsThere DEF ShownInv, Got
    <2>5. RaceInv(o)
      BY <2>2, SilenceType DEF RaceInv, Init
    <2>. QED  BY <2>3, <2>4, <2>5
  <1>4. \A i \in DOMAIN log : LogInv(log[i])
    BY DEF Init
  <1>. QED  BY <1>1, <1>2, <1>3, <1>4 DEF IInv

-----------------------------------------------------------------------------
(* Steps of one tool call that leave Forgejo as it is. *)
Untouched(d) ==
    /\ pc'[d] = pc[d] /\ call'[d] = call[d] /\ wire'[d] = wire[d]
    /\ known'[d] = known[d] /\ outcome'[d] = outcome[d]

LEMMA QuietStep ==
    ASSUME IInv, NEW o \in Ops, UNCHANGED forgeVars, TypeOK',
           \A d \in Ops \ {o} : Untouched(d) /\ readAt'[d] = readAt[d],
           pc'[o] # "idle", pc[o] = "idle" \/ call'[o] = call[o],
           (CallInv(o) /\ ShownInv(o) /\ RaceInv(o))'
    PROVE  IInv'
  <1>. USE DEF forgeVars
  <1>1. ASSUME NEW d \in Ops \ {o} PROVE (CallInv(d) /\ ShownInv(d) /\ RaceInv(d))'
    BY DEF IInv, CallInv, ShownInv, RaceInv, Untouched, Got, Said, Moved, MadeDefault
  <1>2. ASSUME NEW i \in DOMAIN log PROVE LogInv(log[i])'
    BY DEF IInv, LogInv, Untouched
  <1>. QED  BY <1>1, <1>2 DEF IInv, Said

(* Every call starts by its first request, or is refused. *)
LEMMA StartIsCall ==
    ASSUME IInv, NEW o \in Ops, Start(o)
    PROVE  \E tool \in Tools, arg \in {"none"} \cup Writers \cup Branches, edit \in EveryEdit :
             /\ Given(o, tool, arg, edit)
             /\ tool \in {"branch_delete", "branch_create", "repo_update"} => arg \in Branches
             /\ \/ Reject(o)
                \/ \E req \in RequestsOf(tool) \cap Requests :
                      req \notin {"delete_branch", "comments"} /\ Ask(o, req)
  <1>. USE DEF RequestsOf, Requests, ReadRequests, WriteRequests, Tools, Checked, Called
  <1>. {} \in EveryEdit
    BY DEF EveryEdit
  <1>1. CASE GetIssue(o)
    BY <1>1 DEF GetIssue, GetIssueReads
  <1>2. CASE AddIssueComment(o)
    BY <1>2 DEF AddIssueComment
  <1>3. CASE DeleteComment(o)
    BY <1>3 DEF DeleteComment, IInv, TypeOK, Forges
  <1>4. CASE UpdateIssue(o)
    BY <1>4, RepositoryAssumption DEF UpdateIssue
  <1>5. CASE DeleteIssue(o)
    BY <1>5 DEF DeleteIssue
  <1>6. CASE DeleteBranch(o)
    BY <1>6 DEF DeleteBranch
  <1>7. CASE CreateBranch(o)
    BY <1>7 DEF CreateBranch
  <1>8. CASE UpdateRepository(o)
    BY <1>8 DEF UpdateRepository
  <1>. QED  BY <1>1, <1>2, <1>3, <1>4, <1>5, <1>6, <1>7, <1>8 DEF Start

(* What asking does to the wire. *)
LEMMA AskType ==
    ASSUME TypeOK, NEW o \in Ops, NEW req \in Requests, Ask(o, req)
    PROVE  /\ pc' \in [Ops -> {"idle", "done"} \cup Requests]
           /\ pc'[o] = req
           /\ wire' \in [Ops -> Wires]
           /\ wire'[o].at = "request" /\ wire'[o].req = req /\ wire'[o].got.comments = {}
           /\ outcome' = outcome
           /\ \A d \in Ops \ {o} : pc'[d] = pc[d] /\ wire'[d] = wire[d]
  <1>1. /\ Wire("request", req, "none", Nothing) \in Wires
        /\ Wire("request", req, "none", Nothing).at = "request"
        /\ Wire("request", req, "none", Nothing).req = req
        /\ Wire("request", req, "none", Nothing).got.comments = {}
    <2>1. "none" \in Outcomes
      BY DEF Outcomes
    <2>2. "request" \in {"none", "request", "answer"} /\ req \in {"none"} \cup Requests
      OBVIOUS
    <2>. QED  BY <2>1, <2>2, WireType, NothingIsThere
  <1>2. wire' = [wire EXCEPT ![o] = Wire("request", req, "none", Nothing)]
    BY DEF Ask
  <1>3. wire'[o] = Wire("request", req, "none", Nothing)
    BY <1>2 DEF TypeOK
  <1>. QED  BY <1>1, <1>2, <1>3 DEF TypeOK, Ask

LEMMA StartKeepsInv ==
    ASSUME IInv, NEW o \in Ops, Start(o)
    PROVE  IInv'
  <1>1. PICK tool \in Tools, arg \in {"none"} \cup Writers \cup Branches, edit \in EveryEdit :
             /\ Given(o, tool, arg, edit)
             /\ tool \in {"branch_delete", "branch_create", "repo_update"} => arg \in Branches
             /\ \/ Reject(o)
                \/ \E req \in RequestsOf(tool) \cap Requests :
                      req \notin {"delete_branch", "comments"} /\ Ask(o, req)
    BY StartIsCall
  <1>2. /\ pc[o] = "idle"
        /\ call' \in [Ops -> [tool : {"none"} \cup Tools,
                              arg : {"none"} \cup Writers \cup Branches, edit : EveryEdit]]
        /\ call'[o].tool = tool /\ call'[o].arg = arg
        /\ \A d \in Ops \ {o} : call'[d] = call[d]
        /\ UNCHANGED <<known, forge, log, readAt>>
    BY <1>1 DEF Given, IInv, TypeOK, forgeVars
  <1>3. CallInv(o) /\ ShownInv(o) /\ RaceInv(o) /\ outcome[o] = "none" /\ wire[o].at = "none"
    BY <1>2 DEF IInv, TypeOK, CallInv
  <1>4. CASE Reject(o)
    <2>1. TypeOK'
      BY <1>2, <1>4 DEF Reject, Return, IInv, TypeOK, Outcomes, ErrorKinds, Requests, ReadRequests, WriteRequests
    <2>2. \A d \in Ops \ {o} : Untouched(d)
      BY <1>2, <1>4 DEF Reject, Return, IInv, TypeOK, Untouched
    <2>3. pc'[o] = "done" /\ wire'[o] = wire[o] /\ outcome'[o] = "validation"
      BY <1>4 DEF Reject, Return, IInv, TypeOK
    <2>4. CallInv(o)'
      BY <1>1, <1>2, <1>3, <2>3 DEF CallInv, Requests, ReadRequests, WriteRequests
    <2>5. ShownInv(o)'
      BY <1>2, <1>3, <2>3 DEF ShownInv, Said, Got
    <2>6. RaceInv(o)'
      BY <1>2, <1>3, <2>3 DEF RaceInv
    <2>. QED  BY <1>2, <2>1, <2>2, <2>3, <2>4, <2>5, <2>6, QuietStep DEF forgeVars
  <1>5. ASSUME NEW req \in RequestsOf(tool) \cap Requests,
               req \notin {"delete_branch", "comments"}, Ask(o, req)
        PROVE  IInv'
    <2>1. req # "idle" /\ req # "done"
      BY DEF Requests, ReadRequests, WriteRequests
    <2>2. TypeOK'
      BY <1>2, <1>3, <1>5, <2>1, AskType DEF IInv, TypeOK
    <2>3. \A d \in Ops \ {o} : Untouched(d)
      BY <1>2, <1>5, AskType DEF IInv, Untouched
    <2>4. CallInv(o)'
      BY <1>1, <1>2, <1>5, <2>1, AskType DEF IInv, CallInv
    <2>5. ShownInv(o)'
      BY <1>2, <1>3, <1>5, <2>1, AskType DEF IInv, ShownInv, Said, Got
    <2>6. RaceInv(o)'
      BY <1>2, <1>5, AskType DEF IInv, RaceInv
    <2>. QED  BY <1>2, <1>5, <2>1, <2>2, <2>3, <2>4, <2>5, <2>6, AskType, QuietStep DEF IInv, forgeVars
  <1>. QED  BY <1>1, <1>4, <1>5

-----------------------------------------------------------------------------
(* What returning and reading do; DEF Return, Read with TypeOK would do at *)
(* each use, one record per call being all they touch.                     *)
LEMMA ReturnType ==
    ASSUME TypeOK, NEW o \in Ops, NEW result \in Outcomes, result # "none", Return(o, result)
    PROVE  /\ pc' \in [Ops -> {"idle", "done"} \cup Requests]
           /\ outcome' \in [Ops -> Outcomes]
           /\ pc'[o] = "done" /\ outcome'[o] = result
           /\ \A d \in Ops \ {o} : pc'[d] = pc[d] /\ outcome'[d] = outcome[d]
  BY DEF Return, TypeOK

LEMMA ReadType ==
    ASSUME TypeOK, NEW o \in Ops, Read(o)
    PROVE  /\ wire' \in [Ops -> Wires]
           /\ wire'[o].at = "none" /\ wire'[o].got.comments = {}
           /\ \A d \in Ops \ {o} : wire'[d] = wire[d]
  BY SilenceType DEF Read, TypeOK

(* A call that ends with something else than "ok", or that was not one of  *)
(* issue_get, shows nothing; its wire is silent or as it was.              *)
LEMMA EndKeepsInv ==
    ASSUME IInv, NEW o \in Ops, NEW result \in Outcomes, result # "none",
           pc[o] \in Requests, Return(o, result),
           Read(o) \/ UNCHANGED wire,
           result # "ok" \/ call[o].tool # "issue_get",
           UNCHANGED <<call, known, forgeVars, readAt>>
    PROVE  IInv'
  <1>. USE DEF forgeVars
  <1>1. /\ CallInv(o) /\ ShownInv(o) /\ RaceInv(o) /\ TypeOK
        /\ pc[o] # "idle" /\ pc[o] # "done"
    BY DEF IInv, Requests, ReadRequests, WriteRequests
  <1>2. TypeOK'
    <2>1. wire' \in [Ops -> Wires]
      BY <1>1, ReadType DEF TypeOK
    <2>2. \A d \in Ops : pc'[d] = "done" <=> outcome'[d] # "none"
      BY <1>1, ReturnType DEF TypeOK
    <2>. QED  BY <1>1, <2>1, <2>2, ReturnType DEF TypeOK
  <1>3. \A d \in Ops \ {o} : Untouched(d)
    BY <1>1, ReturnType, ReadType DEF Untouched
  <1>4. CASE Read(o)
    <2>1. CallInv(o)'
      BY <1>1, <1>4, ReturnType, ReadType DEF CallInv, Requests, ReadRequests, WriteRequests
    <2>2. ShownInv(o)'
      BY <1>1, <1>4, ReturnType, ReadType DEF ShownInv, Said, Got
    <2>3. RaceInv(o)'
      BY <1>1, <1>4, ReadType DEF RaceInv
    <2>. QED  BY <1>1, <1>2, <1>3, <2>1, <2>2, <2>3, ReturnType, QuietStep
  <1>5. CASE UNCHANGED wire
    <2>1. CallInv(o)'
      BY <1>1, <1>5, ReturnType DEF CallInv, Requests, ReadRequests, WriteRequests
    <2>2. ShownInv(o)'
      BY <1>1, <1>5, ReturnType DEF ShownInv, Said, Got
    <2>3. RaceInv(o)'
      BY <1>1, <1>5 DEF RaceInv, Moved, MadeDefault
    <2>. QED  BY <1>1, <1>2, <1>3, <2>1, <2>2, <2>3, ReturnType, QuietStep
  <1>. QED  BY <1>4, <1>5

LEMMA TakeErrorKeepsInv ==
    ASSUME IInv, NEW o \in Ops, TakeError(o)
    PROVE  IInv'
  <1>1. wire[o].res \in Outcomes /\ wire[o].res # "none" /\ wire[o].res # "ok"
    BY DEF TakeError, IInv, TypeOK, Wires, CallInv
  <1>. QED  BY <1>1, EndKeepsInv DEF TakeError

LEMMA FailKeepsInv ==
    ASSUME IInv, NEW o \in Ops, Fail(o)
    PROVE  IInv'
  <1>1. "transient" \in Outcomes
    BY DEF Outcomes, ErrorKinds
  <1>. QED  BY <1>1, EndKeepsInv DEF Fail

LEMMA TakeWriteKeepsInv ==
    ASSUME IInv, NEW o \in Ops, TakeWrite(o)
    PROVE  IInv'
  <1>1. "ok" \in Outcomes /\ pc[o] \in Requests
    BY DEF Outcomes, TakeWrite, Requests
  <1>2. call[o].tool # "issue_get"
    BY <1>1 DEF TakeWrite, IInv, CallInv, RequestsOf, WriteRequests
  <1>. QED  BY <1>1, <1>2, EndKeepsInv DEF TakeWrite

-----------------------------------------------------------------------------
(* A tool goes on to its second request. *)
LEMMA AskNextKeepsInv ==
    ASSUME IInv, NEW o \in Ops, NEW req \in {"comments", "delete_branch"},
           pc[o] \in Requests, req \in RequestsOf(call[o].tool), Ask(o, req),
           req = "delete_branch" => call[o].arg # forge.default \/ Moved(o),
           UNCHANGED <<call, forgeVars, readAt>>,
           known' \in [Ops -> [issue : Forges, comments : SUBSET Writers]],
           \A d \in Ops \ {o} : known'[d] = known[d],
           known'[o].issue.comments \subseteq Said
    PROVE  IInv'
  <1>. USE DEF forgeVars
  <1>1. /\ CallInv(o) /\ ShownInv(o) /\ RaceInv(o) /\ TypeOK
        /\ pc[o] # "idle" /\ pc[o] # "done" /\ outcome[o] = "none"
        /\ req \in Requests /\ req # "idle" /\ req # "done"
    BY DEF IInv, TypeOK, Requests, ReadRequests, WriteRequests
  <1>2. TypeOK'
    <2>1. \A d \in Ops : pc'[d] = "done" <=> outcome'[d] # "none"
      BY <1>1, AskType DEF TypeOK
    <2>. QED  BY <1>1, <2>1, AskType DEF TypeOK
  <1>3. \A d \in Ops \ {o} : Untouched(d)
    BY <1>1, AskType DEF Untouched
  <1>4. CallInv(o)'
    BY <1>1, AskType DEF CallInv
  <1>5. ShownInv(o)'
    BY <1>1, AskType DEF ShownInv, Said, Got
  <1>6. RaceInv(o)'
    BY <1>1, AskType DEF RaceInv, Moved, MadeDefault
  <1>. QED  BY <1>1, <1>2, <1>3, <1>4, <1>5, <1>6, AskType, QuietStep

LEMMA TakeRepoKeepsInv ==
    ASSUME IInv, NEW o \in Ops, TakeRepo(o)
    PROVE  IInv'
  <1>1. pc[o] = "repo" /\ pc[o] \in Requests
    BY DEF TakeRepo, Answered, Requests, ReadRequests
  <1>2. /\ CallInv(o) /\ ShownInv(o) /\ RaceInv(o) /\ TypeOK
    BY DEF IInv
  <1>3. call[o].tool = "branch_delete"
    BY <1>1, <1>2 DEF CallInv, RequestsOf
  <1>4. CASE wire[o].got.default # call[o].arg /\ Ask(o, "delete_branch")
    <2>1. wire[o].req = "repo"
      BY <1>1, <1>2 DEF CallInv, TakeRepo, Answered
    <2>2. call[o].arg # forge.default \/ Moved(o)
      BY <1>2, <1>4, <2>1 DEF RaceInv, TakeRepo, Answered
    <2>3. "delete_branch" \in RequestsOf(call[o].tool)
      BY <1>3 DEF RequestsOf
    <2>. QED
      BY <1>1, <1>2, <1>4, <2>2, <2>3, AskNextKeepsInv DEF TakeRepo, TypeOK, ShownInv
  <1>5. CASE Read(o) /\ Return(o, "validation")
    <2>1. "validation" \in Outcomes
      BY DEF Outcomes, ErrorKinds
    <2>. QED  BY <1>1, <1>5, <2>1, EndKeepsInv DEF TakeRepo
  <1>. QED  BY <1>4, <1>5 DEF TakeRepo

LEMMA TakeIssueKeepsInv ==
    ASSUME IInv, NEW o \in Ops, TakeIssue(o)
    PROVE  IInv'
  <1>1. /\ CallInv(o) /\ ShownInv(o) /\ RaceInv(o) /\ TypeOK
    BY DEF IInv
  <1>2. wire[o].got \in Forges /\ wire[o].got.comments \subseteq Writers
    BY <1>1 DEF TypeOK, Wires, Forges
  <1>3. CASE /\ Answered(o, "issue")
             /\ known' = [known EXCEPT ![o].issue = wire[o].got, ![o].comments = @]
             /\ Ask(o, "comments")
    <2>1. /\ known' \in [Ops -> [issue : Forges, comments : SUBSET Writers]]
          /\ \A d \in Ops \ {o} : known'[d] = known[d]
          /\ known'[o].issue = wire[o].got
      BY <1>1, <1>2, <1>3 DEF TypeOK
    <2>2. pc[o] \in Requests /\ pc[o] = "issue"
      BY <1>3 DEF Answered, Requests, ReadRequests
    <2>3. "comments" \in RequestsOf(call[o].tool)
      BY <1>1, <2>2 DEF CallInv, RequestsOf
    <2>. QED
      BY <1>1, <1>3, <2>1, <2>2, <2>3, AskNextKeepsInv DEF TakeIssue, ShownInv
  <1>4. CASE /\ Answered(o, "comments")
             /\ known' = [known EXCEPT ![o].issue = @, ![o].comments = wire[o].got.comments]
             /\ Read(o) /\ Return(o, "ok")
    <2>1. /\ known' \in [Ops -> [issue : Forges, comments : SUBSET Writers]]
          /\ \A d \in Ops \ {o} : known'[d] = known[d]
          /\ known'[o].issue = known[o].issue /\ known'[o].comments = wire[o].got.comments
      BY <1>1, <1>2, <1>4 DEF TypeOK
    <2>2. UNCHANGED <<call, forge, log, readAt>> /\ pc[o] = "comments"
      BY <1>4 DEF TakeIssue, forgeVars, Answered
    <2>3. "ok" \in Outcomes
      BY DEF Outcomes
    <2>4. TypeOK'
      <3>1. \A d \in Ops : pc'[d] = "done" <=> outcome'[d] # "none"
        BY <1>1, <1>4, <2>3, ReturnType DEF TypeOK
      <3>. QED  BY <1>1, <1>4, <2>1, <2>2, <2>3, <3>1, ReturnType, ReadType DEF TypeOK
    <2>5. \A d \in Ops \ {o} : Untouched(d)
      BY <1>1, <1>4, <2>1, <2>2, <2>3, ReturnType, ReadType DEF Untouched
    <2>6. /\ pc'[o] = "done" /\ wire'[o].at = "none" /\ wire'[o].got.comments = {}
      BY <1>1, <1>4, <2>3, ReturnType, ReadType
    <2>7. CallInv(o)'
      BY <1>1, <2>2, <2>6 DEF CallInv, Requests, ReadRequests, WriteRequests
    <2>8. known[o].issue.comments \cap forge.comments \subseteq wire[o].got.comments
      BY <1>1, <1>4, <2>2 DEF CallInv, ShownInv, Answered
    <2>9. ShownInv(o)'
      BY <1>1, <2>1, <2>2, <2>6, <2>8 DEF ShownInv, Said
    <2>10. RaceInv(o)'
      BY <1>1, <2>2, <2>6 DEF RaceInv
    <2>. QED
      BY <2>2, <2>4, <2>5, <2>6, <2>7, <2>9, <2>10, QuietStep DEF forgeVars
  <1>. QED
    <2>1. PICK n \in 1..2 :
              /\ Answered(o, GetIssueReads[n])
              /\ known' = [known EXCEPT
                     ![o].issue = IF pc[o] = "issue" THEN wire[o].got ELSE @,
                     ![o].comments = IF pc[o] = "comments" THEN wire[o].got.comments ELSE @]
              /\ \/ n = 1 /\ Ask(o, GetIssueReads[2])
                 \/ n = 2 /\ Read(o) /\ Return(o, "ok")
      BY DEF TakeIssue
    <2>2. n = 1 \/ n = 2
      OBVIOUS
    <2>3. CASE n = 1
      <3>1. Answered(o, "issue") /\ Ask(o, "comments") /\ pc[o] = "issue"
        BY <2>1, <2>3 DEF GetIssueReads, Answered
      <3>. QED  BY <1>3, <2>1, <3>1
    <2>4. CASE n = 2
      <3>1. Answered(o, "comments") /\ pc[o] = "comments"
        BY <2>1, <2>4 DEF GetIssueReads, Answered
      <3>. QED  BY <1>4, <2>1, <2>4, <3>1
    <2>. QED  BY <2>2, <2>3, <2>4

-----------------------------------------------------------------------------
(* What Forgejo, the network and everybody else do.                        *)
LEMMA ReplyType ==
    ASSUME TypeOK, NEW o \in Ops, NEW res \in Outcomes, Reply(o, res)
    PROVE  /\ wire' \in [Ops -> Wires]
           /\ wire'[o].at = "answer" /\ wire'[o].req = wire[o].req /\ wire'[o].res = res
           /\ wire'[o].got = IF res = "ok" /\ wire[o].req \in ReadRequests
                             THEN forge ELSE Nothing
           /\ \A d \in Ops \ {o} : wire'[d] = wire[d]
           /\ UNCHANGED <<pc, call, known, outcome>>
  <1>. DEFINE got == IF res = "ok" /\ wire[o].req \in ReadRequests THEN forge ELSE Nothing
  <1>1. got \in Forges /\ wire[o].req \in {"none"} \cup Requests
    BY NothingIsThere DEF TypeOK, Wires
  <1>2. wire' = [wire EXCEPT ![o] = Wire("answer", wire[o].req, res, got)]
    BY DEF Reply
  <1>3. wire'[o] = Wire("answer", wire[o].req, res, got)
    BY <1>2 DEF TypeOK
  <1>4. "answer" \in {"none", "request", "answer"}
    OBVIOUS
  <1>5. /\ Wire("answer", wire[o].req, res, got) \in Wires
        /\ Wire("answer", wire[o].req, res, got).at = "answer"
        /\ Wire("answer", wire[o].req, res, got).req = wire[o].req
        /\ Wire("answer", wire[o].req, res, got).res = res
        /\ Wire("answer", wire[o].req, res, got).got = got
    <2>. HIDE DEF got
    <2>. QED  BY <1>1, <1>4 DEF Wire, Wires
  <1>. QED  BY <1>2, <1>3, <1>5 DEF TypeOK, Reply

(* An answer that changes nothing at Forgejo. *)
LEMMA AnswerKeepsInv ==
    ASSUME IInv, NEW o \in Ops, NEW res \in Outcomes, res # "none",
           wire[o].at = "request", Reply(o, res), UNCHANGED forgeVars,
           readAt' \in [Ops -> Nat], \A d \in Ops \ {o} : readAt'[d] = readAt[d],
           readAt'[o] <= Len(log)
    PROVE  IInv'
  <1>. USE DEF forgeVars
  <1>1. /\ CallInv(o) /\ ShownInv(o) /\ RaceInv(o) /\ TypeOK
        /\ pc[o] # "idle" /\ forge.comments \subseteq Said
    BY DEF IInv, CallInv
  <1>2. TypeOK'
    BY <1>1, ReplyType DEF TypeOK
  <1>3. \A d \in Ops \ {o} : Untouched(d)
    BY <1>1, ReplyType DEF Untouched
  <1>4. CallInv(o)'
    BY <1>1, ReplyType DEF CallInv
  <1>5. wire'[o].got \in {forge, Nothing}
    BY <1>1, ReplyType
  <1>6. wire'[o].req = "comments" /\ wire'[o].res = "ok" => wire'[o].got = forge
    BY <1>1, ReplyType DEF ReadRequests
  <1>7. ShownInv(o)'
    BY <1>1, <1>5, <1>6, ReplyType, NothingIsThere DEF ShownInv, Said, Got
  <1>8. RaceInv(o)'
    <2>1. /\ Len(log)' = Len(log) /\ forge' = forge /\ wire'[o].at = "answer"
          /\ wire'[o].req = "repo" /\ wire'[o].res = "ok" => wire'[o].got = forge
      BY <1>1, ReplyType DEF ReadRequests
    <2>. QED  BY <2>1 DEF RaceInv
  <1>. QED  BY <1>1, <1>2, <1>3, <1>4, <1>7, <1>8, ReplyType, QuietStep

LEMMA ServeReadKeepsInv ==
    ASSUME IInv, NEW o \in Ops, ServeRead(o)
    PROVE  IInv'
  <1>1. "ok" \in Outcomes
    BY DEF Outcomes
  <1>2. /\ readAt' \in [Ops -> Nat] /\ readAt'[o] <= Len(log)
        /\ \A d \in Ops \ {o} : readAt'[d] = readAt[d]
    <2>1. readAt \in [Ops -> Nat] /\ readAt[o] <= Len(log) /\ Len(log) \in Nat
      BY DEF IInv, TypeOK, RaceInv
    <2>. QED  BY <2>1 DEF ServeRead
  <1>. QED  BY <1>1, <1>2, AnswerKeepsInv DEF ServeRead

LEMMA RefuseKeepsInv ==
    ASSUME IInv, NEW o \in Ops, Refuse(o)
    PROVE  IInv'
  <1>1. {"not_found", "transient", "validation"} \subseteq Outcomes
    BY DEF Outcomes, ErrorKinds
  <1>2. readAt' = readAt /\ readAt \in [Ops -> Nat] /\ readAt[o] <= Len(log)
    BY DEF Refuse, IInv, TypeOK, RaceInv
  <1>. QED  BY <1>1, <1>2, AnswerKeepsInv DEF Refuse

LEMMA DropKeepsInv ==
    ASSUME IInv, NEW o \in Ops, Drop(o)
    PROVE  IInv'
  <1>. USE DEF forgeVars
  <1>1. /\ CallInv(o) /\ ShownInv(o) /\ RaceInv(o) /\ TypeOK /\ pc[o] # "idle"
    BY DEF IInv, CallInv, Drop
  <1>2. Read(o) /\ UNCHANGED <<pc, call, known, outcome, forge, log, readAt>>
    BY DEF Drop, Read
  <1>3. TypeOK'
    BY <1>1, <1>2, ReadType DEF TypeOK
  <1>4. \A d \in Ops \ {o} : Untouched(d)
    BY <1>1, <1>2, ReadType DEF Untouched
  <1>5. CallInv(o)' /\ ShownInv(o)' /\ RaceInv(o)'
    BY <1>1, <1>2, ReadType DEF CallInv, ShownInv, RaceInv, Said, Got
  <1>. QED  BY <1>1, <1>2, <1>3, <1>4, <1>5, QuietStep

-----------------------------------------------------------------------------
(* A change at Forgejo: a comment comes from who made the change, once.    *)
LEMMA ChangeKeepsInv ==
    ASSUME IInv, NEW who \in Ops \cup {"foreign"}, NEW new \in Forges, Change(who, new),
           new.comments \subseteq forge.comments \cup {who},
           who \in new.comments \ forge.comments => who \notin Said,
           LogInv([by |-> who, was |-> forge, is |-> new]),
           UNCHANGED <<pc, call, known, outcome, readAt>>,
           wire' \in [Ops -> Wires],
           \A d \in Ops \ {who} : wire'[d] = wire[d],
           who \in Ops => /\ wire'[who].at = "answer" /\ wire'[who].req \in WriteRequests
                          /\ wire'[who].got.comments = {} /\ pc[who] # "idle"
                          /\ CallInv(who)'
    PROVE  IInv'
  <1>. DEFINE entry == [by |-> who, was |-> forge, is |-> new]
  <1>1. /\ forge' = new /\ TypeOK /\ forge \in Forges
        /\ entry \in [by : Ops \cup {"foreign"}, was : Forges, is : Forges]
        /\ log \in Seq([by : Ops \cup {"foreign"}, was : Forges, is : Forges])
        /\ log' = Append(log, entry)
    BY DEF Change, IInv, TypeOK
  <1>2. /\ log' \in Seq([by : Ops \cup {"foreign"}, was : Forges, is : Forges])
        /\ DOMAIN log = 1..Len(log) /\ DOMAIN log' = 1..(Len(log) + 1) /\ Len(log) \in Nat
        /\ \A i \in DOMAIN log : log'[i] = log[i]
        /\ log'[Len(log) + 1] = entry
    BY <1>1
  <1>3. TypeOK'
    BY <1>1, <1>2 DEF TypeOK
  <1>4. Said' = Said \cup new.comments /\ forge.comments \subseteq Said
    <2>1. \A i \in DOMAIN log' : i \in DOMAIN log \/ i = Len(log) + 1
      BY <1>2
    <2>2. Len(log) + 1 \in DOMAIN log' /\ DOMAIN log \subseteq DOMAIN log'
      BY <1>2
    <2>3. log'[Len(log) + 1].is.comments = new.comments
      BY <1>2
    <2>. QED  BY <1>2, <2>1, <2>2, <2>3 DEF Said, IInv
  <1>5. Said' \subseteq Said \cup {who} /\ Said \subseteq Said' /\ forge'.comments \subseteq Said'
    BY <1>1, <1>4
  <1>6. \A c \in Said : c \in forge'.comments => c \in forge.comments
    BY <1>1
  <1>7. ASSUME NEW d \in Ops, d # who, forge.default # new.default PROVE Moved(d)'
    <2>1. Len(log) + 1 \in DOMAIN log' /\ Len(log) + 1 > readAt[d] /\ readAt' = readAt
      BY <1>2 DEF IInv, RaceInv, TypeOK
    <2>. QED  BY <1>1, <1>2, <1>7, <2>1 DEF Moved, MadeDefault
  <1>8. ASSUME NEW d \in Ops PROVE Moved(d) => Moved(d)' \/ who = d
    <2>. SUFFICES ASSUME Moved(d), who # d PROVE Moved(d)'
      OBVIOUS
    <2>1. CASE forge.default = new.default
      <3>1. PICK k \in DOMAIN log : /\ k > readAt[d] /\ MadeDefault(k, forge.default)
                                    /\ log[k].by # d
        BY DEF Moved
      <3>2. k \in DOMAIN log' /\ log'[k] = log[k]
        BY <1>2
      <3>. QED  BY <1>1, <2>1, <3>1, <3>2 DEF Moved, MadeDefault
    <2>2. CASE forge.default # new.default
      BY <1>7, <2>2
    <2>. QED  BY <2>1, <2>2
  <1>9. ASSUME NEW d \in Ops PROVE (CallInv(d) /\ ShownInv(d) /\ RaceInv(d))'
    <2>1. CallInv(d) /\ ShownInv(d) /\ RaceInv(d)
      BY DEF IInv
    <2>2. CASE d # who
      <3>1. wire'[d] = wire[d] /\ pc' = pc /\ call' = call /\ known' = known /\ outcome' = outcome
        BY <2>2
      <3>2. CallInv(d)'
        BY <2>1, <3>1 DEF CallInv
      <3>3. ShownInv(d)'
        BY <1>5, <1>6, <2>1, <2>2, <3>1 DEF ShownInv, Got
      <3>4. RaceInv(d)'
        <4>1. readAt[d] <= Len(log) /\ readAt' = readAt /\ Len(log') = Len(log) + 1
              /\ readAt[d] \in Nat
          BY <1>1, <1>2, <2>1 DEF RaceInv, TypeOK
        <4>2. (readAt[d] <= Len(log))'
          BY <1>2, <4>1
        <4>. QED  BY <1>1, <1>7, <1>8, <2>1, <2>2, <3>1, <4>2 DEF RaceInv
      <3>. QED  BY <3>2, <3>3, <3>4
    <2>3. CASE d = who
      <3>1. ShownInv(d)'
        BY <1>5, <1>6, <2>1, <2>3 DEF ShownInv, Got, WriteRequests
      <3>2. RaceInv(d)'
        <4>1. (readAt[d] <= Len(log))'
          <5>1. readAt[d] <= Len(log) /\ readAt' = readAt /\ readAt[d] \in Nat
            BY <1>1, <2>1, <2>3 DEF RaceInv, TypeOK
          <5>. QED  BY <1>1, <1>2, <5>1
        <4>. QED  BY <2>3, <4>1 DEF RaceInv, WriteRequests
      <3>. QED  BY <2>3, <3>1, <3>2
    <2>. QED  BY <2>2, <2>3
  <1>10. ASSUME NEW i \in DOMAIN log' PROVE LogInv(log[i])'
    <2>1. CASE i \in DOMAIN log
      <3>1. LogInv(log[i]) /\ log'[i] = log[i]
        BY <1>2, <2>1 DEF IInv
      <3>. QED  BY <3>1 DEF LogInv
    <2>2. CASE i = Len(log) + 1
      <3>1. LogInv(entry) /\ log'[i] = entry
        BY <1>2, <2>2
      <3>. QED  BY <3>1 DEF LogInv
    <2>. QED  BY <1>2, <2>1, <2>2
  <1>. QED  BY <1>3, <1>5, <1>9, <1>10 DEF IInv

(* What each write of each tool makes of the issue and the branches. *)
LEMMA CarryOutIsChange ==
    ASSUME IInv, NEW o \in Ops, CarryOut(o),
           wire[o].at = "request", wire[o].req \in WriteRequests
    PROVE  \E new \in Forges :
             /\ Change(o, new)
             /\ new.comments \subseteq forge.comments \cup {o}
             /\ o \in new.comments \ forge.comments => o \notin Said
             /\ call[o].tool = "issue_update" => Confined(call[o].edit, forge, new)
  <1>. DEFINE arg == call[o].arg
              Good(new) ==
                /\ new.comments \subseteq forge.comments \cup {o}
                /\ o \in new.comments \ forge.comments => o \notin Said
                /\ call[o].tool = "issue_update" => Confined(call[o].edit, forge, new)
  <1>1. /\ CallInv(o) /\ ShownInv(o) /\ RaceInv(o) /\ TypeOK
        /\ forge \in Forges /\ o \in Writers /\ Gone \in Writers \cup {Gone, ""}
        /\ wire[o].req \in RequestsOf(call[o].tool)
    BY DEF IInv, TypeOK, CallInv, Writers
  <1>2. CASE wire[o].req = "edit" /\ Change(o, Edited(forge, updateIssueRequest(o)))
    <2>. DEFINE edit == call[o].edit
                request == updateIssueRequest(o)
                new == Edited(forge, request)
    <2>1. /\ request.title = (IF "title" \in edit THEN o ELSE "omitted")
          /\ request.body = (IF "body" \in edit THEN o ELSE "omitted")
          /\ request.state = edit \cap {"close", "reopen"}
      BY DEF updateIssueRequest
    <2>2. /\ new = [forge EXCEPT
                 !.title = IF request.title = "omitted" THEN @ ELSE request.title,
                 !.body = IF request.body = "omitted" THEN @ ELSE request.body,
                 !.open = IF request.state = {} THEN @ ELSE request.state = {"reopen"}]
      BY DEF Edited
    <2>3. new \in Forges
      <3>1. (request.state = {"reopen"}) \in BOOLEAN
        OBVIOUS
      <3>. HIDE DEF request, new
      <3>. QED  BY <1>1, <2>1, <2>2, <3>1 DEF Forges
    <2>4. /\ new.comments = forge.comments
          /\ "title" \notin edit => new.title = forge.title
          /\ "body" \notin edit => new.body = forge.body
          /\ edit \cap {"close", "reopen"} = {} => new.open = forge.open
      <3>. HIDE DEF request, new
      <3>. QED  BY <1>1, <2>1, <2>2 DEF Forges
    <2>5. Good(new)
      <3>. HIDE DEF request, new
      <3>. QED  BY <2>4 DEF Confined
    <2>. QED  BY <1>2, <2>3, <2>5
  <1>3. CASE /\ wire[o].req = "delete_issue"
             /\ Change(o, [forge EXCEPT !.title = Gone, !.comments = {}])
    <2>1. [forge EXCEPT !.title = Gone, !.comments = {}] \in Forges
      BY <1>1 DEF Forges
    <2>2. Good([forge EXCEPT !.title = Gone, !.comments = {}])
      BY <1>1, <1>3 DEF Forges, RequestsOf
    <2>. QED  BY <1>3, <2>1, <2>2
  <1>4. CASE wire[o].req = "comment" /\ Change(o, [forge EXCEPT !.comments = @ \cup {o}])
    <2>1. [forge EXCEPT !.comments = @ \cup {o}] \in Forges
      BY <1>1 DEF Forges
    <2>2. Good([forge EXCEPT !.comments = @ \cup {o}])
      BY <1>1, <1>4 DEF Forges, RequestsOf, ShownInv
    <2>. QED  BY <1>4, <2>1, <2>2
  <1>5. CASE wire[o].req = "delete_comment" /\ Change(o, [forge EXCEPT !.comments = @ \ {arg}])
    <2>1. [forge EXCEPT !.comments = @ \ {arg}] \in Forges
      BY <1>1 DEF Forges
    <2>2. Good([forge EXCEPT !.comments = @ \ {arg}])
      BY <1>1, <1>5 DEF Forges, RequestsOf
    <2>. QED  BY <1>5, <2>1, <2>2
  <1>6. CASE wire[o].req = "delete_branch" /\ Change(o, [forge EXCEPT !.branches = @ \ {arg}])
    <2>1. [forge EXCEPT !.branches = @ \ {arg}] \in Forges
      BY <1>1 DEF Forges
    <2>2. Good([forge EXCEPT !.branches = @ \ {arg}])
      BY <1>1, <1>6 DEF Forges, RequestsOf
    <2>. QED  BY <1>6, <2>1, <2>2
  <1>7. CASE wire[o].req = "create_branch" /\ Change(o, [forge EXCEPT !.branches = @ \cup {arg}])
    <2>1. arg \in Branches
      BY <1>1, <1>7 DEF RequestsOf, CallInv
    <2>2. [forge EXCEPT !.branches = @ \cup {arg}] \in Forges
      BY <1>1, <2>1 DEF Forges
    <2>3. Good([forge EXCEPT !.branches = @ \cup {arg}])
      BY <1>1, <1>7 DEF Forges, RequestsOf
    <2>. QED  BY <1>7, <2>2, <2>3
  <1>8. CASE wire[o].req = "edit_repo" /\ Change(o, [forge EXCEPT !.default = arg])
    <2>1. arg \in Branches
      BY <1>1, <1>8 DEF RequestsOf, CallInv
    <2>2. [forge EXCEPT !.default = arg] \in Forges
      BY <1>1, <2>1 DEF Forges
    <2>3. Good([forge EXCEPT !.default = arg])
      BY <1>1, <1>8 DEF Forges, RequestsOf
    <2>. QED  BY <1>8, <2>2, <2>3
  <1>. QED  BY <1>2, <1>3, <1>4, <1>5, <1>6, <1>7, <1>8 DEF CarryOut

LEMMA ServeWriteKeepsInv ==
    ASSUME IInv, NEW o \in Ops, ServeWrite(o)
    PROVE  IInv'
  <1>1. wire[o].at = "request" /\ wire[o].req \in WriteRequests /\ CarryOut(o)
    BY DEF ServeWrite
  <1>2. PICK new \in Forges :
             /\ Change(o, new)
             /\ new.comments \subseteq forge.comments \cup {o}
             /\ o \in new.comments \ forge.comments => o \notin Said
             /\ call[o].tool = "issue_update" => Confined(call[o].edit, forge, new)
    BY <1>1, CarryOutIsChange
  <1>3. PICK res \in {"ok", "transient", "validation"} : Reply(o, res)
    BY DEF ServeWrite
  <1>4. res \in Outcomes /\ res # "none"
    BY DEF Outcomes, ErrorKinds
  <1>5. /\ TypeOK /\ CallInv(o) /\ pc[o] # "idle" /\ wire[o].req \notin ReadRequests
    BY <1>1 DEF IInv, CallInv, ReadRequests, WriteRequests
  <1>6. /\ wire' \in [Ops -> Wires]
        /\ wire'[o].at = "answer" /\ wire'[o].req = wire[o].req /\ wire'[o].res = res
        /\ wire'[o].got = Nothing
        /\ \A d \in Ops \ {o} : wire'[d] = wire[d]
        /\ UNCHANGED <<pc, call, known, outcome, readAt>>
    BY <1>3, <1>4, <1>5, ReplyType DEF ServeWrite
  <1>7. CallInv(o)'
    BY <1>1, <1>4, <1>5, <1>6 DEF CallInv
  <1>8. LogInv([by |-> o, was |-> forge, is |-> new])
    BY <1>2, <1>5 DEF LogInv
  <1>. QED  BY <1>1, <1>2, <1>5, <1>6, <1>7, <1>8, NothingIsThere, ChangeKeepsInv

LEMMA ForeignKeepsInv ==
    ASSUME IInv, Foreign
    PROVE  IInv'
  <1>1. /\ TypeOK /\ forge \in Forges /\ "foreign" \notin Ops /\ "foreign" # "old"
        /\ UNCHANGED <<pc, call, wire, known, outcome, readAt>> /\ wire \in [Ops -> Wires]
    BY RepositoryAssumption DEF IInv, TypeOK, Foreign
  <1>2. PICK new \in Forges :
             /\ Change("foreign", new)
             /\ new.comments \subseteq forge.comments \cup {"foreign"}
             /\ "foreign" \in new.comments \ forge.comments => "foreign" \notin Said
    <2>1. CASE \E b \in forge.branches \ {forge.default} :
                  Change("foreign", [forge EXCEPT !.default = b])
      <3>1. PICK b \in forge.branches \ {forge.default} :
                  Change("foreign", [forge EXCEPT !.default = b])
        BY <2>1
      <3>2. [forge EXCEPT !.default = b] \in Forges
        BY <1>1 DEF Forges
      <3>. QED  BY <1>1, <3>1, <3>2 DEF Forges
    <2>2. CASE \E b \in forge.branches \ {forge.default} :
                  Change("foreign", [forge EXCEPT !.branches = @ \ {b}])
      <3>1. PICK b \in forge.branches \ {forge.default} :
                  Change("foreign", [forge EXCEPT !.branches = @ \ {b}])
        BY <2>2
      <3>2. [forge EXCEPT !.branches = @ \ {b}] \in Forges
        BY <1>1 DEF Forges
      <3>. QED  BY <1>1, <3>1, <3>2 DEF Forges
    <2>3. CASE /\ \A i \in DOMAIN log : "foreign" \notin log[i].is.comments
               /\ Change("foreign", [forge EXCEPT !.open = FALSE, !.comments = @ \cup {"foreign"}])
      <3>1. [forge EXCEPT !.open = FALSE, !.comments = @ \cup {"foreign"}] \in Forges
        BY <1>1 DEF Forges, Writers
      <3>2. "foreign" \notin Said
        BY <2>3 DEF Said
      <3>. QED  BY <1>1, <2>3, <3>1, <3>2 DEF Forges
    <2>4. CASE Change("foreign", [forge EXCEPT !.title = "foreign", !.body = "foreign"])
      <3>1. [forge EXCEPT !.title = "foreign", !.body = "foreign"] \in Forges
        BY <1>1 DEF Forges, Writers
      <3>. QED  BY <1>1, <2>4, <3>1 DEF Forges
    <2>. QED  BY <2>1, <2>2, <2>3, <2>4 DEF Foreign
  <1>3. LogInv([by |-> "foreign", was |-> forge, is |-> new])
    BY <1>1 DEF LogInv
  <1>. QED  BY <1>1, <1>2, <1>3, ChangeKeepsInv

-----------------------------------------------------------------------------
LEMMA StepKeepsInv == IInv /\ [Next]_vars => IInv'
  <1>. SUFFICES ASSUME IInv, [Next]_vars PROVE IInv'
    OBVIOUS
  <1>1. CASE UNCHANGED vars
    BY <1>1 DEF vars, forgeVars, IInv, TypeOK, CallInv, ShownInv, RaceInv, LogInv, Said, Moved,
                MadeDefault, Got
  <1>2. CASE Foreign
    BY <1>2, ForeignKeepsInv
  <1>3. ASSUME NEW o \in Ops,
               \/ Start(o)
               \/ TakeError(o) \/ TakeIssue(o) \/ TakeRepo(o) \/ TakeWrite(o) \/ Fail(o)
               \/ ServeRead(o) \/ ServeWrite(o) \/ Refuse(o) \/ Drop(o)
        PROVE  IInv'
    BY <1>3, StartKeepsInv, TakeErrorKeepsInv, TakeIssueKeepsInv, TakeRepoKeepsInv,
       TakeWriteKeepsInv, FailKeepsInv, ServeReadKeepsInv, ServeWriteKeepsInv,
       RefuseKeepsInv, DropKeepsInv
  <1>. QED  BY <1>1, <1>2, <1>3 DEF Next

LEMMA Invariance == Spec => []IInv
  BY InitInv, StepKeepsInv, PTL DEF Spec

(* Every variable of the tool calls and of Forgejo keeps its type, and a   *)
(* call has an outcome exactly when it is done.                            *)
THEOREM TypeCorrect == Spec => []TypeOK
  <1>1. IInv => TypeOK
    BY DEF IInv
  <1>. QED  BY <1>1, Invariance, PTL

(* An issue that forgejo_issue_get shows comes with every comment that was *)
(* there when the issue was read, unless it has been deleted since, however *)
(* many tools and people change the issue between the two reads.           *)
THEOREM ShownComplete == Spec => []ShownIssueHasItsComments
  <1>1. IInv => ShownIssueHasItsComments
    BY DEF IInv, ShownInv, ShownIssueHasItsComments, Got
  <1>. QED  BY <1>1, Invariance, PTL

(* An edit of an issue leaves the fields alone that it was not given,      *)
(* whatever was done to them between the call and the edit.                *)
THEOREM EditsPartial == Spec => []EditsTouchOnlyTheirFields
  <1>1. IInv => EditsTouchOnlyTheirFields
    BY DEF IInv, LogInv, Confined, EditsTouchOnlyTheirFields
  <1>. QED  BY <1>1, Invariance, PTL

(* Whenever Forgejo is asked to delete the branch that is the default at   *)
(* that moment, somebody else has made it the default after the check that *)
(* let the request pass: the check catches the rest.                       *)
THEOREM DefaultRace == Spec => []DefaultAskedForOnlyInRace
  <1>1. IInv => DefaultAskedForOnlyInRace
    <2>. SUFFICES ASSUME IInv, NEW o \in Ops, wire[o].at = "request",
                         wire[o].req = "delete_branch", call[o].arg = forge.default
                  PROVE  \E k \in (readAt[o] + 1)..Len(log) :
                             MadeDefault(k, call[o].arg) /\ log[k].by # o
      BY DEF DefaultAskedForOnlyInRace
    <2>1. Moved(o) /\ readAt[o] \in Nat
      BY DEF IInv, RaceInv, TypeOK
    <2>2. DOMAIN log = 1..Len(log) /\ Len(log) \in Nat
      BY DEF IInv, TypeOK
    <2>. QED  BY <2>1, <2>2 DEF Moved
  <1>. QED  BY <1>1, Invariance, PTL

-----------------------------------------------------------------------------
(***************************************************************************)
(* The refinement of RemoteCall needs, beside IInv, what each call has     *)
(* done at Forgejo: nothing before its write can have been carried out,    *)
(* and what the answer to the write says, once there is one.               *)
(***************************************************************************)
DoneBy(o) == {i \in DOMAIN log : log[i].by = o}

Undone(o) ==
    \/ pc[o] = "idle"
    \/ wire[o].at = "request"
    \/ wire[o].at = "answer" /\ (wire[o].req \in ReadRequests \/ wire[o].res \in Refusals)

CountInv(o) ==
    /\ DoneBy(o) = {} \/ \E i \in DOMAIN log : DoneBy(o) = {i}
    /\ Undone(o) => DoneBy(o) = {}
    /\ wire[o].at = "answer" /\ wire[o].req \in WriteRequests /\ wire[o].res = "ok" =>
           DoneBy(o) # {}
    /\ outcome[o] = "ok" /\ call[o].tool # "issue_get" => DoneBy(o) # {}
    /\ outcome[o] \in Refusals => DoneBy(o) = {} /\ wire[o].at = "none"

CountsInv == \A o \in Ops : CountInv(o)

LEMMA ReportValues ==
    /\ ErrorKinds = Refusals \cup Undecided /\ Refusals \cap Undecided = {}
    /\ "none" \notin ErrorKinds /\ "ok" \notin ErrorKinds
    /\ "validation" \in Undecided /\ "transient" \in Undecided
    /\ ReadRequests \cap WriteRequests = {} /\ Requests = ReadRequests \cup WriteRequests
    /\ "idle" \notin Requests /\ "done" \notin Requests
  BY DEF Refusals, Undecided, ErrorKinds, Requests, ReadRequests, WriteRequests

LEMMA InitCounts == Init => CountsInv
  <1>. SUFFICES ASSUME Init, NEW o \in Ops PROVE CountInv(o)
    BY DEF CountsInv
  <1>1. DoneBy(o) = {} /\ outcome[o] = "none" /\ wire[o].at = "none"
    BY SilenceType DEF Init, DoneBy
  <1>. QED  BY <1>1, ReportValues DEF CountInv

(* Steps of one call that change nothing at Forgejo.                       *)
LEMMA QuietCounts ==
    ASSUME CountsInv, NEW o \in Ops, UNCHANGED log,
           \A d \in Ops \ {o} : Untouched(d), CountInv(o)'
    PROVE  CountsInv'
  BY DEF CountsInv, CountInv, DoneBy, Undone, Untouched

LEMMA StartKeepsCounts ==
    ASSUME IInv, CountsInv, NEW o \in Ops, Start(o)
    PROVE  CountsInv' /\ UNCHANGED log /\ outcome[o] = "none"
           /\ (outcome' = outcome \/ outcome' = [outcome EXCEPT ![o] = "validation"])
           /\ \A d \in Ops \ {o} : call'[d] = call[d]
  <1>1. PICK tool \in Tools, arg \in {"none"} \cup Writers \cup Branches, edit \in EveryEdit :
             /\ Given(o, tool, arg, edit)
             /\ \/ Reject(o)
                \/ \E req \in RequestsOf(tool) \cap Requests : Ask(o, req)
    BY StartIsCall
  <1>2. /\ pc[o] = "idle" /\ UNCHANGED <<known, log>> /\ outcome[o] = "none"
        /\ \A d \in Ops \ {o} : call'[d] = call[d]
        /\ wire[o].at = "none" /\ TypeOK /\ CountInv(o) /\ DoneBy(o) = {}
        /\ DoneBy(o)' = DoneBy(o)
    BY <1>1 DEF Given, IInv, TypeOK, forgeVars, CallInv, CountsInv, CountInv, Undone, DoneBy
  <1>3. CASE Reject(o)
    <2>1. /\ pc'[o] = "done" /\ outcome'[o] = "validation" /\ wire' = wire
          /\ outcome' = [outcome EXCEPT ![o] = "validation"]
          /\ \A d \in Ops \ {o} : Untouched(d)
      BY <1>2, <1>3 DEF Reject, Return, TypeOK, Untouched
    <2>2. CountInv(o)'
      BY <1>2, <2>1, ReportValues DEF CountInv, Undone
    <2>. QED  BY <1>2, <2>1, <2>2, QuietCounts
  <1>4. ASSUME NEW req \in Requests, Ask(o, req)
        PROVE  CountsInv' /\ outcome' = outcome
    <2>1. /\ wire'[o].at = "request" /\ outcome' = outcome
          /\ \A d \in Ops \ {o} : Untouched(d)
      BY <1>2, <1>4, AskType DEF Untouched
    <2>2. CountInv(o)'
      BY <1>2, <2>1, ReportValues DEF CountInv, Undone
    <2>. QED  BY <1>2, <2>1, <2>2, QuietCounts
  <1>. QED  BY <1>1, <1>2, <1>3, <1>4 DEF Reject, Return

(* A call goes on to its second request.                                   *)
LEMMA AskNextKeepsCounts ==
    ASSUME IInv, CountsInv, NEW o \in Ops, NEW req \in Requests, Ask(o, req),
           pc[o] \in ReadRequests, wire[o].at = "answer",
           \A d \in Ops \ {o} : known'[d] = known[d], UNCHANGED <<call, log>>
    PROVE  CountsInv'
  <1>1. /\ TypeOK /\ CountInv(o) /\ outcome[o] = "none" /\ wire[o].req = pc[o]
        /\ DoneBy(o)' = DoneBy(o)
    BY ReportValues DEF IInv, TypeOK, CountsInv, CallInv, DoneBy
  <1>2. DoneBy(o) = {}
    BY <1>1 DEF CountInv, Undone
  <1>3. /\ wire'[o].at = "request" /\ outcome' = outcome
        /\ \A d \in Ops \ {o} : Untouched(d)
    BY <1>1, AskType DEF Untouched
  <1>4. CountInv(o)'
    BY <1>1, <1>2, <1>3, ReportValues DEF CountInv, Undone
  <1>. QED  BY <1>3, <1>4, QuietCounts

LEMMA EndKeepsCounts ==
    ASSUME IInv, CountsInv, NEW o \in Ops, NEW result \in Outcomes, result # "none",
           pc[o] \in Requests, Return(o, result),
           \/ Read(o)
           \/ UNCHANGED wire /\ result \in Undecided,
           result = "ok" /\ call[o].tool # "issue_get" => DoneBy(o) # {},
           result \in Refusals => DoneBy(o) = {},
           \A d \in Ops \ {o} : known'[d] = known[d], UNCHANGED <<call, log>>
    PROVE  CountsInv'
  <1>1. TypeOK /\ CountInv(o) /\ DoneBy(o)' = DoneBy(o) /\ pc[o] # "idle"
    BY ReportValues DEF IInv, CountsInv, DoneBy
  <1>2. /\ pc'[o] = "done" /\ outcome'[o] = result
        /\ \A d \in Ops \ {o} : Untouched(d)
    BY <1>1, ReturnType, ReadType DEF Untouched
  <1>3. CASE Read(o)
    <2>1. wire'[o].at = "none"
      BY <1>1, <1>3, ReadType
    <2>2. CountInv(o)'
      BY <1>1, <1>2, <2>1 DEF CountInv, Undone
    <2>. QED  BY <1>2, <2>2, QuietCounts
  <1>4. CASE UNCHANGED wire /\ result \in Undecided
    <2>1. result \notin Refusals /\ result # "ok"
      BY <1>4, ReportValues
    <2>2. CountInv(o)'
      BY <1>1, <1>2, <1>4, <2>1 DEF CountInv, Undone
    <2>. QED  BY <1>2, <2>2, QuietCounts
  <1>. QED  BY <1>3, <1>4

(* The answer to the request in hand.                                      *)
LEMMA AnswerInHand ==
    ASSUME IInv, CountsInv, NEW o \in Ops, pc[o] \in Requests, wire[o].at = "answer"
    PROVE  /\ wire[o].req = pc[o] /\ wire[o].res # "none" /\ wire[o].res \in Outcomes
           /\ wire[o].res = "ok" /\ pc[o] \in WriteRequests => DoneBy(o) # {}
           /\ wire[o].res \in Refusals \/ pc[o] \in ReadRequests => DoneBy(o) = {}
  <1>1. CallInv(o) /\ CountInv(o) /\ wire[o].res \in Outcomes
    BY DEF IInv, TypeOK, Wires, CountsInv
  <1>2. wire[o].req = pc[o] /\ wire[o].res # "none"
    BY <1>1, ReportValues DEF CallInv
  <1>. QED  BY <1>1, <1>2 DEF CountInv, Undone

LEMMA ToolKeepsCounts ==
    ASSUME IInv, CountsInv, NEW o \in Ops,
           TakeError(o) \/ TakeIssue(o) \/ TakeRepo(o) \/ TakeWrite(o) \/ Fail(o)
    PROVE  CountsInv'
  <1>. USE DEF forgeVars
  <1>1. CASE TakeError(o)
    BY <1>1, AnswerInHand, EndKeepsCounts DEF TakeError
  <1>2. CASE TakeIssue(o)
    <2>1. PICK n \in 1..2 :
             /\ Answered(o, GetIssueReads[n])
             /\ \/ n = 1 /\ Ask(o, GetIssueReads[2])
                \/ n = 2 /\ Read(o) /\ Return(o, "ok")
      BY <1>2 DEF TakeIssue
    <2>2. /\ pc[o] \in ReadRequests /\ pc[o] \in Requests /\ wire[o].at = "answer"
          /\ GetIssueReads[2] \in Requests
      BY <2>1 DEF GetIssueReads, Answered, ReadRequests, Requests
    <2>3. /\ \A d \in Ops \ {o} : known'[d] = known[d]
          /\ UNCHANGED <<call, log>>
      BY <1>2 DEF TakeIssue, IInv, TypeOK
    <2>4. call[o].tool = "issue_get"
      <3>1. pc[o] \in {"issue", "comments"}
        BY <2>1 DEF GetIssueReads, Answered
      <3>. QED  BY <2>2, <3>1 DEF IInv, CallInv, RequestsOf
    <2>5. "ok" \in Outcomes /\ "ok" \notin Refusals
      BY ReportValues DEF Outcomes
    <2>. QED  BY <2>1, <2>2, <2>3, <2>4, <2>5, AskNextKeepsCounts, EndKeepsCounts
  <1>3. CASE TakeRepo(o)
    <2>1. /\ pc[o] \in ReadRequests /\ pc[o] \in Requests /\ wire[o].at = "answer"
          /\ "delete_branch" \in Requests /\ UNCHANGED <<call, known, log>>
      BY <1>3 DEF TakeRepo, Answered, ReadRequests, Requests, WriteRequests
    <2>2. "validation" \in Outcomes /\ "validation" \notin Refusals
      BY ReportValues DEF Outcomes
    <2>. QED  BY <1>3, <2>1, <2>2, AskNextKeepsCounts, EndKeepsCounts DEF TakeRepo
  <1>4. CASE TakeWrite(o)
    <2>1. /\ pc[o] \in WriteRequests /\ pc[o] \in Requests /\ wire[o].at = "answer"
          /\ wire[o].res = "ok" /\ UNCHANGED <<call, known, log>>
      BY <1>4, ReportValues DEF TakeWrite, Answered
    <2>2. "ok" \in Outcomes /\ "ok" \notin Refusals
      BY ReportValues DEF Outcomes
    <2>. QED  BY <1>4, <2>1, <2>2, AnswerInHand, EndKeepsCounts DEF TakeWrite
  <1>5. CASE Fail(o)
    <2>1. "transient" \in Outcomes /\ "transient" \notin Refusals
      BY ReportValues DEF Outcomes
    <2>. QED  BY <1>5, <2>1, ReportValues, EndKeepsCounts DEF Fail
  <1>. QED  BY <1>1, <1>2, <1>3, <1>4, <1>5

LEMMA NetworkKeepsCounts ==
    ASSUME IInv, CountsInv, NEW o \in Ops, ServeRead(o) \/ Refuse(o) \/ Drop(o)
    PROVE  CountsInv' /\ UNCHANGED <<log, outcome, call>>
  <1>1. TypeOK /\ CountInv(o) /\ CallInv(o)
    BY DEF IInv, CountsInv
  <1>2. CASE Drop(o)
    <2>1. Read(o) /\ UNCHANGED <<pc, call, known, outcome, log>> /\ wire[o].at # "none"
      BY <1>2 DEF Drop, Read, forgeVars
    <2>2. /\ wire'[o].at = "none" /\ pc[o] # "idle"
          /\ \A d \in Ops \ {o} : Untouched(d)
      BY <1>1, <2>1, ReadType DEF Untouched, CallInv
    <2>3. CountInv(o)'
      BY <1>1, <2>1, <2>2 DEF CountInv, Undone, DoneBy
    <2>. QED  BY <2>1, <2>2, <2>3, QuietCounts
  <1>3. ASSUME NEW res \in Outcomes, Reply(o, res), UNCHANGED log, wire[o].at = "request",
               res = "ok" => wire[o].req \notin WriteRequests
        PROVE  CountsInv' /\ UNCHANGED <<log, outcome, call>>
    <2>1. /\ wire'[o].at = "answer" /\ wire'[o].req = wire[o].req /\ wire'[o].res = res
          /\ UNCHANGED <<pc, call, known, outcome>>
          /\ \A d \in Ops \ {o} : Untouched(d)
      BY <1>1, <1>3, ReplyType DEF Untouched
    <2>2. DoneBy(o)' = {} /\ outcome[o] \notin Refusals
      BY <1>1, <1>3 DEF CountInv, Undone, DoneBy
    <2>3. CountInv(o)'
      BY <1>1, <1>3, <2>1, <2>2 DEF CountInv, Undone, DoneBy
    <2>. QED  BY <1>3, <2>1, <2>3, QuietCounts
  <1>4. CASE ServeRead(o)
    <2>1. "ok" \in Outcomes /\ wire[o].req \notin WriteRequests
      BY <1>4, ReportValues DEF Outcomes, ServeRead
    <2>. QED  BY <1>3, <1>4, <2>1 DEF ServeRead, forgeVars
  <1>5. CASE Refuse(o)
    <2>1. {"not_found", "transient", "validation"} \subseteq Outcomes
      BY DEF Outcomes, ErrorKinds
    <2>. QED  BY <1>3, <1>5, <2>1 DEF Refuse, forgeVars
  <1>. QED  BY <1>2, <1>4, <1>5

(* A change is one more in the account of who made it.                     *)
LEMMA ChangeCounts ==
    ASSUME IInv, NEW who, NEW new, Change(who, new)
    PROVE  /\ \A d : d # who => DoneBy(d)' = DoneBy(d)
           /\ DoneBy(who)' = DoneBy(who) \cup {Len(log) + 1}
           /\ DOMAIN log \subseteq DOMAIN log' /\ Len(log) + 1 \in DOMAIN log'
  <1>. DEFINE entry == [by |-> who, was |-> forge, is |-> new]
  <1>1. /\ log \in Seq([by : Ops \cup {"foreign"}, was : Forges, is : Forges])
        /\ log' = Append(log, entry)
    BY DEF IInv, TypeOK, Change
  <1>2. /\ DOMAIN log = 1..Len(log) /\ DOMAIN log' = 1..(Len(log) + 1) /\ Len(log) \in Nat
        /\ log'[Len(log) + 1] = entry
        /\ \A i \in DOMAIN log : log'[i] = log[i]
    BY <1>1
  <1>3. \A i \in DOMAIN log' : i \in DOMAIN log \/ i = Len(log) + 1
    BY <1>2
  <1>4. Len(log) + 1 \in DOMAIN log' /\ DOMAIN log \subseteq DOMAIN log'
    BY <1>2
  <1>5. log'[Len(log) + 1].by = who
    BY <1>2
  <1>. QED  BY <1>2, <1>3, <1>4, <1>5 DEF DoneBy

LEMMA ServeWriteKeepsCounts ==
    ASSUME IInv, CountsInv, NEW o \in Ops, ServeWrite(o)
    PROVE  /\ CountsInv' /\ UNCHANGED <<outcome, call>>
           /\ DoneBy(o) = {} /\ (\E i : DoneBy(o)' = {i})
           /\ \A d \in Ops : d # o => DoneBy(d)' = DoneBy(d)
           /\ outcome[o] \notin Refusals /\ (outcome[o] = "ok" => call[o].tool = "issue_get")
  <1>1. /\ wire[o].at = "request" /\ wire[o].req \in WriteRequests /\ CarryOut(o)
        /\ TypeOK /\ CountInv(o) /\ CallInv(o)
    BY DEF ServeWrite, IInv, CountsInv
  <1>2. /\ DoneBy(o) = {} /\ outcome[o] \notin Refusals /\ pc[o] # "idle"
        /\ outcome[o] = "ok" => call[o].tool = "issue_get"
    BY <1>1 DEF CountInv, Undone, CallInv
  <1>3. PICK new : Change(o, new)
    BY <1>1, CarryOutIsChange
  <1>4. PICK res \in {"ok", "transient", "validation"} : Reply(o, res)
    BY DEF ServeWrite
  <1>5. res \in Outcomes /\ res \notin Refusals
    BY ReportValues DEF Outcomes
  <1>6. /\ wire'[o].at = "answer" /\ wire'[o].req = wire[o].req /\ wire'[o].res = res
        /\ UNCHANGED <<pc, call, known, outcome>>
        /\ \A d \in Ops \ {o} : Untouched(d)
    BY <1>1, <1>4, <1>5, ReplyType DEF Untouched
  <1>7. DoneBy(o)' = {Len(log) + 1} /\ Len(log) + 1 \in DOMAIN log'
    BY <1>2, <1>3, ChangeCounts
  <1>8. CountInv(o)'
    BY <1>1, <1>2, <1>5, <1>6, <1>7, ReportValues DEF CountInv, Undone
  <1>9. ASSUME NEW d \in Ops, d # o PROVE CountInv(d)' /\ DoneBy(d)' = DoneBy(d)
    <2>1. CountInv(d) /\ DoneBy(d)' = DoneBy(d) /\ DOMAIN log \subseteq DOMAIN log' /\ Untouched(d)
      BY <1>3, <1>6, <1>9, ChangeCounts DEF CountsInv
    <2>. QED  BY <2>1 DEF CountInv, Undone, Untouched
  <1>. QED  BY <1>2, <1>6, <1>7, <1>8, <1>9 DEF CountsInv

LEMMA ForeignKeepsCounts ==
    ASSUME IInv, CountsInv, Foreign
    PROVE  CountsInv' /\ UNCHANGED <<outcome, call>> /\ \A d \in Ops : DoneBy(d)' = DoneBy(d)
  <1>1. PICK new : Change("foreign", new)
    BY DEF Foreign
  <1>2. UNCHANGED <<pc, call, wire, known, outcome>>
    BY DEF Foreign
  <1>3. ASSUME NEW d \in Ops PROVE CountInv(d)' /\ DoneBy(d)' = DoneBy(d)
    <2>1. d # "foreign"
      BY RepositoryAssumption
    <2>2. CountInv(d) /\ DoneBy(d)' = DoneBy(d) /\ DOMAIN log \subseteq DOMAIN log'
      BY <1>1, <2>1, ChangeCounts DEF CountsInv
    <2>. QED  BY <1>2, <2>2 DEF CountInv, Undone
  <1>. QED  BY <1>2, <1>3 DEF CountsInv

LEMMA StepKeepsCounts == IInv /\ CountsInv /\ [Next]_vars => CountsInv'
  <1>. SUFFICES ASSUME IInv, CountsInv, [Next]_vars PROVE CountsInv'
    OBVIOUS
  <1>1. CASE UNCHANGED vars
    BY <1>1 DEF vars, forgeVars, CountsInv, CountInv, Undone, DoneBy
  <1>. QED
    BY <1>1, ForeignKeepsCounts, StartKeepsCounts, ToolKeepsCounts, NetworkKeepsCounts,
       ServeWriteKeepsCounts
    DEF Next

LEMMA CountInvariance == Spec => []CountsInv
  BY InitCounts, StepKeepsCounts, Invariance, PTL DEF Spec

-----------------------------------------------------------------------------
executed == [o \in Ops |-> Cardinality({i \in DOMAIN log : log[i].by = o})]
report == [o \in Ops |-> Report(o)]

LEMMA ReportCases ==
    ASSUME NEW o \in Ops, outcome[o] \in Outcomes
    PROVE  /\ call[o].tool = "issue_get" \/ outcome[o] = "none" => Report(o) = "none"
           /\ call[o].tool # "issue_get" /\ outcome[o] = "ok" => Report(o) = "done"
           /\ call[o].tool # "issue_get" /\ outcome[o] \in Refusals => Report(o) = "refused"
           /\ call[o].tool # "issue_get" /\ outcome[o] \in Undecided => Report(o) = "undecided"
           /\ outcome[o] \in {"none", "ok"} \cup Refusals \cup Undecided
  BY ReportValues DEF Report, Outcomes

LEMMA Counted ==
    ASSUME CountsInv, NEW o \in Ops
    PROVE  /\ DoneBy(o) = {} => executed[o] = 0
           /\ DoneBy(o) # {} => executed[o] = 1
  <1>1. executed[o] = Cardinality(DoneBy(o))
    BY DEF executed, DoneBy
  <1>2. DoneBy(o) = {} => Cardinality(DoneBy(o)) = 0
    BY FS_EmptySet
  <1>3. DoneBy(o) # {} => Cardinality(DoneBy(o)) = 1
    BY FS_Singleton DEF CountsInv, CountInv
  <1>. QED  BY <1>1, <1>2, <1>3

(* A call that gets its result is told so, or is a call that only reads.   *)
LEMMA ReturnTells ==
    ASSUME TypeOK, TypeOK', CountsInv, CountsInv', NEW o \in Ops, NEW result, result # "none",
           outcome[o] = "none", outcome' = [outcome EXCEPT ![o] = result],
           \A d \in Ops \ {o} : call'[d] = call[d], UNCHANGED log
    PROVE  Promise!Tell(o) \/ UNCHANGED <<executed, report>>
  <1>1. /\ outcome \in [Ops -> Outcomes] /\ outcome' \in [Ops -> Outcomes]
        /\ outcome'[o] = result /\ \A d \in Ops \ {o} : outcome'[d] = outcome[d]
    BY DEF TypeOK
  <1>2. DoneBy(o)' = DoneBy(o) /\ executed' = executed
    BY DEF DoneBy, executed
  <1>3. \A d \in Ops \ {o} : Report(d)' = Report(d)
    BY <1>1 DEF Report
  <1>4. report[o] = "none" /\ report' = [report EXCEPT ![o] = Report(o)']
    BY <1>1, <1>3, ReportCases DEF report
  <1>5. /\ call'[o].tool = "issue_get" => Report(o)' = "none"
        /\ call'[o].tool # "issue_get" /\ result = "ok" => Report(o)' = "done"
        /\ call'[o].tool # "issue_get" /\ result \in Refusals => Report(o)' = "refused"
        /\ call'[o].tool # "issue_get" /\ result \in Undecided => Report(o)' = "undecided"
        /\ result \in {"ok"} \cup Refusals \cup Undecided
    BY <1>1, ReportCases, ReportValues DEF Report, Outcomes
  <1>6. /\ result = "ok" /\ call'[o].tool # "issue_get" => executed[o] = 1
        /\ result \in Refusals => executed[o] = 0
    <2>1. /\ result = "ok" /\ call'[o].tool # "issue_get" => DoneBy(o) # {}
          /\ result \in Refusals => DoneBy(o) = {}
      BY <1>1, <1>2 DEF CountsInv, CountInv
    <2>. QED  BY <2>1, Counted
  <1>7. CASE Report(o)' = "none"
    <2>1. report' = report
      BY <1>4, <1>7 DEF report
    <2>. QED  BY <1>2, <2>1
  <1>8. CASE Report(o)' # "none"
    <2>1. /\ Report(o)' \in Promise!Reports \ {"none"}
          /\ Report(o)' = "done" => executed[o] = 1
          /\ Report(o)' = "refused" => executed[o] = 0
      BY <1>5, <1>6, <1>8 DEF Promise!Reports
    <2>. QED  BY <1>2, <1>4, <2>1 DEF Promise!Tell, executed, report
  <1>. QED  BY <1>7, <1>8

(* Forgejo carries out a write: its call had done nothing yet, and has not *)
(* been told that it was done or refused.                                  *)
LEMMA WriteExecutes ==
    ASSUME IInv, CountsInv, CountsInv', NEW o \in Ops, ServeWrite(o)
    PROVE  Promise!Execute(o) \/ UNCHANGED <<executed, report>>
  <1>1. /\ DoneBy(o) = {} /\ DoneBy(o)' # {} /\ UNCHANGED <<outcome, call>>
        /\ \A d \in Ops : d # o => DoneBy(d)' = DoneBy(d)
        /\ outcome[o] \notin Refusals /\ (outcome[o] = "ok" => call[o].tool = "issue_get")
    BY ServeWriteKeepsCounts
  <1>2. executed[o] = 0 /\ executed'[o] = 1
    <2>1. executed'[o] = Cardinality(DoneBy(o)')
      BY DEF executed, DoneBy
    <2>2. PICK i : DoneBy(o)' = {i}
      BY ServeWriteKeepsCounts
    <2>. QED  BY <1>1, <2>1, <2>2, Counted, FS_Singleton
  <1>3. \A d \in Ops : d # o => executed'[d] = executed[d]
    BY <1>1 DEF executed, DoneBy
  <1>4. executed' = [executed EXCEPT ![o] = 1]
    BY <1>2, <1>3 DEF executed
  <1>5. report' = report
    BY <1>1 DEF report, Report
  <1>6. report[o] \in {"none", "undecided"}
    <2>1. outcome[o] \in Outcomes
      BY DEF IInv, TypeOK
    <2>. QED  BY <1>1, <2>1, ReportCases DEF report
  <1>. QED  BY <1>2, <1>4, <1>5, <1>6 DEF Promise!Execute, executed, report

LEMMA ToolTells ==
    ASSUME IInv, IInv', CountsInv, CountsInv', NEW o \in Ops,
           TakeError(o) \/ TakeIssue(o) \/ TakeRepo(o) \/ TakeWrite(o) \/ Fail(o)
    PROVE  Promise!Tell(o) \/ UNCHANGED <<executed, report>>
  <1>1. pc[o] \in Requests /\ outcome[o] = "none" /\ UNCHANGED <<call, log>>
    <2>1. UNCHANGED <<call, log>>
      BY DEF TakeError, TakeIssue, TakeRepo, TakeWrite, Fail, forgeVars
    <2>2. pc[o] \in Requests
      BY ReportValues DEF TakeError, TakeIssue, TakeRepo, TakeWrite, Fail, Answered,
                          GetIssueReads, ReadRequests, Requests
    <2>. QED  BY <2>1, <2>2, ReportValues DEF IInv, TypeOK
  <1>2. UNCHANGED outcome \/ \E result : result # "none" /\ Return(o, result)
    <2>1. CASE TakeError(o)
      BY <1>1, <2>1, AnswerInHand DEF TakeError
    <2>2. CASE TakeIssue(o) \/ TakeRepo(o) \/ TakeWrite(o) \/ Fail(o)
      BY <2>2 DEF TakeIssue, TakeRepo, TakeWrite, Fail, Ask
    <2>. QED  BY <2>1, <2>2
  <1>3. CASE UNCHANGED outcome
    BY <1>1, <1>3 DEF executed, report, Report
  <1>4. ASSUME NEW result, result # "none", Return(o, result)
        PROVE  Promise!Tell(o) \/ UNCHANGED <<executed, report>>
    <2>1. outcome' = [outcome EXCEPT ![o] = result]
      BY <1>4 DEF Return
    <2>. QED  BY <1>1, <1>4, <2>1, ReturnTells DEF IInv
  <1>. QED  BY <1>2, <1>3, <1>4

LEMMA StepRefines ==
    IInv /\ IInv' /\ CountsInv /\ CountsInv' /\ [Next]_vars
        => [Promise!Next]_(Promise!promiseVars)
  <1>. SUFFICES ASSUME IInv, IInv', CountsInv, CountsInv', [Next]_vars
                PROVE  Promise!Next \/ UNCHANGED <<executed, report>>
    BY DEF Promise!promiseVars, executed, report
  <1>1. CASE UNCHANGED vars
    BY <1>1 DEF vars, forgeVars, executed, report, Report
  <1>2. CASE Foreign
    <2>1. UNCHANGED <<outcome, call>> /\ \A d \in Ops : DoneBy(d)' = DoneBy(d)
      BY <1>2, ForeignKeepsCounts
    <2>2. executed' = executed
      BY <2>1 DEF executed, DoneBy
    <2>3. report' = report
      BY <2>1 DEF report, Report
    <2>. QED  BY <2>2, <2>3
  <1>3. ASSUME NEW o \in Ops, Start(o)
        PROVE  Promise!Next \/ UNCHANGED <<executed, report>>
    <2>1. /\ UNCHANGED log /\ outcome[o] = "none"
          /\ outcome' = outcome \/ outcome' = [outcome EXCEPT ![o] = "validation"]
          /\ \A d \in Ops \ {o} : call'[d] = call[d]
      BY <1>3, StartKeepsCounts
    <2>2. CASE outcome' = outcome
      <3>1. \A d \in Ops : Report(d)' = Report(d)
        <4>1. ASSUME NEW d \in Ops \ {o} PROVE Report(d)' = Report(d)
          BY <2>1, <2>2, <4>1 DEF Report
        <4>2. Report(o)' = "none" /\ Report(o) = "none"
          BY <2>1, <2>2, ReportValues DEF Report
        <4>. QED  BY <4>1, <4>2
      <3>. QED  BY <2>1, <3>1 DEF executed, report
    <2>. QED  BY <2>1, <2>2, ReturnTells DEF Promise!Next, IInv
  <1>4. ASSUME NEW o \in Ops, ServeRead(o) \/ Refuse(o) \/ Drop(o)
        PROVE  UNCHANGED <<executed, report>>
    <2>1. UNCHANGED <<log, outcome, call>>
      BY <1>4, NetworkKeepsCounts
    <2>. QED  BY <2>1 DEF executed, report, Report
  <1>. QED
    BY <1>1, <1>2, <1>3, <1>4, WriteExecutes, ToolTells DEF Next, Promise!Next

(* Every tool that writes, of one request or of two, keeps the promise of  *)
(* one request: at most one change at Forgejo, an "ok" only with one, a    *)
(* refusal never before one.                                               *)
THEOREM WritesKeepPromise == Spec => KeepsPromise
  <1>1. Init => Promise!Init
    <2>. SUFFICES ASSUME Init PROVE Promise!Init
      OBVIOUS
    <2>1. \A o \in Ops : {i \in DOMAIN log : log[i].by = o} = {} /\ outcome[o] = "none"
      BY DEF Init
    <2>2. \A o \in Ops : Report(o) = "none"
      BY <2>1, ReportCases DEF Outcomes
    <2>. QED  BY <2>1, <2>2, FS_EmptySet DEF Promise!Init
  <1>. QED  BY <1>1, Invariance, CountInvariance, StepRefines, PTL
            DEF Spec, KeepsPromise, Promise!Spec
=============================================================================
