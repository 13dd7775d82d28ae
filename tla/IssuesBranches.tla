---------------------------- MODULE IssuesBranches ----------------------------
(***************************************************************************)
(* The tools about one issue and about the branches of one repository      *)
(* (application.go): forgejo_issue_get and forgejo_branch_delete, which    *)
(* compose two requests, and the tools that change what those two read:    *)
(* issue_update, issue_delete, issue_comment_add, comment_delete,          *)
(* branch_create and repo_update.                                          *)
(*                                                                         *)
(* Each request is a RemoteCall (see ForgejoClient).  The issue and the    *)
(* branches change between the requests of a tool, through other tool      *)
(* calls and through people, and a request its tool gave up on may still   *)
(* be carried out.                                                         *)
(***************************************************************************)
EXTENDS Taxonomy, Sequences, FiniteSets

CONSTANTS Ops,         \* tool calls; a comment bears the name of who added it
          Plays,       \* the tools a call may be a call of
          Edits,       \* what an edit may ask for
          Branches,    \* names of branches
          Main,        \* the default branch at the beginning
          Gone,        \* the title of an issue that was deleted
          MaxForeign   \* bound on changes made outside this server

Tools == {"issue_get", "issue_comment_add", "comment_delete", "issue_update",
          "issue_delete", "branch_delete", "branch_create", "repo_update"}

(* New texts, a new state, or any of these at once. *)
EveryEdit == {edit \in SUBSET {"title", "body", "close", "reopen"} :
                  ~ {"close", "reopen"} \subseteq edit}

ASSUME RepositoryAssumption ==
    /\ Plays \in [Ops -> SUBSET Tools]
    /\ Edits \subseteq EveryEdit
    /\ Ops \cap {"foreign", "old", "", "omitted", Gone} = {}
    /\ Gone \notin {"foreign", "old", ""}
    /\ Main \in Branches /\ MaxForeign \in Nat

VARIABLES
    pc,       \* pc[o]: "idle", the request o waits for, or "done"
    call,     \* call[o]: the tool and what it was given
    wire,     \* wire[o]: o's latest request, or the answer to it
    known,    \* known[o]: what o's reads returned
    outcome,  \* outcome[o]: what the tool call returned
    forge,    \* the issue and the branches at Forgejo
    log,      \* history: who changed what into what
    readAt    \* readAt[o]: length of the history when o's repository was read

forgeVars == <<forge, log>>
vars == <<pc, call, wire, known, outcome, forge, log, readAt>>

(* A text is named after who wrote it. *)
Writers == Ops \cup {"foreign", "old"}
Forges == [title : Writers \cup {Gone, ""}, body : Writers \cup {""}, open : BOOLEAN,
           comments : SUBSET Writers, default : Branches, branches : SUBSET Branches]

ReadRequests == {"issue", "comments", "repo"}
WriteRequests == {"edit", "delete_issue", "comment", "delete_comment",
                  "delete_branch", "create_branch", "edit_repo"}
Requests == ReadRequests \cup WriteRequests

(* An answer to a read carries what Forgejo had; each reader looks at its  *)
(* own part of it.                                                         *)
Wire(at, req, res, got) == [at |-> at, req |-> req, res |-> res, got |-> got]

Nothing == [title |-> "", body |-> "", open |-> FALSE, comments |-> {},
            default |-> Main, branches |-> {}]

Silence == Wire("none", "none", "none", Nothing)

Init ==
    /\ forge = [title |-> "old", body |-> "old", open |-> TRUE, comments |-> {"old"},
                default |-> Main, branches |-> Branches]
    /\ log = <<>>
    /\ pc = [o \in Ops |-> "idle"]
    /\ call = [o \in Ops |-> [tool |-> "none", arg |-> "none", edit |-> {}]]
    /\ wire = [o \in Ops |-> Silence]
    /\ known = [o \in Ops |-> [issue |-> Nothing, comments |-> {}]]
    /\ outcome = [o \in Ops |-> "none"]
    /\ readAt = [o \in Ops |-> 0]

-----------------------------------------------------------------------------
Ask(o, req) ==
    /\ pc' = [pc EXCEPT ![o] = req]
    /\ wire' = [wire EXCEPT ![o] = Wire("request", req, "none", Nothing)]
    /\ UNCHANGED outcome

Return(o, result) ==
    /\ pc' = [pc EXCEPT ![o] = "done"]
    /\ outcome' = [outcome EXCEPT ![o] = result]

Given(o, tool, arg, edit) ==
    /\ pc[o] = "idle" /\ tool \in Plays[o]
    /\ call' = [call EXCEPT ![o] = [tool |-> tool, arg |-> arg, edit |-> edit]]
    /\ UNCHANGED <<known, forgeVars, readAt>>

Called(o, tool, arg) == Given(o, tool, arg, {})

(* A blank name or body, an index or ID that is not positive. *)
Reject(o) == Return(o, "validation") /\ UNCHANGED wire

(* Faulty variant: the refusal is noted, and the request sent all the same. *)
Checked_GoesOn(o, req) ==
    /\ pc' = [pc EXCEPT ![o] = req]
    /\ wire' = [wire EXCEPT ![o] = Wire("request", req, "none", Nothing)]
    /\ \E err \in {"none", "validation"} : outcome' = [outcome EXCEPT ![o] = err]

Checked(o, req) == Ask(o, req) \/ Reject(o)

(* Faulty variant: the comments are read before the issue. *)
GetIssueReads_Swapped == <<"comments", "issue">>

GetIssueReads == <<"issue", "comments">>

GetIssue(o) == Called(o, "issue_get", "none") /\ Ask(o, GetIssueReads[1])

AddIssueComment(o) == Called(o, "issue_comment_add", "none") /\ Checked(o, "comment")
DeleteComment(o) == \E c \in forge.comments :
    Called(o, "comment_delete", c) /\ Checked(o, "delete_comment")

UpdateIssue(o) == \E edit \in Edits :
    Given(o, "issue_update", "none", edit) /\ Ask(o, "edit")
DeleteIssue(o) == Called(o, "issue_delete", "none") /\ Checked(o, "delete_issue")

DeleteBranch(o) == \E b \in Branches : Called(o, "branch_delete", b) /\ Checked(o, "repo")
CreateBranch(o) == \E b \in Branches : Called(o, "branch_create", b) /\ Checked(o, "create_branch")
UpdateRepository(o) == \E b \in Branches : Called(o, "repo_update", b) /\ Ask(o, "edit_repo")

Start(o) ==
    \/ GetIssue(o) \/ AddIssueComment(o) \/ DeleteComment(o) \/ UpdateIssue(o)
    \/ DeleteIssue(o) \/ DeleteBranch(o) \/ CreateBranch(o) \/ UpdateRepository(o)

-----------------------------------------------------------------------------
Read(o) == wire' = [wire EXCEPT ![o] = Silence]

Answered(o, req) == pc[o] = req /\ wire[o].at = "answer" /\ wire[o].res = "ok"

(* Every request of every tool: an error ends the tool call. *)
TakeError(o) ==
    /\ pc[o] \in Requests /\ wire[o].at = "answer" /\ wire[o].res # "ok"
    /\ Read(o) /\ Return(o, wire[o].res)
    /\ UNCHANGED <<call, known, forgeVars, readAt>>

(* forgejo_issue_get. *)
TakeIssue(o) == \E n \in 1..2 :
    /\ Answered(o, GetIssueReads[n])
    /\ known' = [known EXCEPT
           ![o].issue = IF pc[o] = "issue" THEN wire[o].got ELSE @,
           ![o].comments = IF pc[o] = "comments" THEN wire[o].got.comments ELSE @]
    /\ \/ n = 1 /\ Ask(o, GetIssueReads[2])
       \/ n = 2 /\ Read(o) /\ Return(o, "ok")
    /\ UNCHANGED <<call, forgeVars, readAt>>

(* Faulty variant: the default branch is not looked at. *)
TakeRepo_Unchecked(o) ==
    /\ Answered(o, "repo")
    /\ Ask(o, "delete_branch")
    /\ UNCHANGED <<call, known, forgeVars, readAt>>

(* forgejo_branch_delete: the default branch is refused. *)
TakeRepo(o) ==
    /\ Answered(o, "repo")
    /\ \/ wire[o].got.default # call[o].arg /\ Ask(o, "delete_branch")
       \/ wire[o].got.default = call[o].arg /\ Read(o) /\ Return(o, "validation")
    /\ UNCHANGED <<call, known, forgeVars, readAt>>

(* Faulty variant: the last request's error is dropped. *)
TakeWrite_DropsError(o) ==
    /\ pc[o] \in WriteRequests /\ wire[o].at = "answer"
    /\ Read(o) /\ Return(o, "ok")
    /\ UNCHANGED <<call, known, forgeVars, readAt>>

TakeWrite(o) ==
    /\ pc[o] \in WriteRequests /\ Answered(o, pc[o])
    /\ Read(o) /\ Return(o, "ok")
    /\ UNCHANGED <<call, known, forgeVars, readAt>>

(* Faulty variant: the second request of a tool is not bounded. *)
Fail_FirstOnly(o) ==
    /\ pc[o] \in Requests \ {"comments", "delete_branch"}
    /\ Return(o, "transient")
    /\ UNCHANGED <<call, wire, known, forgeVars, readAt>>

(* The request in hand failed or timed out; it may still be on the wire. *)
Fail(o) ==
    /\ pc[o] \in Requests
    /\ Return(o, "transient")
    /\ UNCHANGED <<call, wire, known, forgeVars, readAt>>

-----------------------------------------------------------------------------
(* Forgejo, the network, and everybody else. *)

Reply(o, res) ==
    /\ wire' = [wire EXCEPT ![o] = Wire("answer", wire[o].req, res,
           IF res = "ok" /\ wire[o].req \in ReadRequests THEN forge ELSE Nothing)]
    /\ UNCHANGED <<pc, call, known, outcome>>

ServeRead(o) ==
    /\ wire[o].at = "request" /\ wire[o].req \in ReadRequests
    /\ wire[o].req \in {"issue", "comments"} => forge.title # Gone
    /\ Reply(o, "ok")
    /\ readAt' = IF wire[o].req = "repo" THEN [readAt EXCEPT ![o] = Len(log)] ELSE readAt
    /\ UNCHANGED forgeVars

(* The body of an edit carries the fields the caller gave; those left      *)
(* blank are omitted.  Faulty variant: blank texts are sent as well.       *)
updateIssueRequest_Full(o) ==
    LET edit == call[o].edit IN
    [title |-> IF "title" \in edit THEN o ELSE "",
     body |-> IF "body" \in edit THEN o ELSE "",
     state |-> edit \cap {"close", "reopen"}]

updateIssueRequest(o) ==
    LET edit == call[o].edit IN
    [title |-> IF "title" \in edit THEN o ELSE "omitted",
     body |-> IF "body" \in edit THEN o ELSE "omitted",
     state |-> edit \cap {"close", "reopen"}]

Edited(issue, request) ==
    [issue EXCEPT !.title = IF request.title = "omitted" THEN @ ELSE request.title,
                  !.body = IF request.body = "omitted" THEN @ ELSE request.body,
                  !.open = IF request.state = {} THEN @ ELSE request.state = {"reopen"}]

Change(who, new) ==
    /\ forge' = new
    /\ log' = Append(log, [by |-> who, was |-> forge, is |-> new])

(* Forgejo itself refuses to delete the default branch, with 403.          *)
CarryOut(o) ==
    LET req == wire[o].req  arg == call[o].arg IN
    \/ /\ req = "edit" /\ forge.title # Gone
       /\ Change(o, Edited(forge, updateIssueRequest(o)))
    \/ /\ req = "delete_issue" /\ forge.title # Gone
       /\ Change(o, [forge EXCEPT !.title = Gone, !.comments = {}])
    \/ /\ req = "comment" /\ forge.title # Gone
       /\ Change(o, [forge EXCEPT !.comments = @ \cup {o}])
    \/ /\ req = "delete_comment" /\ arg \in forge.comments
       /\ Change(o, [forge EXCEPT !.comments = @ \ {arg}])
    \/ /\ req = "delete_branch" /\ arg \in forge.branches \ {forge.default}
       /\ Change(o, [forge EXCEPT !.branches = @ \ {arg}])
    \/ /\ req = "create_branch" /\ arg \notin forge.branches
       /\ Change(o, [forge EXCEPT !.branches = @ \cup {arg}])
    \/ /\ req = "edit_repo" /\ arg \in forge.branches
       /\ Change(o, [forge EXCEPT !.default = arg])

(* Having done a write, Forgejo may still answer 5xx; where the client     *)
(* decodes the answer, it may also fail at that.                           *)
Deletions == {"delete_issue", "delete_comment", "delete_branch"}

ServeWrite(o) ==
    /\ wire[o].at = "request" /\ wire[o].req \in WriteRequests
    /\ CarryOut(o)
    /\ \E res \in {"ok", "transient", "validation"} :
          /\ res = "validation" => wire[o].req \notin Deletions
          /\ Reply(o, res)
    /\ UNCHANGED readAt

(* Any request may be refused; "not_found" stands for every refusal. *)
Refuse(o) ==
    /\ wire[o].at = "request"
    /\ \E res \in {"not_found", "transient", "validation"} : Reply(o, res)
    /\ UNCHANGED <<forgeVars, readAt>>

Drop(o) ==
    /\ wire[o].at # "none"
    /\ wire' = [wire EXCEPT ![o] = Silence]
    /\ UNCHANGED <<pc, call, known, outcome, forgeVars, readAt>>

Foreign ==
    /\ Cardinality({i \in DOMAIN log : log[i].by = "foreign"}) < MaxForeign
    /\ \/ \E b \in forge.branches \ {forge.default} :
             \/ Change("foreign", [forge EXCEPT !.default = b])
             \/ Change("foreign", [forge EXCEPT !.branches = @ \ {b}])
       \/ /\ forge.title # Gone
          /\ \/ /\ \A i \in DOMAIN log : "foreign" \notin log[i].is.comments
                /\ Change("foreign", [forge EXCEPT !.open = FALSE, !.comments = @ \cup {"foreign"}])
             \/ Change("foreign", [forge EXCEPT !.title = "foreign", !.body = "foreign"])
    /\ UNCHANGED <<pc, call, wire, known, outcome, readAt>>

-----------------------------------------------------------------------------
Next ==
    \/ \E o \in Ops :
          \/ Start(o)
          \/ TakeError(o) \/ TakeIssue(o) \/ TakeRepo(o) \/ TakeWrite(o) \/ Fail(o)
          \/ ServeRead(o) \/ ServeWrite(o) \/ Refuse(o) \/ Drop(o)
    \/ Foreign

Fairness == \A o \in Ops : WF_vars(Fail(o))

Spec == Init /\ [][Next]_vars /\ Fairness

-----------------------------------------------------------------------------
Outcomes == {"none", "ok"} \cup ErrorKinds

Wires == [at : {"none", "request", "answer"}, req : {"none"} \cup Requests,
          res : Outcomes, got : Forges]

TypeOK ==
    /\ pc \in [Ops -> {"idle", "done"} \cup Requests]
    /\ call \in [Ops -> [tool : {"none"} \cup Tools,
                         arg : {"none"} \cup Writers \cup Branches, edit : EveryEdit]]
    /\ wire \in [Ops -> Wires]
    /\ known \in [Ops -> [issue : Forges, comments : SUBSET Writers]]
    /\ outcome \in [Ops -> Outcomes]
    /\ forge \in Forges
    /\ log \in Seq([by : Ops \cup {"foreign"}, was : Forges, is : Forges])
    /\ readAt \in [Ops -> Nat]
    /\ \A o \in Ops : pc[o] = "done" <=> outcome[o] # "none"

(* forgejo_issue_get never shows an issue that is ahead of its comments:   *)
(* whatever was said when the issue had the title and the state shown is   *)
(* among the comments shown, unless it has been deleted since.  An issue   *)
(* shown closed comes with the comment that explains why.                  *)
Got == {o \in Ops : call[o].tool = "issue_get" /\ outcome[o] = "ok"}

ShownIssueHasItsComments ==
    \A o \in Got : known[o].issue.comments \cap forge.comments \subseteq known[o].comments

(* An edit touches the fields it was given and no other: closing an issue  *)
(* does not take back the texts somebody gave it meanwhile, nor do new     *)
(* texts reopen what somebody closed, though the tool reads nothing before *)
(* it writes and sends no version.                                         *)
EditsTouchOnlyTheirFields ==
    \A i \in DOMAIN log : LET o == log[i].by IN
        o \in Ops /\ call[o].tool = "issue_update" =>
            /\ "title" \notin call[o].edit => log[i].is.title = log[i].was.title
            /\ "body" \notin call[o].edit => log[i].is.body = log[i].was.body
            /\ call[o].edit \cap {"close", "reopen"} = {} => log[i].is.open = log[i].was.open

(* forgejo_branch_delete is written not to ask for the deletion of the     *)
(* default branch.  Checked in one request and deleted in the next, it can *)
(* come to that all the same, and then Forgejo must refuse: but only if    *)
(* somebody else made the branch the default after the check.              *)
MadeDefault(k, b) == log[k].was.default # b /\ log[k].is.default = b

DefaultAskedForOnlyInRace ==
    \A o \in Ops :
        wire[o].at = "request" /\ wire[o].req = "delete_branch" /\ call[o].arg = forge.default =>
            \E k \in (readAt[o] + 1)..Len(log) :
                MadeDefault(k, call[o].arg) /\ log[k].by # o

(* The tools that write keep the promise of RemoteCall, branch_delete with *)
(* its two requests included: at most one change each, an "ok" stands for  *)
(* one and a refusal for none, then or later.                              *)
Report(o) ==
    CASE call[o].tool = "issue_get" \/ outcome[o] = "none" -> "none"
      [] call[o].tool # "issue_get" /\ outcome[o] = "ok" -> "done"
      [] call[o].tool # "issue_get" /\ outcome[o] \in Refusals -> "refused"
      [] call[o].tool # "issue_get" /\ outcome[o] \in Undecided -> "undecided"

Promise == INSTANCE RemoteCall WITH
    Calls <- Ops,
    executed <- [o \in Ops |-> Cardinality({i \in DOMAIN log : log[i].by = o})],
    report <- [o \in Ops |-> Report(o)]

KeepsPromise == Promise!Spec

(* Every tool call returns, whichever of its requests stays unanswered. *)
EveryToolReturns == \A o \in Ops : pc[o] \in Requests ~> pc[o] = "done"
=============================================================================
