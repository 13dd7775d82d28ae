----------------------------- MODULE PullRequests -----------------------------
(***************************************************************************)
(* The tools that compose several requests about one pull request:         *)
(* forgejo_pull_get (the pull request, its files, the checks of its head),   *)
(* forgejo_pull_merge (asked whether merged, then merged) and                *)
(* forgejo_pull_review (a review created, then submitted), run by concurrent *)
(* tool calls while others push to the head branch and merge by hand.      *)
(*                                                                         *)
(* Each request is a RemoteCall (see ForgejoClient).  Forgejo's state      *)
(* moves between the requests of a tool, and a request its tool gave up    *)
(* on may still be carried out.                                            *)
(***************************************************************************)
EXTENDS Taxonomy, Sequences, FiniteSets

CONSTANTS Ops,        \* tool calls
          Tools,      \* which of "get", "merge", "review" they may be
          MaxPushes   \* bound on pushes to the head branch

ASSUME PullAssumption ==
    /\ Tools \subseteq {"get", "merge", "review"}
    /\ Ops \cap {"nobody", "foreign"} = {}
    /\ MaxPushes \in Nat

VARIABLES
    pc,        \* pc[o]: "idle", the request o waits for, or "done"
    wire,      \* wire[o]: o's latest request, or the answer to it
    known,     \* known[o]: what o has read so far
    outcome,   \* outcome[o]: what the tool call returned
    head,      \* number of the head commit at Forgejo
    mergedBy,  \* who merged the pull request
    reviews    \* the reviews, by ID - 1: who created them, who submitted them

forgeVars == <<head, mergedBy, reviews>>
vars == <<pc, wire, known, outcome, head, mergedBy, reviews>>

Requests == {"pull", "files", "status", "is_merged", "merge",
             "create_review", "submit_review"}

States == {"none", "open", "merged"}

Wire(at, req, arg) ==
    [at |-> at, req |-> req, arg |-> arg, res |-> "none", value |-> 0, state |-> "none"]

(* What forgejo_pull_get has read: the state of the pull request, its      *)
(* files and checks by the commit they are of, and the head commit, which  *)
(* the client needs for its third request and does not show to anyone.     *)
Knowledge == [state : States, files : Nat, checks : Nat, head : Nat]

Nothing == [state |-> "none", files |-> 0, checks |-> 0, head |-> 0]

Init ==
    /\ pc = [o \in Ops |-> "idle"]
    /\ wire = [o \in Ops |-> Wire("none", "none", 0)]
    /\ known = [o \in Ops |-> Nothing]
    /\ outcome = [o \in Ops |-> "none"]
    /\ head = 1
    /\ mergedBy \in {"nobody", "foreign"}
    /\ reviews = <<>>

-----------------------------------------------------------------------------
Ask(o, req, arg) ==
    /\ pc' = [pc EXCEPT ![o] = req]
    /\ wire' = [wire EXCEPT ![o] = Wire("request", req, arg)]
    /\ UNCHANGED outcome

Return(o, result) ==
    /\ pc' = [pc EXCEPT ![o] = "done"]
    /\ wire' = [wire EXCEPT ![o].at = "read"]
    /\ outcome' = [outcome EXCEPT ![o] = result]

(* A merge method or review event outside the vocabulary. *)
Reject(o) ==
    /\ pc[o] = "idle"
    /\ pc' = [pc EXCEPT ![o] = "done"]
    /\ outcome' = [outcome EXCEPT ![o] = "validation"]
    /\ UNCHANGED <<wire, known, forgeVars>>

Start(o, req) ==
    /\ pc[o] = "idle"
    /\ Ask(o, req, 0)
    /\ UNCHANGED <<known, forgeVars>>

GetPullRequest(o) == "get" \in Tools /\ Start(o, "pull")

MergePullRequest(o) == "merge" \in Tools /\ (Reject(o) \/ Start(o, "is_merged"))

ReviewPullRequest(o) == "review" \in Tools /\ (Reject(o) \/ Start(o, "create_review"))

Answered(o, req) == pc[o] = req /\ wire[o].at = "answer" /\ wire[o].res = "ok"

(* Every request of every tool: an error ends the tool call. *)
TakeError(o) ==
    /\ pc[o] \in Requests /\ wire[o].at = "answer" /\ wire[o].res # "ok"
    /\ Return(o, wire[o].res)
    /\ UNCHANGED <<known, forgeVars>>

(* forgejo_pull_get: the files follow the pull request, the checks are asked *)
(* for by the head SHA the first answer gave.                              *)
TakePull(o) ==
    /\ Answered(o, "pull")
    /\ known' = [known EXCEPT ![o].head = wire[o].value, ![o].state = wire[o].state]
    /\ Ask(o, "files", 0)
    /\ UNCHANGED forgeVars

(* Faulty variant: the checks are asked for by branch, not by SHA. *)
TakeFiles_ByBranch(o) ==
    /\ Answered(o, "files")
    /\ known' = [known EXCEPT ![o].files = wire[o].value]
    /\ Ask(o, "status", head)
    /\ UNCHANGED forgeVars

TakeFiles(o) ==
    /\ Answered(o, "files")
    /\ known' = [known EXCEPT ![o].files = wire[o].value]
    /\ Ask(o, "status", known[o].head)
    /\ UNCHANGED forgeVars

TakeStatus(o) ==
    /\ Answered(o, "status")
    /\ known' = [known EXCEPT ![o].checks = wire[o].value]
    /\ Return(o, "ok")
    /\ UNCHANGED forgeVars

(* Faulty variant: any 2xx or 404 answer of the probe counts as merged. *)
TakeIsMerged_Any(o) ==
    /\ Answered(o, "is_merged")
    /\ Return(o, "already_merged")
    /\ UNCHANGED <<known, forgeVars>>

(* forgejo_pull_merge *)
TakeIsMerged(o) ==
    /\ Answered(o, "is_merged")
    /\ \/ wire[o].state = "merged" /\ Return(o, "already_merged")
       \/ wire[o].state = "open" /\ Ask(o, "merge", 0)
    /\ UNCHANGED <<known, forgeVars>>

TakeMerge(o) ==
    /\ Answered(o, "merge")
    /\ Return(o, "merged")
    /\ UNCHANGED <<known, forgeVars>>

(* Faulty variant: the newest review is submitted. *)
TakeReview_Newest(o) ==
    /\ Answered(o, "create_review")
    /\ Ask(o, "submit_review", Len(reviews))
    /\ UNCHANGED <<known, forgeVars>>

(* forgejo_pull_review: the submit names the review the create returned. *)
TakeReview(o) ==
    /\ Answered(o, "create_review")
    /\ Ask(o, "submit_review", wire[o].value)
    /\ UNCHANGED <<known, forgeVars>>

TakeSubmit(o) ==
    /\ Answered(o, "submit_review")
    /\ Return(o, "ok")
    /\ UNCHANGED <<known, forgeVars>>

(* Faulty variants: only the first request is bounded; a timeout is told   *)
(* like a refusal, "unknown" being the kind of status 0.                   *)
Fail_FirstOnly(o) ==
    /\ pc[o] \in {"pull", "is_merged", "create_review"}
    /\ pc' = [pc EXCEPT ![o] = "done"]
    /\ outcome' = [outcome EXCEPT ![o] = "transient"]
    /\ UNCHANGED <<wire, known, forgeVars>>

Fail_KindOfZero(o) ==
    /\ pc[o] \in Requests
    /\ pc' = [pc EXCEPT ![o] = "done"]
    /\ outcome' = [outcome EXCEPT ![o] = "unknown"]
    /\ UNCHANGED <<wire, known, forgeVars>>

(* The request in hand failed or timed out; it may still be on the wire. *)
Fail(o) ==
    /\ pc[o] \in Requests
    /\ pc' = [pc EXCEPT ![o] = "done"]
    /\ outcome' = [outcome EXCEPT ![o] = "transient"]
    /\ UNCHANGED <<wire, known, forgeVars>>

-----------------------------------------------------------------------------
(* Forgejo, the network, and everybody else. *)

(* The pull request is open until it is merged; then it is closed. *)
Reply(o, res, value) ==
    /\ wire' = [wire EXCEPT ![o].at = "answer", ![o].res = res, ![o].value = value,
                            ![o].state = IF mergedBy = "nobody" THEN "open" ELSE "merged"]
    /\ UNCHANGED <<pc, known, outcome>>

Requested(o, req) == wire[o].at = "request" /\ wire[o].req = req

ServeRead(o) ==
    /\ wire[o].at = "request"
    /\ \/ wire[o].req \in {"pull", "files", "is_merged"} /\ Reply(o, "ok", head)
       \/ wire[o].req = "status" /\ Reply(o, "ok", wire[o].arg)
    /\ UNCHANGED forgeVars

(* Having done a write, Forgejo may still answer 5xx, or 2xx with a body   *)
(* the client cannot decode (a merge's body is not decoded).               *)
ServeMerge(o) ==
    /\ Requested(o, "merge")
    /\ mergedBy = "nobody"
    /\ mergedBy' = o
    /\ \E res \in {"ok", "transient"} : Reply(o, res, 0)
    /\ UNCHANGED <<head, reviews>>

ServeCreateReview(o) ==
    /\ Requested(o, "create_review")
    /\ reviews' = Append(reviews, [by |-> o, submitter |-> "nobody"])
    /\ \E res \in {"ok", "transient", "validation"} : Reply(o, res, Len(reviews) + 1)
    /\ UNCHANGED <<head, mergedBy>>

ServeSubmitReview(o) ==
    /\ Requested(o, "submit_review")
    /\ wire[o].arg \in DOMAIN reviews
    /\ reviews[wire[o].arg].submitter = "nobody"
    /\ reviews' = [reviews EXCEPT ![wire[o].arg].submitter = o]
    /\ \E res \in {"ok", "transient", "validation"} : Reply(o, res, 0)
    /\ UNCHANGED <<head, mergedBy>>

(* Any request may be refused; "unknown" is 405, Forgejo's answer to a     *)
(* merge of what is merged or not mergeable.                               *)
Refuse(o) ==
    /\ wire[o].at = "request"
    /\ \E res \in {"unknown", "transient"} : Reply(o, res, 0)
    /\ UNCHANGED forgeVars

Drop(o) ==
    /\ wire[o].at \in {"request", "answer"}
    /\ wire' = [wire EXCEPT ![o].at = "lost"]
    /\ UNCHANGED <<pc, known, outcome, forgeVars>>

(* A push after the merge is no longer to this pull request. *)
Push ==
    /\ mergedBy = "nobody"
    /\ head <= MaxPushes
    /\ head' = head + 1
    /\ UNCHANGED <<pc, wire, known, outcome, mergedBy, reviews>>

ForeignMerge ==
    /\ mergedBy = "nobody"
    /\ mergedBy' = "foreign"
    /\ UNCHANGED <<pc, wire, known, outcome, head, reviews>>

-----------------------------------------------------------------------------
Next ==
    \/ \E o \in Ops :
          \/ GetPullRequest(o) \/ MergePullRequest(o) \/ ReviewPullRequest(o)
          \/ TakeError(o) \/ TakePull(o) \/ TakeFiles(o) \/ TakeStatus(o)
          \/ TakeIsMerged(o) \/ TakeMerge(o) \/ TakeReview(o) \/ TakeSubmit(o)
          \/ Fail(o) \/ Drop(o) \/ Refuse(o)
          \/ ServeRead(o) \/ ServeMerge(o) \/ ServeCreateReview(o) \/ ServeSubmitReview(o)
    \/ Push \/ ForeignMerge

Fairness == \A o \in Ops : WF_vars(Fail(o))

Spec == Init /\ [][Next]_vars /\ Fairness

-----------------------------------------------------------------------------
Outcomes == {"none", "ok", "merged", "already_merged"} \cup ErrorKinds

TypeOK ==
    /\ pc \in [Ops -> {"idle", "done"} \cup Requests]
    /\ wire \in [Ops -> [at : {"none", "request", "answer", "read", "lost"},
                         req : {"none"} \cup Requests, arg : Nat,
                         res : {"none", "ok"} \cup ErrorKinds, value : Nat, state : States]]
    /\ known \in [Ops -> Knowledge]
    /\ outcome \in [Ops -> Outcomes]
    /\ head \in 1..(MaxPushes + 1)
    /\ mergedBy \in Ops \cup {"nobody", "foreign"}
    /\ reviews \in Seq([by : Ops, submitter : Ops \cup {"nobody"}])
    /\ \A o \in Ops : pc[o] = "done" <=> outcome[o] # "none"

(* A merge call reports who merged: "merged" if it was this call, "already *)
(* merged" if it was not, and a refusal never hides a merge of its own -   *)
(* although the pull request may be merged by others between the two       *)
(* requests.                                                               *)
MergeCredit ==
    \A o \in Ops : /\ outcome[o] = "merged" => mergedBy = o
                   /\ outcome[o] = "already_merged" => mergedBy \notin {"nobody", o}
                   /\ outcome[o] \in Refusals => mergedBy # o

Shown == {o \in Ops : outcome[o] = "ok" /\ wire[o].req = "status"}

(* The three answers of forgejo_pull_get, read one after the other while   *)
(* others push and merge, make one picture.  The checks are never of a     *)
(* commit that the files shown do not have yet; and a pull request shown   *)
(* as closed comes with the files and the checks it was merged with, since *)
(* its state was read before them.                                         *)
ShownFitsTogether ==
    \A o \in Shown : /\ known[o].checks <= known[o].files
                     /\ known[o].state = "merged" => /\ mergedBy # "nobody"
                                                     /\ known[o].files = head
                                                     /\ known[o].checks = head

(* Reviews do not get mixed up between concurrent calls: each is submitted *)
(* by the call that created it, a call creates one at most, and a call     *)
(* that returned success has submitted it.  A review left pending belongs  *)
(* to a call that is still running or reported an error.                   *)
ReviewsOf(o) == {i \in DOMAIN reviews : reviews[i].by = o}

ReviewsBelongToTheirCalls ==
    /\ \A i \in DOMAIN reviews : reviews[i].submitter \in {"nobody", reviews[i].by}
    /\ \A o \in Ops : /\ Cardinality(ReviewsOf(o)) <= 1
                      /\ outcome[o] = "ok" /\ wire[o].req \notin {"pull", "files", "status"}
                           => \E i \in ReviewsOf(o) : reviews[i].submitter = o

(* The tools that write keep the promise of RemoteCall, with their two     *)
(* requests, and whatever is merged or submitted late: a call merges or    *)
(* submits once at most, "merged" and "ok" stand for that, a refusal and   *)
(* "already merged" for nothing done, then or later.  (A review only       *)
(* created does not count; ReviewsBelongToTheirCalls says whose it is.)    *)
Reads == {"pull", "files", "status"}

Submits(o) == {i \in DOMAIN reviews : reviews[i].submitter = o}
Effects(o) == Cardinality(Submits(o)) + (IF mergedBy = o THEN 1 ELSE 0)

Report(o) ==
    CASE wire[o].req \in Reads \/ outcome[o] = "none" -> "none"
      [] wire[o].req \notin Reads /\ outcome[o] \in {"ok", "merged"} -> "done"
      [] wire[o].req \notin Reads /\ outcome[o] \in Refusals \cup {"already_merged"} -> "refused"
      [] wire[o].req \notin Reads /\ outcome[o] \in Undecided -> "undecided"

Promise == INSTANCE RemoteCall WITH
    Calls <- Ops,
    executed <- [o \in Ops |-> Effects(o)],
    report <- [o \in Ops |-> Report(o)]

KeepsPromise == Promise!Spec

(* Every tool call returns, however many requests it makes and however few *)
(* Forgejo answers.                                                        *)
EveryToolReturns == \A o \in Ops : pc[o] \in Requests ~> pc[o] = "done"
=============================================================================
