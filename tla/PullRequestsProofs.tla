-------------------------- MODULE PullRequestsProofs --------------------------
(***************************************************************************)
(* Proofs about PullRequests for every set of tool calls and any number of *)
(* pushes.                                                                 *)
(*                                                                         *)
(* What a call reports rests on an answer that travelled for a while, and  *)
(* on what earlier answers made it ask.  MergeInv, ShownInv and ReviewInv  *)
(* say of each request and each answer on the wire what it tells about the *)
(* merge, the head and the reviews, now, and not only when it was sent.    *)
(***************************************************************************)
EXTENDS PullRequests, FiniteSetTheorems, TLAPS

Wires == [at : {"none", "request", "answer", "read", "lost"},
          req : {"none"} \cup Requests, arg : Nat,
          res : {"none", "ok"} \cup ErrorKinds, value : Nat, state : States]

Pending(o) == wire[o].at \in {"request", "answer"}

CallInv(o) ==
    /\ Pending(o) => pc[o] \in {wire[o].req, "done"} /\ wire[o].req # "none"
    /\ pc[o] = "idle" => wire[o].at = "none"
    /\ pc[o] \in Requests => wire[o].req = pc[o]
    /\ wire[o].at = "answer" => wire[o].res # "none"
    /\ outcome[o] \in Refusals \cup {"ok"} => ~ Pending(o)

(* Until its merge can have been carried out, the merge is not o's. *)
Unmerged(o) ==
    \/ pc[o] = "idle"
    \/ wire[o].at = "request"
    \/ wire[o].at = "answer" /\ (wire[o].req # "merge" \/ wire[o].res \in Refusals)

MergeInv(o) ==
    /\ Unmerged(o) => mergedBy # o
    /\ wire[o].at = "answer" /\ wire[o].req = "is_merged" /\ wire[o].res = "ok"
           /\ wire[o].state = "merged" => mergedBy # "nobody"
    /\ wire[o].at = "answer" /\ wire[o].req = "merge" /\ wire[o].res = "ok" => mergedBy = o
    /\ outcome[o] = "merged" => mergedBy = o
    /\ outcome[o] = "already_merged" => mergedBy \notin {"nobody", o}
    /\ outcome[o] \in Refusals => mergedBy # o

(* Once the pull request was seen merged, its head stays where it is.      *)
Frozen(o) == known[o].state = "merged"

ShownInv(o) ==
    /\ known[o].head <= head
    /\ Frozen(o) => mergedBy # "nobody" /\ known[o].head = head
    /\ wire[o].at = "answer" /\ wire[o].req = "pull" /\ wire[o].res = "ok" =>
           /\ wire[o].value <= head
           /\ wire[o].state = "merged" => mergedBy # "nobody" /\ wire[o].value = head
    /\ wire[o].at = "answer" /\ wire[o].req = "files" /\ wire[o].res = "ok" =>
           /\ known[o].head <= wire[o].value
           /\ Frozen(o) => wire[o].value = head
    /\ Pending(o) /\ wire[o].req = "status" =>
           /\ wire[o].arg = known[o].head
           /\ known[o].head <= known[o].files
           /\ Frozen(o) => known[o].files = head
    /\ wire[o].at = "answer" /\ wire[o].req = "status" /\ wire[o].res = "ok" =>
           wire[o].value = wire[o].arg
    /\ o \in Shown =>
           /\ known[o].checks = known[o].head
           /\ known[o].head <= known[o].files
           /\ Frozen(o) => known[o].files = head

(* The review was submitted: the answer is on its way, or was reported. *)
Submitted(o) ==
    \/ wire[o].at = "answer" /\ wire[o].req = "submit_review" /\ wire[o].res = "ok"
    \/ outcome[o] = "ok" /\ wire[o].req \notin Reads

ReviewInv(o) ==
    /\ pc[o] = "idle" \/ (wire[o].at = "request" /\ wire[o].req = "create_review") =>
           ReviewsOf(o) = {}
    /\ ReviewsOf(o) = {} \/ \E i \in DOMAIN reviews : ReviewsOf(o) = {i}
    /\ wire[o].at = "answer" /\ wire[o].req = "create_review" /\ wire[o].res = "ok" =>
           wire[o].value \in ReviewsOf(o)
    /\ wire[o].at = "request" /\ wire[o].req = "submit_review" => wire[o].arg \in ReviewsOf(o)
    /\ Submitted(o) =>
           \E i \in ReviewsOf(o) : reviews[i].submitter = o

IInv ==
    /\ TypeOK
    /\ \A o \in Ops : CallInv(o) /\ MergeInv(o) /\ ShownInv(o) /\ ReviewInv(o)
    /\ \A i \in DOMAIN reviews : reviews[i].submitter \in {"nobody", reviews[i].by}

-----------------------------------------------------------------------------
LEMMA InitInv == Init => IInv
  <1>. SUFFICES ASSUME Init PROVE IInv
    OBVIOUS
  <1>1. Wire("none", "none", 0) \in Wires
    BY DEF Wire, Wires, States
  <1>2. Nothing \in Knowledge
    BY DEF Nothing, Knowledge, States
  <1>3. TypeOK
    BY <1>1, <1>2, PullAssumption DEF Init, TypeOK, Wires, Outcomes
  <1>4. ASSUME NEW o \in Ops PROVE CallInv(o) /\ MergeInv(o) /\ ShownInv(o) /\ ReviewInv(o)
    <2>1. /\ pc[o] = "idle" /\ wire[o].at = "none" /\ outcome[o] = "none"
          /\ known[o].head = 0 /\ known[o].state = "none" /\ head = 1 /\ ReviewsOf(o) = {} /\ mergedBy # o
      BY PullAssumption DEF Init, Wire, Nothing, ReviewsOf
    <2>2. "none" \notin Refusals /\ "idle" \notin Requests
      BY DEF Refusals, ErrorKinds, Requests
    <2>. QED  BY <2>1, <2>2 DEF CallInv, Pending, MergeInv, ShownInv, Frozen, Shown, ReviewInv,
                              Submitted
  <1>. QED  BY <1>3, <1>4 DEF Init, IInv

Untouched(d) ==
    pc'[d] = pc[d] /\ wire'[d] = wire[d] /\ known'[d] = known[d] /\ outcome'[d] = outcome[d]

(* A call is not disturbed by what others do to the pull request.          *)
LEMMA OthersKeepInv ==
    ASSUME IInv, NEW d \in Ops, Untouched(d),
           head' \in {head, head + 1}, mergedBy # "nobody" => head' = head,
           \/ UNCHANGED mergedBy
           \/ mergedBy = "nobody" /\ mergedBy' # "nobody" /\ mergedBy' # d,
           ReviewsOf(d)' = ReviewsOf(d), ReviewsOf(d) \subseteq DOMAIN reviews',
           \A i \in ReviewsOf(d) : reviews[i].submitter = d => reviews'[i].submitter = d
    PROVE  CallInv(d)' /\ MergeInv(d)' /\ ShownInv(d)' /\ ReviewInv(d)'
  <1>1. CallInv(d) /\ MergeInv(d) /\ ShownInv(d) /\ ReviewInv(d) /\ d # "nobody"
    BY PullAssumption DEF IInv
  <1>2. CallInv(d)'
    BY <1>1 DEF CallInv, Pending, Untouched
  <1>3. MergeInv(d)'
    BY <1>1 DEF MergeInv, Unmerged, Untouched
  <1>4. ShownInv(d)'
    <2>1. head \in Nat /\ known[d].head \in Nat /\ wire[d].value \in Nat
      BY DEF IInv, TypeOK, Knowledge
    <2>2. (known[d].head <= head => known[d].head <= head')
          /\ (wire[d].value <= head => wire[d].value <= head')
      BY <2>1
    <2>. QED  BY <1>1, <2>2 DEF ShownInv, Frozen, Shown, Pending, Untouched
  <1>5. ReviewInv(d)'
    BY <1>1 DEF ReviewInv, Submitted, Untouched
  <1>. QED  BY <1>2, <1>3, <1>4, <1>5

(* Steps of one tool call that leave the pull request as it is.            *)
LEMMA QuietStep ==
    ASSUME IInv, NEW o \in Ops, UNCHANGED forgeVars, TypeOK',
           \A d \in Ops \ {o} : Untouched(d),
           (CallInv(o) /\ MergeInv(o) /\ ShownInv(o) /\ ReviewInv(o))'
    PROVE  IInv'
  <1>1. UNCHANGED <<head, mergedBy, reviews>> /\ \A d \in Ops : ReviewsOf(d)' = ReviewsOf(d)
    BY DEF forgeVars, ReviewsOf
  <1>2. ASSUME NEW d \in Ops \ {o}
        PROVE  CallInv(d)' /\ MergeInv(d)' /\ ShownInv(d)' /\ ReviewInv(d)'
    <2>1. ReviewsOf(d) \subseteq DOMAIN reviews'
      BY <1>1 DEF ReviewsOf
    <2>. QED  BY <1>1, <2>1, OthersKeepInv
  <1>. QED  BY <1>1, <1>2 DEF IInv

-----------------------------------------------------------------------------
(* A tool call asks its first or its next request.                         *)
LEMMA AskKeepsInv ==
    ASSUME IInv, NEW o \in Ops, NEW req \in Requests, NEW arg \in Nat, Ask(o, req, arg),
           pc[o] # "done", Unmerged(o), UNCHANGED forgeVars,
           known' \in [Ops -> Knowledge],
           \A d \in Ops \ {o} : known'[d] = known[d],
           known'[o].head <= head,
           Frozen(o)' => mergedBy # "nobody" /\ known'[o].head = head,
           req = "status" => /\ arg = known'[o].head /\ known'[o].head <= known'[o].files
                             /\ Frozen(o)' => known'[o].files = head,
           req = "create_review" => ReviewsOf(o) = {},
           req = "submit_review" => arg \in ReviewsOf(o)
    PROVE  IInv'
  <1>1. /\ TypeOK /\ CallInv(o) /\ MergeInv(o) /\ ReviewInv(o) /\ outcome[o] = "none"
        /\ req \notin {"idle", "done", "none"}
    BY DEF IInv, TypeOK, Requests
  <1>2. Wire("request", req, arg) \in Wires
    BY DEF Wire, Wires, States
  <1>3. /\ pc' = [pc EXCEPT ![o] = req] /\ UNCHANGED <<outcome, head, mergedBy, reviews>>
        /\ wire' = [wire EXCEPT ![o] = Wire("request", req, arg)]
    BY DEF Ask, forgeVars
  <1>4. TypeOK'
    <2>1. wire' \in [Ops -> Wires]
      BY <1>1, <1>2, <1>3 DEF TypeOK, Wires
    <2>. QED  BY <1>1, <1>3, <2>1 DEF TypeOK, Wires
  <1>5. \A d \in Ops \ {o} : Untouched(d)
    BY <1>1, <1>3 DEF TypeOK, Untouched
  <1>6. /\ pc'[o] = req /\ wire'[o].at = "request" /\ wire'[o].req = req /\ wire'[o].arg = arg
    BY <1>1, <1>3 DEF TypeOK, Wire
  <1>7. "none" \notin Refusals /\ ReviewsOf(o)' = ReviewsOf(o)
    BY <1>3 DEF Refusals, ErrorKinds, ReviewsOf
  <1>8. CallInv(o)'
    BY <1>1, <1>3, <1>6, <1>7 DEF CallInv, Pending
  <1>9. MergeInv(o)'
    BY <1>1, <1>3, <1>6, <1>7 DEF MergeInv, Unmerged
  <1>10. ShownInv(o)'
    BY <1>1, <1>3, <1>6 DEF ShownInv, Frozen, Shown, Pending
  <1>11. ReviewInv(o)'
    BY <1>1, <1>3, <1>6, <1>7 DEF ReviewInv, Submitted
  <1>. QED  BY <1>4, <1>5, <1>8, <1>9, <1>10, <1>11, QuietStep

(* A tool call returns what its last answer said.                          *)
LEMMA ReturnKeepsInv ==
    ASSUME IInv, NEW o \in Ops, NEW result \in Outcomes, result # "none", Return(o, result),
           pc[o] \in Requests, UNCHANGED forgeVars,
           known' \in [Ops -> Knowledge],
           \A d \in Ops \ {o} : known'[d] = known[d],
           known'[o].head = known[o].head, known'[o].state = known[o].state,
           result = "merged" => mergedBy = o,
           result = "already_merged" => mergedBy \notin {"nobody", o},
           result \in Refusals => mergedBy # o,
           result = "ok" /\ pc[o] = "status" =>
               /\ known'[o].checks = known'[o].head /\ known'[o].head <= known'[o].files
               /\ Frozen(o)' => known'[o].files = head,
           result = "ok" /\ pc[o] \notin Reads =>
               \E i \in ReviewsOf(o) : reviews[i].submitter = o
    PROVE  IInv'
  <1>1. /\ TypeOK /\ CallInv(o) /\ MergeInv(o) /\ ShownInv(o) /\ ReviewInv(o)
        /\ wire[o].req = pc[o]
    BY DEF IInv, CallInv
  <1>2. /\ pc' = [pc EXCEPT ![o] = "done"] /\ wire' = [wire EXCEPT ![o].at = "read"]
        /\ outcome' = [outcome EXCEPT ![o] = result] /\ UNCHANGED <<head, mergedBy, reviews>>
    BY DEF Return, forgeVars
  <1>3. TypeOK'
    <2>1. wire' \in [Ops -> Wires]
      <3>1. wire \in [Ops -> Wires]
        BY <1>1 DEF TypeOK, Wires
      <3>2. [wire[o] EXCEPT !.at = "read"] \in Wires
        BY <3>1 DEF Wires
      <3>3. wire' = [wire EXCEPT ![o] = [wire[o] EXCEPT !.at = "read"]]
        BY <1>2
      <3>. QED  BY <3>1, <3>2, <3>3
    <2>2. \A d \in Ops : pc'[d] = "done" <=> outcome'[d] # "none"
      BY <1>1, <1>2 DEF TypeOK
    <2>3. pc' \in [Ops -> {"idle", "done"} \cup Requests] /\ outcome' \in [Ops -> Outcomes]
      BY <1>1, <1>2 DEF TypeOK
    <2>. QED  BY <1>1, <1>2, <2>1, <2>2, <2>3 DEF TypeOK, Wires
  <1>4. \A d \in Ops \ {o} : Untouched(d)
    BY <1>1, <1>2 DEF TypeOK, Untouched
  <1>5. /\ pc'[o] = "done" /\ outcome'[o] = result
        /\ wire'[o].at = "read" /\ wire'[o].req = pc[o]
    BY <1>1, <1>2 DEF TypeOK
  <1>6. ReviewsOf(o)' = ReviewsOf(o) /\ "done" \notin Requests
    BY <1>2 DEF ReviewsOf, Requests
  <1>7. CallInv(o)'
    BY <1>5, <1>6 DEF CallInv, Pending
  <1>8. MergeInv(o)'
    BY <1>2, <1>5 DEF MergeInv, Unmerged
  <1>9. ShownInv(o)'
    BY <1>1, <1>2, <1>5 DEF ShownInv, Frozen, Shown, Pending
  <1>10. ReviewInv(o)'
    BY <1>1, <1>2, <1>5, <1>6 DEF ReviewInv, Submitted
  <1>. QED  BY <1>3, <1>4, <1>7, <1>8, <1>9, <1>10, QuietStep

(* A tool call ends undecided, its request still on the wire, or unasked.  *)
LEMMA EndKeepsInv ==
    ASSUME IInv, NEW o \in Ops, NEW result \in Undecided, pc[o] # "done",
           pc' = [pc EXCEPT ![o] = "done"], outcome' = [outcome EXCEPT ![o] = result],
           UNCHANGED <<wire, known, forgeVars>>
    PROVE  IInv'
  <1>1. /\ TypeOK /\ CallInv(o) /\ MergeInv(o) /\ ShownInv(o) /\ ReviewInv(o)
        /\ UNCHANGED <<wire, known, head, mergedBy, reviews>>
    BY DEF IInv, forgeVars
  <1>2. /\ result \in Outcomes /\ result \notin Refusals
        /\ result \notin {"none", "ok", "merged", "already_merged"}
    BY DEF Outcomes, ErrorKinds, Undecided, Refusals
  <1>3. TypeOK'
    BY <1>1, <1>2 DEF TypeOK
  <1>4. \A d \in Ops \ {o} : Untouched(d)
    BY <1>1 DEF TypeOK, Untouched
  <1>5. pc'[o] = "done" /\ outcome'[o] = result /\ wire'[o] = wire[o] /\ known'[o] = known[o]
    BY <1>1 DEF TypeOK
  <1>6. ReviewsOf(o)' = ReviewsOf(o) /\ "done" \notin Requests
    BY <1>1 DEF ReviewsOf, Requests
  <1>7. CallInv(o)'
    BY <1>1, <1>2, <1>5, <1>6 DEF CallInv, Pending
  <1>8. MergeInv(o)'
    BY <1>1, <1>2, <1>5 DEF MergeInv, Unmerged
  <1>9. ShownInv(o)'
    BY <1>1, <1>2, <1>5 DEF ShownInv, Frozen, Shown, Pending
  <1>10. ReviewInv(o)'
    BY <1>1, <1>2, <1>5, <1>6 DEF ReviewInv, Submitted
  <1>. QED  BY <1>3, <1>4, <1>7, <1>8, <1>9, <1>10, QuietStep

-----------------------------------------------------------------------------
(* The steps of the tools. *)
LEMMA StartKeepsInv ==
    ASSUME IInv, NEW o \in Ops, NEW req \in {"pull", "is_merged", "create_review"}, Start(o, req)
    PROVE  IInv'
  <1>1. /\ pc[o] = "idle" /\ Ask(o, req, 0) /\ UNCHANGED <<known, forgeVars>> /\ req \in Requests
    BY DEF Start, Requests
  <1>2. /\ Unmerged(o) /\ ReviewsOf(o) = {} /\ known[o].head <= head
        /\ Frozen(o)' => mergedBy # "nobody" /\ known[o].head = head
        /\ known \in [Ops -> Knowledge]
    BY <1>1 DEF IInv, TypeOK, Unmerged, ReviewInv, ShownInv, Frozen
  <1>. QED  BY <1>1, <1>2, AskKeepsInv

LEMMA RejectKeepsInv ==
    ASSUME IInv, NEW o \in Ops, Reject(o)
    PROVE  IInv'
  BY EndKeepsInv DEF Reject, Undecided

LEMMA FailKeepsInv ==
    ASSUME IInv, NEW o \in Ops, Fail(o)
    PROVE  IInv'
  BY EndKeepsInv DEF Fail, Undecided, Requests

(* What an answer to the request in hand is worth.                         *)
LEMMA AnswerInHand ==
    ASSUME IInv, NEW o \in Ops, pc[o] \in Requests, wire[o].at = "answer"
    PROVE  /\ TypeOK /\ MergeInv(o) /\ ShownInv(o) /\ ReviewInv(o) /\ Pending(o)
           /\ wire[o].req = pc[o] /\ pc[o] \notin {"idle", "done"}
           /\ wire[o].res # "none" /\ wire[o] \in Wires
           /\ known \in [Ops -> Knowledge]
  BY DEF IInv, CallInv, Pending, TypeOK, Wires, Requests

LEMMA TakeErrorKeepsInv ==
    ASSUME IInv, NEW o \in Ops, TakeError(o)
    PROVE  IInv'
  <1>1. pc[o] \in Requests /\ wire[o].at = "answer" /\ wire[o].res # "ok"
    BY DEF TakeError
  <1>2. wire[o].res \in ErrorKinds /\ wire[o].res \in Outcomes
        /\ wire[o].res \notin {"none", "ok", "merged", "already_merged"}
    BY <1>1, AnswerInHand DEF Wires, Outcomes, ErrorKinds
  <1>3. wire[o].res \in Refusals => mergedBy # o
    BY <1>1, AnswerInHand DEF MergeInv, Unmerged
  <1>. QED  BY <1>1, <1>2, <1>3, AnswerInHand, ReturnKeepsInv DEF TakeError

LEMMA TakePullKeepsInv ==
    ASSUME IInv, NEW o \in Ops, TakePull(o)
    PROVE  IInv'
  <1>1. /\ pc[o] = "pull" /\ pc[o] \in Requests /\ wire[o].at = "answer"
        /\ known' = [known EXCEPT ![o].head = wire[o].value, ![o].state = wire[o].state]
        /\ wire[o].res = "ok"
    BY DEF TakePull, Answered, Requests
  <1>2. /\ known' \in [Ops -> Knowledge]
        /\ \A d \in Ops \ {o} : known'[d] = known[d]
        /\ known'[o].head = wire[o].value /\ known'[o].state = wire[o].state
    BY <1>1, AnswerInHand DEF Wires, Knowledge
  <1>3. /\ wire[o].value <= head /\ Unmerged(o)
        /\ Frozen(o)' => mergedBy # "nobody" /\ known'[o].head = head
    BY <1>1, <1>2, AnswerInHand DEF ShownInv, Unmerged, Frozen
  <1>4. "files" \in Requests /\ 0 \in Nat
    BY DEF Requests
  <1>. QED  BY <1>1, <1>2, <1>3, <1>4, AskKeepsInv DEF TakePull

LEMMA TakeFilesKeepsInv ==
    ASSUME IInv, NEW o \in Ops, TakeFiles(o)
    PROVE  IInv'
  <1>1. /\ pc[o] = "files" /\ pc[o] \in Requests /\ wire[o].at = "answer" /\ wire[o].res = "ok"
        /\ known' = [known EXCEPT ![o].files = wire[o].value]
    BY DEF TakeFiles, Answered, Requests
  <1>2. /\ known' \in [Ops -> Knowledge]
        /\ \A d \in Ops \ {o} : known'[d] = known[d]
        /\ known'[o].head = known[o].head /\ known'[o].files = wire[o].value
        /\ known'[o].state = known[o].state /\ known[o].head \in Nat
    BY <1>1, AnswerInHand DEF Wires, Knowledge
  <1>3. /\ known[o].head <= wire[o].value /\ known[o].head <= head /\ Unmerged(o)
        /\ Frozen(o)' => /\ mergedBy # "nobody" /\ known[o].head = head
                         /\ wire[o].value = head
    BY <1>1, <1>2, AnswerInHand DEF ShownInv, Unmerged, Frozen
  <1>4. "status" \in Requests
    BY DEF Requests
  <1>. QED  BY <1>1, <1>2, <1>3, <1>4, AskKeepsInv DEF TakeFiles

LEMMA TakeStatusKeepsInv ==
    ASSUME IInv, NEW o \in Ops, TakeStatus(o)
    PROVE  IInv'
  <1>1. /\ pc[o] = "status" /\ pc[o] \in Requests /\ wire[o].at = "answer" /\ wire[o].res = "ok"
        /\ known' = [known EXCEPT ![o].checks = wire[o].value]
    BY DEF TakeStatus, Answered, Requests
  <1>2. /\ known' \in [Ops -> Knowledge]
        /\ \A d \in Ops \ {o} : known'[d] = known[d]
        /\ known'[o].head = known[o].head /\ known'[o].files = known[o].files
        /\ known'[o].checks = wire[o].value /\ known'[o].state = known[o].state
    BY <1>1, AnswerInHand DEF Wires, Knowledge
  <1>3. /\ wire[o].value = known[o].head /\ known[o].head <= known[o].files
        /\ Frozen(o)' => known[o].files = head
    BY <1>1, <1>2, AnswerInHand DEF ShownInv, Frozen
  <1>4. "ok" \in Outcomes /\ "ok" \notin Refusals /\ "status" \in Reads
    BY DEF Outcomes, Refusals, ErrorKinds, Reads
  <1>. QED  BY <1>1, <1>2, <1>3, <1>4, ReturnKeepsInv DEF TakeStatus

LEMMA TakeIsMergedKeepsInv ==
    ASSUME IInv, NEW o \in Ops, TakeIsMerged(o)
    PROVE  IInv'
  <1>1. /\ pc[o] = "is_merged" /\ pc[o] \in Requests /\ wire[o].at = "answer"
        /\ wire[o].res = "ok" /\ UNCHANGED known
    BY DEF TakeIsMerged, Answered, Requests
  <1>2. /\ Unmerged(o) /\ mergedBy # o /\ known[o].head <= head
        /\ Frozen(o)' => mergedBy # "nobody" /\ known[o].head = head
    BY <1>1, AnswerInHand DEF MergeInv, Unmerged, ShownInv, Frozen
  <1>3. CASE wire[o].state = "merged" /\ Return(o, "already_merged")
    <2>1. mergedBy # "nobody"
      BY <1>1, <1>3, AnswerInHand DEF MergeInv
    <2>2. "already_merged" \in Outcomes /\ "already_merged" \notin Refusals
      BY DEF Outcomes, Refusals, ErrorKinds
    <2>. QED  BY <1>1, <1>2, <1>3, <2>1, <2>2, AnswerInHand, ReturnKeepsInv DEF TakeIsMerged
  <1>4. CASE Ask(o, "merge", 0)
    <2>1. "merge" \in Requests /\ 0 \in Nat
      BY DEF Requests
    <2>. QED  BY <1>1, <1>2, <1>4, <2>1, AnswerInHand, AskKeepsInv DEF TakeIsMerged
  <1>. QED  BY <1>3, <1>4 DEF TakeIsMerged

LEMMA TakeMergeKeepsInv ==
    ASSUME IInv, NEW o \in Ops, TakeMerge(o)
    PROVE  IInv'
  <1>1. /\ pc[o] = "merge" /\ pc[o] \in Requests /\ wire[o].at = "answer" /\ wire[o].res = "ok"
    BY DEF TakeMerge, Answered, Requests
  <1>2. mergedBy = o
    BY <1>1, AnswerInHand DEF MergeInv
  <1>3. "merged" \in Outcomes /\ "merged" \notin Refusals
    BY DEF Outcomes, Refusals, ErrorKinds
  <1>. QED  BY <1>1, <1>2, <1>3, AnswerInHand, ReturnKeepsInv DEF TakeMerge

LEMMA TakeReviewKeepsInv ==
    ASSUME IInv, NEW o \in Ops, TakeReview(o)
    PROVE  IInv'
  <1>1. /\ pc[o] = "create_review" /\ pc[o] \in Requests /\ wire[o].at = "answer"
        /\ wire[o].res = "ok" /\ UNCHANGED known
    BY DEF TakeReview, Answered, Requests
  <1>2. /\ wire[o].value \in ReviewsOf(o) /\ wire[o].value \in Nat /\ Unmerged(o)
        /\ known[o].head <= head
        /\ Frozen(o)' => mergedBy # "nobody" /\ known[o].head = head
    BY <1>1, AnswerInHand DEF ReviewInv, Wires, Unmerged, ShownInv, Frozen
  <1>3. "submit_review" \in Requests
    BY DEF Requests
  <1>. QED  BY <1>1, <1>2, <1>3, AnswerInHand, AskKeepsInv DEF TakeReview

LEMMA TakeSubmitKeepsInv ==
    ASSUME IInv, NEW o \in Ops, TakeSubmit(o)
    PROVE  IInv'
  <1>1. /\ pc[o] = "submit_review" /\ pc[o] \in Requests /\ wire[o].at = "answer"
        /\ wire[o].res = "ok"
    BY DEF TakeSubmit, Answered, Requests
  <1>2. \E i \in ReviewsOf(o) : reviews[i].submitter = o
    BY <1>1, AnswerInHand DEF ReviewInv, Submitted
  <1>3. "ok" \in Outcomes /\ "ok" \notin Refusals
    BY DEF Outcomes, Refusals, ErrorKinds
  <1>. QED  BY <1>1, <1>2, <1>3, AnswerInHand, ReturnKeepsInv DEF TakeSubmit

-----------------------------------------------------------------------------
(* Forgejo and the network. *)
LEMMA ReplyType ==
    ASSUME TypeOK, NEW o \in Ops, NEW res \in {"ok"} \cup ErrorKinds, NEW value \in Nat,
           Reply(o, res, value)
    PROVE  /\ wire' \in [Ops -> Wires]
           /\ wire'[o].at = "answer" /\ wire'[o].res = res /\ wire'[o].value = value
           /\ wire'[o].req = wire[o].req /\ wire'[o].arg = wire[o].arg
           /\ wire'[o].state = "merged" => mergedBy # "nobody"
           /\ \A d \in Ops \ {o} : Untouched(d)
           /\ UNCHANGED <<pc, known, outcome>>
  <1>1. wire \in [Ops -> Wires]
    BY DEF TypeOK, Wires
  <1>. DEFINE now == IF mergedBy = "nobody" THEN "open" ELSE "merged"
              answer == [wire[o] EXCEPT !.at = "answer", !.res = res, !.value = value,
                                        !.state = now]
  <1>2. now \in States /\ (now = "merged" => mergedBy # "nobody")
    BY DEF States
  <1>3. wire' = [wire EXCEPT ![o] = answer]
    BY <1>1 DEF Reply
  <1>4. answer \in Wires
    <2>. HIDE DEF now
    <2>. QED  BY <1>1, <1>2 DEF Wires
  <1>5. /\ wire'[o].at = "answer" /\ wire'[o].res = res /\ wire'[o].value = value
        /\ wire'[o].req = wire[o].req /\ wire'[o].arg = wire[o].arg /\ wire'[o].state = now
    <2>. HIDE DEF now
    <2>. QED  BY <1>1, <1>3 DEF Wires
  <1>6. wire' \in [Ops -> Wires] /\ \A d \in Ops \ {o} : wire'[d] = wire[d]
    <2>. HIDE DEF answer
    <2>. QED  BY <1>1, <1>3, <1>4
  <1>. QED  BY <1>2, <1>5, <1>6 DEF Reply, Untouched

(* What a request on the wire says of its call. *)
LEMMA RequestOnWire ==
    ASSUME IInv, NEW o \in Ops, wire[o].at = "request"
    PROVE  /\ TypeOK /\ CallInv(o) /\ MergeInv(o) /\ ShownInv(o) /\ ReviewInv(o)
           /\ Pending(o) /\ Unmerged(o) /\ mergedBy # o /\ wire[o].req \in Requests
           /\ outcome[o] \notin Refusals /\ outcome[o] # "ok" /\ outcome[o] # "merged"
           /\ pc[o] # "idle" /\ head \in Nat
  <1>1. /\ TypeOK /\ CallInv(o) /\ MergeInv(o) /\ ShownInv(o) /\ ReviewInv(o)
        /\ Pending(o) /\ Unmerged(o)
    BY DEF IInv, Pending, Unmerged
  <1>2. head \in Nat /\ wire[o].req \in {"none"} \cup Requests
    BY DEF IInv, TypeOK
  <1>3. /\ wire[o].req # "none" /\ pc[o] # "idle"
        /\ outcome[o] \notin Refusals /\ outcome[o] # "ok"
    BY <1>1 DEF CallInv
  <1>4. mergedBy # o /\ outcome[o] # "merged"
    BY <1>1 DEF MergeInv
  <1>. QED  BY <1>1, <1>2, <1>3, <1>4

(* An answer that leaves the pull request as it is.                        *)
LEMMA AnswerKeepsInv ==
    ASSUME IInv, NEW o \in Ops, wire[o].at = "request",
           NEW res \in {"ok"} \cup ErrorKinds, NEW value \in Nat,
           Reply(o, res, value), UNCHANGED forgeVars,
           wire[o].req \in {"pull", "files"} /\ res = "ok" => value = head,
           wire[o].req = "status" /\ res = "ok" => value = wire[o].arg,
           wire[o].req \in {"merge", "create_review", "submit_review"} => res # "ok"
    PROVE  IInv'
  <1>1. UNCHANGED <<head, mergedBy, reviews>> /\ ReviewsOf(o)' = ReviewsOf(o) /\ res # "none"
    BY DEF forgeVars, ReviewsOf, ErrorKinds
  <1>2. TypeOK'
    <2>1. wire' \in [Ops -> Wires] /\ UNCHANGED <<pc, known, outcome>>
      BY RequestOnWire, ReplyType
    <2>. QED  BY <1>1, <2>1 DEF IInv, TypeOK, Wires
  <1>3. CallInv(o)'
    BY <1>1, RequestOnWire, ReplyType DEF CallInv, Pending
  <1>4. MergeInv(o)'
    BY <1>1, RequestOnWire, ReplyType DEF MergeInv, Unmerged
  <1>5. ShownInv(o)'
    BY <1>1, RequestOnWire, ReplyType DEF ShownInv, Frozen, Shown, Pending
  <1>6. ReviewInv(o)'
    BY <1>1, RequestOnWire, ReplyType DEF ReviewInv, Submitted
  <1>. QED  BY <1>2, <1>3, <1>4, <1>5, <1>6, RequestOnWire, ReplyType, QuietStep

LEMMA ServeReadKeepsInv ==
    ASSUME IInv, NEW o \in Ops, ServeRead(o)
    PROVE  IInv'
  <1>1. /\ wire[o].at = "request" /\ UNCHANGED forgeVars
        /\ head \in Nat /\ known[o].head <= head /\ wire[o].arg \in Nat
    BY DEF ServeRead, IInv, TypeOK, ShownInv
  <1>2. CASE wire[o].req \in {"pull", "files", "is_merged"} /\ Reply(o, "ok", head)
    BY <1>1, <1>2, AnswerKeepsInv
  <1>3. CASE wire[o].req = "status" /\ Reply(o, "ok", wire[o].arg)
    BY <1>1, <1>3, AnswerKeepsInv
  <1>. QED  BY <1>2, <1>3 DEF ServeRead

LEMMA RefuseKeepsInv ==
    ASSUME IInv, NEW o \in Ops, Refuse(o)
    PROVE  IInv'
  <1>1. PICK res \in {"unknown", "transient"} : Reply(o, res, 0)
    BY DEF Refuse
  <1>2. res \in {"ok"} \cup ErrorKinds /\ res # "ok"
    BY DEF ErrorKinds
  <1>3. wire[o].at = "request" /\ UNCHANGED forgeVars /\ 0 <= head
    BY DEF Refuse, IInv, TypeOK
  <1>. QED  BY <1>1, <1>2, <1>3, AnswerKeepsInv

LEMMA DropKeepsInv ==
    ASSUME IInv, NEW o \in Ops, Drop(o)
    PROVE  IInv'
  <1>1. /\ TypeOK /\ CallInv(o) /\ MergeInv(o) /\ ShownInv(o) /\ ReviewInv(o) /\ Pending(o)
        /\ wire \in [Ops -> Wires] /\ pc[o] # "idle"
    BY DEF IInv, Drop, Pending, CallInv, TypeOK, Wires
  <1>2. /\ wire' = [wire EXCEPT ![o].at = "lost"]
        /\ UNCHANGED <<pc, known, outcome, head, mergedBy, reviews>>
    BY DEF Drop, forgeVars
  <1>3. [wire[o] EXCEPT !.at = "lost"] \in Wires
    BY <1>1 DEF Wires
  <1>4. wire' \in [Ops -> Wires]
    BY <1>1, <1>2, <1>3
  <1>5. TypeOK'
    BY <1>1, <1>2, <1>4 DEF TypeOK, Wires
  <1>6. \A d \in Ops \ {o} : Untouched(d)
    BY <1>1, <1>2 DEF Untouched
  <1>7. wire'[o].at = "lost" /\ wire'[o].req = wire[o].req /\ ReviewsOf(o)' = ReviewsOf(o)
    BY <1>1, <1>2 DEF ReviewsOf, Wires
  <1>8. CallInv(o)'
    BY <1>1, <1>2, <1>7 DEF CallInv, Pending
  <1>9. MergeInv(o)'
    BY <1>1, <1>2, <1>7 DEF MergeInv, Unmerged
  <1>10. ShownInv(o)'
    BY <1>1, <1>2, <1>7 DEF ShownInv, Frozen, Shown, Pending
  <1>11. ReviewInv(o)'
    BY <1>1, <1>2, <1>7 DEF ReviewInv, Submitted
  <1>. QED  BY <1>2, <1>5, <1>6, <1>8, <1>9, <1>10, <1>11, QuietStep DEF forgeVars

(* The writes: the call's own review or merge, nobody else's.              *)
LEMMA ServeMergeKeepsInv ==
    ASSUME IInv, NEW o \in Ops, ServeMerge(o)
    PROVE  IInv'
  <1>1. /\ wire[o].at = "request" /\ wire[o].req = "merge"
        /\ mergedBy = "nobody" /\ mergedBy' = o /\ UNCHANGED <<head, reviews>>
    BY DEF ServeMerge, Requested
  <1>2. PICK res \in {"ok", "transient"} : Reply(o, res, 0)
    BY DEF ServeMerge
  <1>3. /\ res \in {"ok"} \cup ErrorKinds /\ res \notin Refusals /\ res # "none" /\ o # "nobody"
    BY PullAssumption DEF ErrorKinds, Refusals, Undecided
  <1>4. /\ wire' \in [Ops -> Wires]
        /\ wire'[o].at = "answer" /\ wire'[o].res = res /\ wire'[o].req = "merge"
        /\ \A d \in Ops \ {o} : Untouched(d)
        /\ UNCHANGED <<pc, known, outcome>>
    BY <1>1, <1>2, <1>3, RequestOnWire, ReplyType
  <1>5. \A d \in Ops : ReviewsOf(d)' = ReviewsOf(d) /\ ReviewsOf(d) \subseteq DOMAIN reviews'
    BY <1>1 DEF ReviewsOf
  <1>6. TypeOK'
    BY <1>1, <1>4 DEF IInv, TypeOK, Wires
  <1>7. ASSUME NEW d \in Ops, d # o
        PROVE  CallInv(d)' /\ MergeInv(d)' /\ ShownInv(d)' /\ ReviewInv(d)'
    BY <1>1, <1>3, <1>4, <1>5, <1>7, OthersKeepInv
  <1>8. CallInv(o)' /\ ShownInv(o)' /\ ReviewInv(o)'
    BY <1>1, <1>3, <1>4, <1>5, RequestOnWire
    DEF CallInv, Pending, ShownInv, Frozen, Shown, ReviewInv, Submitted
  <1>9. MergeInv(o)'
    <2>1. outcome[o] # "already_merged"
      BY <1>1, RequestOnWire DEF MergeInv
    <2>. QED  BY <1>1, <1>3, <1>4, <2>1, RequestOnWire DEF MergeInv, Unmerged
  <1>. QED  BY <1>1, <1>6, <1>7, <1>8, <1>9 DEF IInv

LEMMA ServeCreateReviewKeepsInv ==
    ASSUME IInv, NEW o \in Ops, ServeCreateReview(o)
    PROVE  IInv'
  <1>. DEFINE entry == [by |-> o, submitter |-> "nobody"]
              n == Len(reviews) + 1
  <1>1. /\ wire[o].at = "request" /\ wire[o].req = "create_review"
        /\ reviews' = Append(reviews, entry) /\ UNCHANGED <<head, mergedBy>>
    BY DEF ServeCreateReview, Requested
  <1>2. PICK res \in {"ok", "transient", "validation"} : Reply(o, res, n)
    BY DEF ServeCreateReview
  <1>3. /\ res \in {"ok"} \cup ErrorKinds /\ res \notin Refusals /\ res # "none"
        /\ ReviewsOf(o) = {}
    BY <1>1, RequestOnWire DEF ErrorKinds, Refusals, Undecided, ReviewInv
  <1>4. reviews \in Seq([by : Ops, submitter : Ops \cup {"nobody"}]) /\ n \in Nat
    BY <1>1 DEF IInv, TypeOK
  <1>5. /\ reviews' \in Seq([by : Ops, submitter : Ops \cup {"nobody"}])
        /\ DOMAIN reviews' = DOMAIN reviews \cup {n} /\ n \notin DOMAIN reviews
        /\ reviews'[n] = entry /\ \A i \in DOMAIN reviews : reviews'[i] = reviews[i]
    BY <1>1, <1>4
  <1>6. /\ wire' \in [Ops -> Wires]
        /\ wire'[o].at = "answer" /\ wire'[o].res = res /\ wire'[o].value = n
        /\ wire'[o].req = "create_review"
        /\ \A d \in Ops \ {o} : Untouched(d)
        /\ UNCHANGED <<pc, known, outcome>>
    BY <1>1, <1>2, <1>3, <1>4, RequestOnWire, ReplyType
  <1>7. /\ ReviewsOf(o)' = {n}
        /\ \A d \in Ops : d # o => ReviewsOf(d)' = ReviewsOf(d)
    BY <1>3, <1>5 DEF ReviewsOf
  <1>8. TypeOK'
    BY <1>1, <1>5, <1>6 DEF IInv, TypeOK, Wires
  <1>9. ASSUME NEW d \in Ops, d # o
        PROVE  CallInv(d)' /\ MergeInv(d)' /\ ShownInv(d)' /\ ReviewInv(d)'
    <2>1. /\ ReviewsOf(d) \subseteq DOMAIN reviews'
          /\ \A i \in ReviewsOf(d) : reviews[i].submitter = d => reviews'[i].submitter = d
      BY <1>5 DEF ReviewsOf
    <2>. QED  BY <1>1, <1>6, <1>7, <1>9, <2>1, OthersKeepInv
  <1>10. CallInv(o)' /\ MergeInv(o)' /\ ShownInv(o)'
    BY <1>1, <1>3, <1>6, RequestOnWire
    DEF CallInv, Pending, MergeInv, Unmerged, ShownInv, Frozen, Shown
  <1>11. ReviewInv(o)'
    BY <1>1, <1>3, <1>5, <1>6, <1>7, RequestOnWire DEF ReviewInv, Submitted
  <1>12. \A i \in DOMAIN reviews' : reviews'[i].submitter \in {"nobody", reviews'[i].by}
    BY <1>5 DEF IInv
  <1>. QED  BY <1>8, <1>9, <1>10, <1>11, <1>12 DEF IInv

LEMMA ServeSubmitReviewKeepsInv ==
    ASSUME IInv, NEW o \in Ops, ServeSubmitReview(o)
    PROVE  IInv'
  <1>. DEFINE n == wire[o].arg
  <1>1. /\ wire[o].at = "request" /\ wire[o].req = "submit_review"
        /\ n \in DOMAIN reviews /\ reviews[n].submitter = "nobody"
        /\ reviews' = [reviews EXCEPT ![n].submitter = o] /\ UNCHANGED <<head, mergedBy>>
    BY DEF ServeSubmitReview, Requested
  <1>2. PICK res \in {"ok", "transient", "validation"} : Reply(o, res, 0)
    BY DEF ServeSubmitReview
  <1>3. /\ res \in {"ok"} \cup ErrorKinds /\ res \notin Refusals /\ res # "none"
        /\ n \in ReviewsOf(o) /\ o # "nobody"
    BY <1>1, RequestOnWire, PullAssumption DEF ErrorKinds, Refusals, Undecided, ReviewInv
  <1>4. /\ reviews \in Seq([by : Ops, submitter : Ops \cup {"nobody"}])
        /\ reviews[n] \in [by : Ops, submitter : Ops \cup {"nobody"}]
    <2>1. reviews \in Seq([by : Ops, submitter : Ops \cup {"nobody"}])
      BY DEF IInv, TypeOK
    <2>. DEFINE R == [by : Ops, submitter : Ops \cup {"nobody"}]
    <2>2. \A i \in DOMAIN reviews : reviews[i] \in R
      <3>. HIDE DEF R
      <3>1. reviews \in Seq(R)
        BY <2>1 DEF R
      <3>. QED  BY <3>1
    <2>. QED  BY <1>1, <2>1, <2>2
  <1>5. /\ [reviews[n] EXCEPT !.submitter = o] \in [by : Ops, submitter : Ops \cup {"nobody"}]
        /\ reviews' = [reviews EXCEPT ![n] = [reviews[n] EXCEPT !.submitter = o]]
        /\ [reviews[n] EXCEPT !.submitter = o].submitter = o
        /\ [reviews[n] EXCEPT !.submitter = o].by = reviews[n].by
    <2>. HIDE DEF n
    <2>. QED  BY <1>1, <1>4
  <1>6. /\ reviews' \in Seq([by : Ops, submitter : Ops \cup {"nobody"}])
        /\ DOMAIN reviews' = DOMAIN reviews
        /\ reviews'[n].submitter = o /\ reviews'[n].by = reviews[n].by
        /\ \A i \in DOMAIN reviews : i # n => reviews'[i] = reviews[i]
    <2>. HIDE DEF n
    <2>1. DOMAIN reviews' = DOMAIN reviews
      BY <1>4, <1>5
    <2>2. /\ reviews'[n] = [reviews[n] EXCEPT !.submitter = o]
          /\ \A i \in DOMAIN reviews : i # n => reviews'[i] = reviews[i]
      BY <1>1, <1>4, <1>5
    <2>3. reviews' \in Seq([by : Ops, submitter : Ops \cup {"nobody"}])
      BY <1>1, <1>4, <1>5
    <2>. QED  BY <1>5, <2>1, <2>2, <2>3
  <1>7. \A i \in DOMAIN reviews : reviews'[i].by = reviews[i].by
    BY <1>6
  <1>8. \A d \in Ops : ReviewsOf(d)' = ReviewsOf(d)
    BY <1>6, <1>7 DEF ReviewsOf
  <1>9. /\ wire' \in [Ops -> Wires]
        /\ wire'[o].at = "answer" /\ wire'[o].res = res /\ wire'[o].req = "submit_review"
        /\ \A d \in Ops \ {o} : Untouched(d)
        /\ UNCHANGED <<pc, known, outcome>>
    BY <1>1, <1>2, <1>3, RequestOnWire, ReplyType
  <1>10. TypeOK'
    BY <1>1, <1>6, <1>9 DEF IInv, TypeOK, Wires
  <1>11. ASSUME NEW d \in Ops, d # o
         PROVE  CallInv(d)' /\ MergeInv(d)' /\ ShownInv(d)' /\ ReviewInv(d)'
    <2>1. /\ ReviewsOf(d) \subseteq DOMAIN reviews' /\ n \notin ReviewsOf(d)
          /\ \A i \in ReviewsOf(d) : reviews[i].submitter = d => reviews'[i].submitter = d
      BY <1>3, <1>6, <1>11 DEF ReviewsOf
    <2>. QED  BY <1>1, <1>8, <1>9, <1>11, <2>1, OthersKeepInv
  <1>12. CallInv(o)' /\ MergeInv(o)' /\ ShownInv(o)'
    BY <1>1, <1>3, <1>9, RequestOnWire
    DEF CallInv, Pending, MergeInv, Unmerged, ShownInv, Frozen, Shown
  <1>13. ReviewInv(o)'
    BY <1>1, <1>3, <1>6, <1>8, <1>9, RequestOnWire DEF ReviewInv, Submitted
  <1>14. \A i \in DOMAIN reviews' : reviews'[i].submitter \in {"nobody", reviews'[i].by}
    BY <1>3, <1>6 DEF IInv, ReviewsOf
  <1>. QED  BY <1>10, <1>11, <1>12, <1>13, <1>14 DEF IInv

(* Everybody else. *)
LEMMA OutsideKeepsInv ==
    ASSUME IInv, Push \/ ForeignMerge
    PROVE  IInv'
  <1>1. /\ UNCHANGED <<pc, wire, known, outcome, reviews>>
        /\ head' \in {head, head + 1} /\ head' \in 1..(MaxPushes + 1)
        /\ mergedBy # "nobody" => head' = head
        /\ \/ UNCHANGED mergedBy
           \/ mergedBy = "nobody" /\ mergedBy' = "foreign"
    BY PullAssumption DEF Push, ForeignMerge, IInv, TypeOK
  <1>2. TypeOK'
    BY <1>1 DEF IInv, TypeOK
  <1>3. ASSUME NEW d \in Ops
        PROVE  CallInv(d)' /\ MergeInv(d)' /\ ShownInv(d)' /\ ReviewInv(d)'
    <2>1. /\ Untouched(d) /\ ReviewsOf(d)' = ReviewsOf(d) /\ ReviewsOf(d) \subseteq DOMAIN reviews'
          /\ d # "foreign" /\ "foreign" # "nobody"
      BY <1>1, PullAssumption DEF Untouched, ReviewsOf
    <2>. QED  BY <1>1, <2>1, OthersKeepInv
  <1>. QED  BY <1>1, <1>2, <1>3 DEF IInv

-----------------------------------------------------------------------------
LEMMA StepKeepsInv == IInv /\ [Next]_vars => IInv'
  <1>. SUFFICES ASSUME IInv, [Next]_vars PROVE IInv'
    OBVIOUS
  <1>1. CASE UNCHANGED vars
    <2>1. UNCHANGED <<head, mergedBy, reviews>> /\ \A o \in Ops : Untouched(o)
      BY <1>1 DEF vars, Untouched
    <2>2. TypeOK'
      BY <1>1 DEF vars, IInv, TypeOK
    <2>3. ASSUME NEW d \in Ops
          PROVE  CallInv(d)' /\ MergeInv(d)' /\ ShownInv(d)' /\ ReviewInv(d)'
      <3>1. ReviewsOf(d)' = ReviewsOf(d) /\ ReviewsOf(d) \subseteq DOMAIN reviews'
        BY <2>1 DEF ReviewsOf
      <3>. QED  BY <2>1, <3>1, OthersKeepInv
    <2>. QED  BY <2>1, <2>2, <2>3 DEF IInv
  <1>2. CASE Push \/ ForeignMerge
    BY <1>2, OutsideKeepsInv
  <1>3. ASSUME NEW o \in Ops,
               GetPullRequest(o) \/ MergePullRequest(o) \/ ReviewPullRequest(o)
        PROVE  IInv'
    BY <1>3, StartKeepsInv, RejectKeepsInv
    DEF GetPullRequest, MergePullRequest, ReviewPullRequest
  <1>4. ASSUME NEW o \in Ops,
               \/ TakeError(o) \/ TakePull(o) \/ TakeFiles(o) \/ TakeStatus(o)
               \/ TakeIsMerged(o) \/ TakeMerge(o) \/ TakeReview(o) \/ TakeSubmit(o)
        PROVE  IInv'
    BY <1>4, TakeErrorKeepsInv, TakePullKeepsInv, TakeFilesKeepsInv, TakeStatusKeepsInv,
       TakeIsMergedKeepsInv, TakeMergeKeepsInv, TakeReviewKeepsInv, TakeSubmitKeepsInv
  <1>5. ASSUME NEW o \in Ops,
               \/ Fail(o) \/ Drop(o) \/ Refuse(o) \/ ServeRead(o)
               \/ ServeMerge(o) \/ ServeCreateReview(o) \/ ServeSubmitReview(o)
        PROVE  IInv'
    BY <1>5, FailKeepsInv, DropKeepsInv, RefuseKeepsInv, ServeReadKeepsInv,
       ServeMergeKeepsInv, ServeCreateReviewKeepsInv, ServeSubmitReviewKeepsInv
  <1>. QED  BY <1>1, <1>2, <1>3, <1>4, <1>5 DEF Next

LEMMA Invariance == Spec => []IInv
  BY InitInv, StepKeepsInv, PTL DEF Spec

(* The state of the tool calls and of the pull request keeps its type, and *)
(* a call has an outcome exactly when it is done.                          *)
THEOREM TypeCorrect == Spec => []TypeOK
  <1>1. IInv => TypeOK
    BY DEF IInv
  <1>. QED  BY <1>1, Invariance, PTL

(* forgejo_pull_merge says "merged" only of its own merge and "already     *)
(* merged" only of somebody else's, and refuses only if it did not merge.  *)
THEOREM CreditWhereDue == Spec => []MergeCredit
  <1>1. IInv => MergeCredit
    BY DEF IInv, MergeInv, MergeCredit
  <1>. QED  BY <1>1, Invariance, PTL

(* forgejo_pull_get never shows checks of a commit its files do not have,  *)
(* and a pull request it shows as closed comes with its last files and     *)
(* checks, however often the head moves between the three requests.        *)
THEOREM ShownTogether == Spec => []ShownFitsTogether
  <1>1. IInv => ShownFitsTogether
    <2>. SUFFICES ASSUME IInv, NEW o \in Shown
                  PROVE  /\ known[o].checks <= known[o].files
                         /\ known[o].state = "merged" => /\ mergedBy # "nobody"
                                                         /\ known[o].files = head
                                                         /\ known[o].checks = head
      BY DEF ShownFitsTogether
    <2>. QED  BY DEF IInv, ShownInv, Frozen, Shown
  <1>. QED  BY <1>1, Invariance, PTL

(* Concurrent calls of forgejo_pull_review submit their own reviews only,  *)
(* create one at most, and have submitted it if they report success.       *)
THEOREM ReviewsStay == Spec => []ReviewsBelongToTheirCalls
  <1>1. ASSUME IInv, NEW o \in Ops PROVE Cardinality(ReviewsOf(o)) <= 1
    <2>1. CASE ReviewsOf(o) = {}
      BY <2>1, FS_EmptySet
    <2>2. CASE \E i \in DOMAIN reviews : ReviewsOf(o) = {i}
      BY <2>2, FS_Singleton
    <2>. QED  BY <1>1, <2>1, <2>2 DEF IInv, ReviewInv
  <1>2. IInv => ReviewsBelongToTheirCalls
    BY <1>1 DEF IInv, ReviewInv, Submitted, Reads, ReviewsBelongToTheirCalls
  <1>. QED  BY <1>2, Invariance, PTL

-----------------------------------------------------------------------------
(* The refinement of RemoteCall.  EffectInv says which request an effect   *)
(* or a report belongs to, and that nothing was submitted while a submit   *)
(* was neither served nor answered with anything but a refusal.            *)
Untold(o) ==
    \/ pc[o] = "idle"
    \/ wire[o].at = "request"
    \/ wire[o].at = "answer" /\ wire[o].res \in Refusals
    \/ outcome[o] \in Refusals

EffectInv(o) ==
    /\ mergedBy = o => wire[o].req = "merge"
    /\ Submits(o) # {} => wire[o].req = "submit_review"
    /\ outcome[o] \in {"merged", "already_merged"} => wire[o].req \in {"is_merged", "merge"}
    /\ Untold(o) => Submits(o) = {}
    /\ pc[o] = "idle" => wire[o].req = "none"

EffectsInv == \A o \in Ops : EffectInv(o)

LEMMA AtMostOneOf ==
    ASSUME NEW S, NEW R, S \subseteq R, R = {} \/ \E i \in R : R = {i}
    PROVE  Cardinality(S) = IF S = {} THEN 0 ELSE 1
  <1>1. CASE S = {}
    BY <1>1, FS_EmptySet
  <1>2. CASE S # {}
    <2>1. \E i : S = {i}
      BY <1>2
    <2>. QED  BY <1>2, <2>1, FS_Singleton
  <1>. QED  BY <1>1, <1>2

(* A call submits its own review, of which there is one at most, and does  *)
(* not merge as well.                                                      *)
LEMMA EffectsCount ==
    ASSUME NEW o \in Ops, IInv, EffectInv(o)
    PROVE  Effects(o) = IF Submits(o) # {} \/ mergedBy = o THEN 1 ELSE 0
  <1>1. Submits(o) \subseteq ReviewsOf(o)
    BY PullAssumption DEF IInv, Submits, ReviewsOf
  <1>2. ReviewsOf(o) = {} \/ \E i \in ReviewsOf(o) : ReviewsOf(o) = {i}
    BY DEF IInv, ReviewInv
  <1>3. Cardinality(Submits(o)) = IF Submits(o) = {} THEN 0 ELSE 1
    BY <1>1, <1>2, AtMostOneOf
  <1>4. ~ (Submits(o) # {} /\ mergedBy = o)
    BY DEF EffectInv
  <1>. QED  BY <1>3, <1>4 DEF Effects

-----------------------------------------------------------------------------
(* Every step is of one of four kinds, as far as effects and reports go.   *)
SameEffects(d) == Submits(d)' = Submits(d) /\ (mergedBy' = d <=> mergedBy = d)
OthersSame(o) == \A d \in Ops \ {o} : Untouched(d) /\ SameEffects(d)

\* A call asks; asks no more, answers its caller, or hears of its request;
\* merges; submits its review.
Asks(o) ==
    /\ SameEffects(o) /\ Unmerged(o)
    /\ pc[o] = "idle" \/ wire[o].req # "submit_review"
    /\ outcome[o] = "none" /\ outcome'[o] = "none"
    /\ pc'[o] # "idle" /\ wire'[o].at = "request" /\ wire'[o].req \in Requests

Hears(o) ==
    /\ SameEffects(o) /\ wire'[o].req = wire[o].req
    /\ pc'[o] = "idle" => pc[o] = "idle"
    /\ Untold(o)' => Untold(o)
    /\ \/ outcome'[o] = outcome[o]
       \/ /\ outcome[o] = "none" /\ outcome'[o] # "none"
          /\ outcome'[o] \in {"merged", "already_merged"} => wire[o].req \in {"is_merged", "merge"}

Takes(o) ==
    /\ pc'[o] = pc[o] /\ outcome'[o] = outcome[o] /\ wire'[o].req = wire[o].req
    /\ wire[o].at = "request" /\ wire'[o].at = "answer" /\ wire'[o].res \notin Refusals

Merges(o) ==
    /\ Takes(o) /\ wire[o].req = "merge"
    /\ mergedBy = "nobody" /\ mergedBy' = o /\ Submits(o)' = Submits(o)

SubmitsOwn(o) ==
    /\ Takes(o) /\ wire[o].req = "submit_review"
    /\ UNCHANGED mergedBy /\ Submits(o)' # {}

Kinds(o) == OthersSame(o) /\ (Asks(o) \/ Hears(o) \/ Merges(o) \/ SubmitsOwn(o))

LEMMA QuietIsSame ==
    ASSUME UNCHANGED forgeVars
    PROVE  \A d \in Ops : SameEffects(d)
  BY DEF forgeVars, SameEffects, Submits

LEMMA AskIsKind ==
    ASSUME IInv, NEW o \in Ops, NEW req \in Requests, NEW arg, Ask(o, req, arg),
           pc[o] # "done", UNCHANGED forgeVars, Unmerged(o),
           pc[o] = "idle" \/ wire[o].req # "submit_review",
           \A d \in Ops \ {o} : known'[d] = known[d]
    PROVE  Kinds(o)
  <1>1. /\ outcome[o] = "none" /\ UNCHANGED outcome
        /\ pc' = [pc EXCEPT ![o] = req]
        /\ wire' = [wire EXCEPT ![o] = Wire("request", req, arg)]
        /\ pc \in [Ops -> {"idle", "done"} \cup Requests] /\ DOMAIN wire = Ops
    BY DEF IInv, TypeOK, Ask
  <1>2. OthersSame(o)
    BY <1>1, QuietIsSame DEF OthersSame, Untouched
  <1>3. Asks(o)
    BY <1>1, QuietIsSame DEF Asks, Wire, Requests
  <1>. QED  BY <1>2, <1>3 DEF Kinds

LEMMA ReturnIsKind ==
    ASSUME IInv, NEW o \in Ops, NEW result \in Outcomes \ {"none"}, Return(o, result),
           pc[o] \in Requests, UNCHANGED forgeVars,
           \A d \in Ops \ {o} : known'[d] = known[d],
           result \in Refusals => wire[o].at = "answer" /\ wire[o].res = result,
           result \in {"merged", "already_merged"} => wire[o].req \in {"is_merged", "merge"}
    PROVE  Kinds(o)
  <1>1. /\ outcome[o] = "none" /\ outcome' = [outcome EXCEPT ![o] = result]
        /\ pc' = [pc EXCEPT ![o] = "done"]
        /\ wire' = [wire EXCEPT ![o].at = "read"]
        /\ DOMAIN pc = Ops /\ wire \in [Ops -> Wires] /\ DOMAIN outcome = Ops
    BY DEF IInv, TypeOK, Return, Wires, Requests
  <1>2. OthersSame(o)
    BY <1>1, QuietIsSame DEF OthersSame, Untouched
  <1>3. /\ wire'[o].req = wire[o].req /\ wire'[o].at = "read"
        /\ pc'[o] = "done" /\ outcome'[o] = result
    BY <1>1 DEF Wires
  <1>4. Untold(o)' => Untold(o)
    BY <1>3 DEF Untold
  <1>5. Hears(o)
    BY <1>1, <1>3, <1>4, QuietIsSame DEF Hears
  <1>. QED  BY <1>2, <1>5 DEF Kinds

LEMMA EndIsKind ==
    ASSUME IInv, NEW o \in Ops, NEW result \in Undecided, pc[o] # "done",
           pc' = [pc EXCEPT ![o] = "done"], outcome' = [outcome EXCEPT ![o] = result],
           UNCHANGED <<wire, known, forgeVars>>
    PROVE  Kinds(o)
  <1>1. /\ outcome[o] = "none" /\ pc'[o] = "done" /\ outcome'[o] = result /\ result # "none"
        /\ result \notin Refusals \cup {"merged", "already_merged"}
        /\ \A d \in Ops \ {o} : Untouched(d)
    BY DEF IInv, TypeOK, Untouched, Undecided, Refusals
  <1>2. OthersSame(o) /\ SameEffects(o)
    BY <1>1, QuietIsSame DEF OthersSame
  <1>3. Hears(o)
    BY <1>1, <1>2 DEF Hears, Untold
  <1>. QED  BY <1>2, <1>3 DEF Kinds

LEMMA ReplyIsKind ==
    ASSUME IInv, NEW o \in Ops, wire[o].at = "request",
           NEW res \in {"ok"} \cup ErrorKinds, NEW value \in Nat, Reply(o, res, value),
           \A d \in Ops : SameEffects(d)
    PROVE  Kinds(o)
  <1>1. OthersSame(o)
    BY ReplyType DEF IInv, OthersSame
  <1>2. Hears(o)
    <2>1. /\ wire'[o].req = wire[o].req /\ UNCHANGED <<pc, outcome>>
      BY ReplyType DEF IInv
    <2>. QED  BY <2>1 DEF Hears, Untold
  <1>. QED  BY <1>1, <1>2 DEF Kinds

LEMMA ToolStepIsKind ==
    ASSUME IInv, NEW o \in Ops,
           \/ GetPullRequest(o) \/ MergePullRequest(o) \/ ReviewPullRequest(o)
           \/ TakeError(o) \/ TakePull(o) \/ TakeFiles(o) \/ TakeStatus(o)
           \/ TakeIsMerged(o) \/ TakeMerge(o) \/ TakeReview(o) \/ TakeSubmit(o) \/ Fail(o)
    PROVE  Kinds(o)
  <1>1. ASSUME NEW req \in {"pull", "is_merged", "create_review"}, Start(o, req)
        PROVE  Kinds(o)
    BY <1>1, AskIsKind DEF Start, Unmerged, Requests
  <1>2. CASE Reject(o)
    BY <1>2, EndIsKind DEF Reject, Undecided
  <1>3. CASE Fail(o)
    BY <1>3, EndIsKind DEF Fail, Undecided, Requests
  <1>4. CASE TakeError(o)
    <2>1. /\ pc[o] \in Requests /\ wire[o].at = "answer" /\ wire[o].res \in ErrorKinds
          /\ Return(o, wire[o].res) /\ UNCHANGED <<known, forgeVars>>
      BY <1>4, AnswerInHand DEF TakeError, Wires
    <2>2. wire[o].res \in Outcomes \ {"none", "merged", "already_merged"}
      BY <2>1 DEF Outcomes, ErrorKinds
    <2>. QED  BY <2>1, <2>2, ReturnIsKind
  <1>5. ASSUME NEW req \in Requests, Answered(o, req)
        PROVE  /\ pc[o] = req /\ wire[o].req = req /\ pc[o] # "done"
               /\ req # "merge" => Unmerged(o)
    BY <1>5, AnswerInHand DEF Answered, Unmerged
  <1>6. CASE TakePull(o) \/ TakeFiles(o)
    <2>1. CASE TakePull(o)
      <3>1. /\ Answered(o, "pull") /\ Ask(o, "files", 0) /\ UNCHANGED forgeVars
            /\ \A d \in Ops \ {o} : known'[d] = known[d]
        BY <2>1 DEF TakePull, IInv, TypeOK
      <3>. QED  BY <1>5, <3>1, AskIsKind DEF Requests
    <2>2. CASE TakeFiles(o)
      <3>1. /\ Answered(o, "files") /\ Ask(o, "status", known[o].head) /\ UNCHANGED forgeVars
            /\ \A d \in Ops \ {o} : known'[d] = known[d]
        BY <2>2 DEF TakeFiles, IInv, TypeOK
      <3>. QED  BY <1>5, <3>1, AskIsKind DEF Requests
    <2>. QED  BY <1>6, <2>1, <2>2
  <1>7. CASE TakeReview(o)
    <2>1. Answered(o, "create_review") /\ UNCHANGED <<known, forgeVars>>
      BY <1>7 DEF TakeReview
    <2>. QED  BY <1>5, <1>7, <2>1, AskIsKind DEF TakeReview, Requests
  <1>8. ASSUME NEW req \in Requests, Answered(o, req),
               NEW result \in {"ok", "merged", "already_merged"},
               result # "ok" => req \in {"is_merged", "merge"}, Return(o, result),
               UNCHANGED forgeVars, \A d \in Ops \ {o} : known'[d] = known[d]
        PROVE  Kinds(o)
    <2>1. result \in Outcomes \ {"none"} /\ result \notin Refusals
      BY DEF Outcomes, Refusals, ErrorKinds
    <2>. QED  BY <1>5, <1>8, <2>1, ReturnIsKind
  <1>9. CASE TakeStatus(o)
    <2>1. \A d \in Ops \ {o} : known'[d] = known[d]
      BY <1>9 DEF TakeStatus, IInv, TypeOK
    <2>. QED  BY <1>8, <1>9, <2>1 DEF TakeStatus, Requests
  <1>10. CASE TakeMerge(o) \/ TakeSubmit(o)
    BY <1>8, <1>10 DEF TakeMerge, TakeSubmit, Requests
  <1>11. CASE TakeIsMerged(o)
    <2>1. Answered(o, "is_merged") /\ UNCHANGED <<known, forgeVars>>
      BY <1>11 DEF TakeIsMerged
    <2>2. CASE Return(o, "already_merged")
      BY <1>8, <2>1, <2>2 DEF Requests
    <2>3. CASE Ask(o, "merge", 0)
      BY <1>5, <2>1, <2>3, AskIsKind DEF Requests
    <2>. QED  BY <1>11, <2>2, <2>3 DEF TakeIsMerged
  <1>. QED  BY <1>1, <1>2, <1>3, <1>4, <1>6, <1>7, <1>9, <1>10, <1>11
            DEF GetPullRequest, MergePullRequest, ReviewPullRequest

LEMMA ServeIsKind ==
    ASSUME IInv, NEW o \in Ops,
           \/ Drop(o) \/ Refuse(o) \/ ServeRead(o)
           \/ ServeMerge(o) \/ ServeCreateReview(o) \/ ServeSubmitReview(o)
    PROVE  Kinds(o)
  <1>1. CASE Drop(o)
    <2>1. /\ wire'[o].at = "lost" /\ wire'[o].req = wire[o].req
          /\ UNCHANGED <<pc, known, outcome>> /\ \A d \in Ops \ {o} : wire'[d] = wire[d]
      BY <1>1 DEF Drop, IInv, TypeOK
    <2>2. OthersSame(o) /\ SameEffects(o)
      BY <1>1, <2>1, QuietIsSame DEF Drop, OthersSame, Untouched
    <2>. QED  BY <2>1, <2>2 DEF Kinds, Hears, Untold
  <1>2. CASE Refuse(o)
    BY <1>2, QuietIsSame, ReplyIsKind DEF Refuse, ErrorKinds
  <1>3. CASE ServeRead(o)
    <2>1. /\ wire[o].at = "request" /\ UNCHANGED forgeVars
          /\ head \in Nat /\ wire[o].arg \in Nat
          /\ \E value \in {head, wire[o].arg} : Reply(o, "ok", value)
      BY <1>3 DEF ServeRead, IInv, TypeOK
    <2>. QED  BY <2>1, QuietIsSame, ReplyIsKind
  <1>4. CASE ServeMerge(o)
    <2>1. PICK res \in {"ok", "transient"} : Reply(o, res, 0)
      BY <1>4 DEF ServeMerge
    <2>2. /\ wire[o].at = "request" /\ wire[o].req = "merge"
          /\ mergedBy = "nobody" /\ mergedBy' = o /\ UNCHANGED reviews
      BY <1>4 DEF ServeMerge, Requested
    <2>3. res \in {"ok"} \cup ErrorKinds /\ res \notin Refusals
      BY DEF ErrorKinds, Refusals, Undecided
    <2>4. \A d \in Ops : Submits(d)' = Submits(d) /\ d # "nobody"
      BY <2>2, PullAssumption DEF Submits
    <2>5. Takes(o) /\ \A d \in Ops \ {o} : Untouched(d)
      BY <2>1, <2>2, <2>3, ReplyType DEF IInv, Takes
    <2>. QED  BY <2>2, <2>4, <2>5 DEF Kinds, OthersSame, SameEffects, Merges
  <1>5. CASE ServeCreateReview(o)
    <2>1. /\ wire[o].at = "request" /\ UNCHANGED mergedBy
          /\ reviews' = Append(reviews, [by |-> o, submitter |-> "nobody"])
          /\ reviews \in Seq([by : Ops, submitter : Ops \cup {"nobody"}])
          /\ \E res \in {"ok", "transient", "validation"} : Reply(o, res, Len(reviews) + 1)
      BY <1>5 DEF ServeCreateReview, Requested, IInv, TypeOK
    <2>2. /\ DOMAIN reviews' = DOMAIN reviews \cup {Len(reviews) + 1}
          /\ reviews'[Len(reviews) + 1].submitter = "nobody"
          /\ \A i \in DOMAIN reviews : reviews'[i] = reviews[i]
          /\ Len(reviews) + 1 \in Nat
      BY <2>1
    <2>3. \A d \in Ops : SameEffects(d)
      BY <2>1, <2>2, PullAssumption DEF SameEffects, Submits
    <2>. QED  BY <2>1, <2>2, <2>3, ReplyIsKind DEF ErrorKinds
  <1>6. CASE ServeSubmitReview(o)
    <2>. DEFINE n == wire[o].arg
    <2>1. PICK res \in {"ok", "transient", "validation"} : Reply(o, res, 0)
      BY <1>6 DEF ServeSubmitReview
    <2>2. /\ wire[o].at = "request" /\ wire[o].req = "submit_review" /\ UNCHANGED mergedBy
          /\ n \in DOMAIN reviews /\ reviews[n].submitter = "nobody"
          /\ reviews' = [reviews EXCEPT ![n].submitter = o]
      BY <1>6 DEF ServeSubmitReview, Requested
    <2>3. res \in {"ok"} \cup ErrorKinds /\ res \notin Refusals
      BY DEF ErrorKinds, Refusals, Undecided
    <2>4. /\ DOMAIN reviews' = DOMAIN reviews /\ reviews'[n].submitter = o
          /\ \A i \in DOMAIN reviews : i # n => reviews'[i] = reviews[i]
      <3>. DEFINE R == [by : Ops, submitter : Ops \cup {"nobody"}]
      <3>1. reviews \in Seq(R)
        BY DEF IInv, TypeOK
      <3>2. reviews[n] \in R
        <4>. HIDE DEF R
        <4>. QED  BY <2>2, <3>1
      <3>. HIDE DEF n
      <3>3. [reviews[n] EXCEPT !.submitter = o].submitter = o
        BY <3>2
      <3>. HIDE DEF R
      <3>. QED  BY <2>2, <3>1, <3>3
    <2>5. /\ Submits(o)' # {}
          /\ \A d \in Ops \ {o} : Submits(d)' = Submits(d)
      BY <2>2, <2>4, PullAssumption DEF Submits
    <2>6. Takes(o) /\ \A d \in Ops \ {o} : Untouched(d)
      BY <2>1, <2>2, <2>3, ReplyType DEF IInv, Takes
    <2>. QED  BY <2>2, <2>5, <2>6 DEF Kinds, OthersSame, SameEffects, SubmitsOwn
  <1>. QED  BY <1>1, <1>2, <1>3, <1>4, <1>5, <1>6

LEMMA StepIsKind ==
    ASSUME IInv, [Next]_vars
    PROVE  (\A d \in Ops : Untouched(d) /\ SameEffects(d)) \/ \E o \in Ops : Kinds(o)
  <1>1. CASE UNCHANGED vars
    BY <1>1, QuietIsSame DEF vars, forgeVars, Untouched
  <1>2. CASE Push \/ ForeignMerge
    BY <1>2, PullAssumption DEF Push, ForeignMerge, Untouched, SameEffects, Submits
  <1>. QED  BY <1>1, <1>2, ToolStepIsKind, ServeIsKind DEF Next

-----------------------------------------------------------------------------
LEMMA InitEffects == Init => EffectsInv
  <1>. SUFFICES ASSUME Init, NEW o \in Ops PROVE EffectInv(o)
    BY DEF EffectsInv
  <1>1. /\ mergedBy # o /\ Submits(o) = {} /\ outcome[o] = "none" /\ wire[o].req = "none"
    BY PullAssumption DEF Init, Submits, Wire
  <1>. QED  BY <1>1 DEF EffectInv

LEMMA SameKeepsEffect ==
    ASSUME NEW d \in Ops, EffectInv(d), Untouched(d), SameEffects(d)
    PROVE  EffectInv(d)'
  BY DEF EffectInv, Untold, Untouched, SameEffects

LEMMA StepKeepsEffects == IInv /\ EffectsInv /\ [Next]_vars => EffectsInv'
  <1>. SUFFICES ASSUME IInv, EffectsInv, [Next]_vars PROVE EffectsInv'
    OBVIOUS
  <1>1. ASSUME NEW o \in Ops, Kinds(o) PROVE EffectsInv'
    <2>1. ASSUME NEW d \in Ops \ {o} PROVE EffectInv(d)'
      BY <1>1, SameKeepsEffect DEF Kinds, OthersSame, EffectsInv
    <2>2. EffectInv(o)
      BY DEF EffectsInv
    <2>3. CASE Asks(o)
      <3>1. mergedBy # o
        BY <2>3 DEF Asks, IInv, MergeInv
      <3>2. Submits(o) = {}
        BY <2>2, <2>3 DEF Asks, EffectInv, Untold
      <3>. QED  BY <2>1, <2>3, <3>1, <3>2 DEF Asks, SameEffects, EffectInv, EffectsInv
    <2>4. CASE Hears(o)
      <3>1. EffectInv(o)'
        BY <2>2, <2>4 DEF Hears, SameEffects, EffectInv
      <3>. QED  BY <2>1, <3>1 DEF EffectsInv
    <2>5. CASE Merges(o)
      <3>1. Submits(o)' = {}
        BY <2>2, <2>5 DEF Merges, Takes, EffectInv, Untold
      <3>2. EffectInv(o)'
        BY <2>2, <2>5, <3>1 DEF Merges, Takes, EffectInv
      <3>. QED  BY <2>1, <3>2 DEF EffectsInv
    <2>6. CASE SubmitsOwn(o)
      <3>1. ~ Untold(o)'
        BY <2>6, RequestOnWire DEF SubmitsOwn, Takes, Untold
      <3>2. mergedBy' # o
        BY <2>6, RequestOnWire DEF SubmitsOwn, Takes
      <3>3. EffectInv(o)'
        BY <2>2, <2>6, <3>1, <3>2, RequestOnWire DEF SubmitsOwn, Takes, EffectInv
      <3>. QED  BY <2>1, <3>3 DEF EffectsInv
    <2>. QED  BY <1>1, <2>3, <2>4, <2>5, <2>6 DEF Kinds
  <1>2. CASE \A d \in Ops : Untouched(d) /\ SameEffects(d)
    BY <1>2, SameKeepsEffect DEF EffectsInv
  <1>. QED  BY <1>1, <1>2, StepIsKind

-----------------------------------------------------------------------------
(* Outcomes as reports. *)
LEMMA ReportOf ==
    ASSUME NEW o \in Ops, wire[o].req \notin Reads
    PROVE  /\ outcome[o] = "none" => Report(o) = "none"
           /\ outcome[o] \in {"ok", "merged"} => Report(o) = "done"
           /\ outcome[o] \in Refusals \cup {"already_merged"} => Report(o) = "refused"
           /\ outcome[o] \in Undecided => Report(o) = "undecided"
  BY DEF Report, Refusals, Undecided, ErrorKinds

LEMMA InitIsPromised == Init => Promise!Init
  <1>. SUFFICES ASSUME Init, NEW o \in Ops PROVE Effects(o) = 0 /\ Report(o) = "none"
    BY DEF Promise!Init
  <1>1. Submits(o) = {} /\ mergedBy # o /\ outcome[o] = "none"
    BY PullAssumption DEF Init, Submits
  <1>. QED  BY <1>1, FS_EmptySet DEF Effects, Report, Refusals, Undecided, ErrorKinds

LEMMA SameIsStutter ==
    ASSUME NEW d \in Ops, Untouched(d), SameEffects(d)
    PROVE  Effects(d)' = Effects(d) /\ Report(d)' = Report(d)
  BY DEF Untouched, SameEffects, Effects, Report

LEMMA StepIsPromised ==
    ASSUME IInv, IInv', EffectsInv, EffectsInv', [Next]_vars
    PROVE  [Promise!Next]_(Promise!promiseVars)
  <1>1. CASE \A d \in Ops : Untouched(d) /\ SameEffects(d)
    BY <1>1, SameIsStutter DEF Promise!promiseVars
  <1>2. ASSUME NEW o \in Ops, Kinds(o)
        PROVE  [Promise!Next]_(Promise!promiseVars)
    <2>1. \A d \in Ops \ {o} : Effects(d)' = Effects(d) /\ Report(d)' = Report(d)
      BY <1>2, SameIsStutter DEF Kinds, OthersSame
    <2>2. CASE Effects(o)' = Effects(o) /\ Report(o)' = Report(o)
      BY <2>1, <2>2 DEF Promise!promiseVars
    <2>3. ASSUME Effects(o)' = Effects(o), Report(o) = "none",
                 Report(o)' \in {"done", "refused", "undecided"},
                 Report(o)' = "done" => Effects(o) = 1,
                 Report(o)' = "refused" => Effects(o) = 0
          PROVE  Promise!Tell(o)
      BY <2>1, <2>3 DEF Promise!Tell, Promise!Reports
    <2>4. ASSUME Effects(o) = 0, Effects(o)' = 1, Report(o)' = Report(o),
                 Report(o) \in {"none", "undecided"}
          PROVE  Promise!Execute(o)
      BY <2>1, <2>4 DEF Promise!Execute
    <2>5. EffectInv(o) /\ EffectInv(o)' /\ outcome[o] \in Outcomes /\ outcome'[o] \in Outcomes
      BY DEF EffectsInv, IInv, TypeOK
    <2>6. CASE Asks(o)
      <3>1. Report(o) = "none" /\ Report(o)' = "none"
        BY <2>6 DEF Asks, Report, Refusals, Undecided, ErrorKinds
      <3>. QED  BY <2>2, <2>6, <3>1 DEF Asks, SameEffects, Effects
    <2>7. CASE Hears(o)
      <3>1. Effects(o)' = Effects(o) /\ SameEffects(o) /\ wire'[o].req = wire[o].req
        BY <2>7 DEF Hears, SameEffects, Effects
      <3>2. CASE wire[o].req \in Reads \/ outcome'[o] = outcome[o]
        BY <2>2, <3>1, <3>2 DEF Report
      <3>3. CASE wire[o].req \notin Reads /\ outcome'[o] # outcome[o]
        <4>1. Report(o) = "none" /\ outcome'[o] # "none"
          BY <2>7, <3>3 DEF Hears, Report, Refusals, Undecided, ErrorKinds
        <4>2. \/ outcome'[o] \in {"ok", "merged"} /\ Report(o)' = "done"
              \/ outcome'[o] \in Refusals \cup {"already_merged"} /\ Report(o)' = "refused"
              \/ outcome'[o] \in Undecided /\ Report(o)' = "undecided"
          BY <2>5, <3>1, <3>3, <4>1 DEF Report, Outcomes, Refusals, Undecided, ErrorKinds
        <4>3. outcome'[o] = "ok" => Submits(o)' # {}
          BY <3>1, <3>3 DEF IInv, ReviewInv, Submitted, ReviewsOf, Submits
        <4>4. outcome'[o] = "merged" => mergedBy' = o
          BY DEF IInv, MergeInv
        <4>5. outcome'[o] \in Refusals \cup {"already_merged"} =>
                  Submits(o)' = {} /\ mergedBy' # o
          BY <2>5 DEF IInv, MergeInv, EffectInv, Untold
        <4>6. /\ outcome'[o] \in {"ok", "merged"} => Effects(o) = 1
              /\ outcome'[o] \in Refusals \cup {"already_merged"} => Effects(o) = 0
          BY <2>5, <3>1, <4>3, <4>4, <4>5, EffectsCount DEF SameEffects
        <4>7. Promise!Tell(o)
          BY <2>3, <3>1, <4>1, <4>2, <4>6
        <4>. QED  BY <4>7 DEF Promise!Next
      <3>. QED  BY <3>2, <3>3
    <2>8. CASE Merges(o) \/ SubmitsOwn(o)
      <3>1. /\ wire[o].at = "request" /\ wire[o].req \in {"merge", "submit_review"}
            /\ outcome'[o] = outcome[o] /\ wire'[o].req = wire[o].req
        BY <2>8 DEF Merges, SubmitsOwn, Takes
      <3>2. /\ Submits(o) = {} /\ mergedBy # o
            /\ outcome[o] \notin Refusals \cup {"ok", "merged"}
        BY <2>5, <3>1, RequestOnWire DEF EffectInv, Untold
      <3>3. outcome[o] # "already_merged"
        BY <2>5, <2>8, <3>1 DEF Merges, SubmitsOwn, EffectInv, IInv, MergeInv
      <3>4. Effects(o) = 0
        BY <2>5, <3>2, EffectsCount
      <3>5. Effects(o)' = 1
        <4>1. Submits(o)' # {} \/ mergedBy' = o
          BY <2>8 DEF Merges, SubmitsOwn
        <4>2. Submits(o)' \subseteq ReviewsOf(o)'
          BY PullAssumption DEF IInv, Submits, ReviewsOf
        <4>3. ReviewsOf(o)' = {} \/ \E i \in ReviewsOf(o)' : ReviewsOf(o)' = {i}
          BY DEF IInv, ReviewInv
        <4>4. Cardinality(Submits(o)') = IF Submits(o)' = {} THEN 0 ELSE 1
          BY <4>2, <4>3, AtMostOneOf
        <4>. QED  BY <2>5, <4>1, <4>4 DEF Effects, EffectInv
      <3>6. Report(o)' = Report(o)
        BY <3>1 DEF Report
      <3>7. Report(o) \in {"none", "undecided"}
        BY <2>5, <3>1, <3>2, <3>3, ReportOf DEF Reads, Outcomes, Refusals
      <3>8. Promise!Execute(o)
        BY <2>4, <3>4, <3>5, <3>6, <3>7
      <3>. QED  BY <3>8 DEF Promise!Next
    <2>. QED  BY <1>2, <2>6, <2>7, <2>8 DEF Kinds
  <1>. QED  BY <1>1, <1>2, StepIsKind

(* The tools that merge and review implement RemoteCall: a call with two   *)
(* requests is to its client like one.                                     *)
THEOREM PullToolsKeepPromise == Spec => KeepsPromise
  <1>1. Init => IInv /\ EffectsInv /\ Promise!Init
    BY InitInv, InitEffects, InitIsPromised
  <1>2. IInv /\ EffectsInv /\ [Next]_vars => IInv' /\ EffectsInv'
    BY StepKeepsInv, StepKeepsEffects
  <1>3. IInv /\ EffectsInv /\ IInv' /\ EffectsInv' /\ [Next]_vars
            => [Promise!Next]_(Promise!promiseVars)
    BY StepIsPromised
  <1>. QED  BY <1>1, <1>2, <1>3, PTL DEF Spec, KeepsPromise, Promise!Spec
=============================================================================
