-------------------------- MODULE MCRetryingCaller --------------------------
(* Instances of RetryingCaller for TLC. *)
EXTENDS RetryingCaller

CallsOfIntents == Intents \X (1..MaxAttempts)

(* One tool for every combination of hints, checks and requests. *)
Kind(t) == <<t.hints, t.checked, t.requests>>
OneOfEachKind == {CHOOSE t \in SingleRequestTools : Kind(t) = kind :
                     kind \in {Kind(t) : t \in SingleRequestTools}}

AddComment == {t \in SingleRequestTools : t.name = "issue_comment_add"}
=============================================================================
