--------------------------- MODULE MCIssuesBranches ---------------------------
(* Instances of IssuesBranches for TLC: tool calls are model values. *)
EXTENDS IssuesBranches

CONSTANTS o1, o2

(* A tool that composes two requests, or an edit, beside any other tool. *)
ReaderAndAny == [o \in {o1, o2} |->
    IF o = o1 THEN {"issue_get", "branch_delete", "issue_update"} ELSE Tools]

(* Each field given by one edit and left out by others. *)
EditsOfEachField == {{"title", "close"}, {"body"}, {"reopen"}}
=============================================================================
