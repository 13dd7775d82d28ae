------------------------------- MODULE Surface -------------------------------
(***************************************************************************)
(* server/server.go: the tools an MCP client sees, with the hints it is    *)
(* given about each, and the requests each tool's use case sends           *)
(* (application.go).  Names are those of the tools without "forgejo_";     *)
(* titles, schemas and descriptions are left out.                          *)
(*                                                                         *)
(*   checked   the use case may refuse an argument before any request      *)
(*   requests  the requests of a call that meets no error, in their order: *)
(*               get, text    read, decoded or as plain text               *)
(*               post, upload add something new                            *)
(*               create       add what must not be there already           *)
(*               patch, put   edit the fields given; replace a set         *)
(*               delete       remove                                       *)
(*               commit       apply file changes, each to a given version  *)
(*               merged, merge, review, submit   see PullRequests          *)
(***************************************************************************)
EXTENDS Sequences

Hints(readOnly, destructive, idempotent) ==
    [readOnly |-> readOnly, destructive |-> destructive, idempotent |-> idempotent]

(* Faulty variant: the argument is ignored.                                *)
writeAnnotations_Ignored(idempotent) == Hints(FALSE, FALSE, TRUE)

readAnnotations == Hints(TRUE, FALSE, TRUE)
writeAnnotations(idempotent) == Hints(FALSE, FALSE, idempotent)
deleteAnnotations == Hints(FALSE, TRUE, FALSE)

Tools(names, hints, checked, requests) ==
    {[name |-> n, hints |-> hints, checked |-> checked, requests |-> requests] : n \in names}

Read(names, requests) == Tools(names, readAnnotations, FALSE, requests)
Checked(names, hints, requests) == Tools(names, hints, TRUE, requests)
Unchecked(names, hints, requests) == Tools(names, hints, FALSE, requests)

-----------------------------------------------------------------------------
registerRepoTools == Read({"repo_get", "repo_list_contents", "file_get"}, <<"get">>)

registerOrgTools == Read({"org_list"}, <<"get">>)

registerIssueTools == Read({"issue_get"}, <<"get", "get">>)

registerBatchAReadTools ==
    Read({"repo_search", "commit_list", "branch_list", "issue_list",
          "pull_list", "release_list"}, <<"get">>)
    \cup Read({"diff_get"}, <<"text">>)
    \cup Read({"pull_get"}, <<"get", "get", "get">>)

registerWriteTools ==
    Checked({"repo_create", "org_create", "branch_create"}, writeAnnotations(FALSE), <<"create">>)
    \cup Checked({"issue_create", "issue_comment_add", "pull_create", "release_create"},
                 writeAnnotations(FALSE), <<"post">>)
    \cup Unchecked({"issue_update", "pull_update"}, writeAnnotations(TRUE), <<"patch">>)
    \cup Checked({"file_write"}, writeAnnotations(FALSE), <<"get", "commit">>)
    \cup Unchecked({"file_write_many"}, writeAnnotations(FALSE), <<"commit">>)
    \cup Checked({"pull_merge"}, writeAnnotations(FALSE), <<"merged", "merge">>)
    \cup Checked({"pull_review"}, writeAnnotations(FALSE), <<"review", "submit">>)

registerDeleteTools ==
    Checked({"file_delete"}, deleteAnnotations, <<"get", "commit">>)
    \cup Checked({"branch_delete"}, deleteAnnotations, <<"get", "delete">>)
    \cup Checked({"issue_delete", "comment_delete", "release_delete", "repo_delete",
                  "org_delete"}, deleteAnnotations, <<"delete">>)

registerBatchTTools ==
    Read({"tag_list"}, <<"get">>)
    \cup Checked({"tag_create", "repo_migrate"}, writeAnnotations(FALSE), <<"create">>)
    \cup Checked({"repo_fork"}, writeAnnotations(FALSE), <<"post">>)
    \cup Unchecked({"repo_update"}, writeAnnotations(TRUE), <<"patch">>)
    \cup Checked({"tag_delete"}, deleteAnnotations, <<"delete">>)

registerBatchMTools ==
    Read({"milestone_list", "label_list"}, <<"get">>)
    \cup Checked({"milestone_create", "label_create"}, writeAnnotations(FALSE), <<"create">>)
    \cup Unchecked({"milestone_update", "label_update"}, writeAnnotations(TRUE), <<"patch">>)
    \cup Checked({"milestone_delete", "label_delete"}, deleteAnnotations, <<"delete">>)
    \cup Checked({"issue_set_labels"}, writeAnnotations(TRUE), <<"put">>)

registerBatchUTools ==
    Read({"user_get", "user_list"}, <<"get">>)
    \cup Checked({"branch_get"}, readAnnotations, <<"get">>)
    \cup Checked({"release_asset_upload"}, writeAnnotations(FALSE), <<"upload">>)

registerTools ==
    registerRepoTools \cup registerOrgTools \cup registerIssueTools
    \cup registerBatchAReadTools \cup registerWriteTools \cup registerDeleteTools
    \cup registerBatchTTools \cup registerBatchMTools \cup registerBatchUTools

(* Tools whose whole effect is one request: what they promise is what the  *)
(* Forgejo client promises.                                                *)
SingleRequestTools == {t \in registerTools : Len(t.requests) = 1}
=============================================================================
