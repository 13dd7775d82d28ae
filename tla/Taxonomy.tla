------------------------------ MODULE Taxonomy ------------------------------
(***************************************************************************)
(* The error taxonomy every layer of mcp-forgejo shares (domain/domain.go) *)
(* and the mapping from Forgejo's HTTP statuses onto it                    *)
(* (infrastructure/forgejo/forgejo.go).  Error messages are not modelled:  *)
(* no layer branches on them.                                              *)
(***************************************************************************)
EXTENDS Integers

ErrorKinds == {"unknown", "not_found", "unauthorized", "forbidden",
               "validation", "conflict", "archived", "transient"}

Success(status) == 200 <= status /\ status < 300

(* Faulty variant: 423 given a name of its own, outside the taxonomy. *)
kindForStatus_Locked(status) ==
    IF status = 423 THEN "locked" ELSE IF status >= 500 THEN "transient" ELSE "unknown"

kindForStatus(status) ==
    CASE status = 401 -> "unauthorized"
      [] status = 403 -> "forbidden"
      [] status = 404 -> "not_found"
      [] status = 422 -> "validation"
      [] status = 409 -> "conflict"
      [] status = 423 -> "archived"
      [] OTHER        -> IF status >= 500 THEN "transient" ELSE "unknown"

(***************************************************************************)
(* What an outcome lets the caller conclude about a write.  Only two kinds *)
(* leave it undecided: "transient", given for 5xx and for every request    *)
(* that got no complete answer, and "validation", which besides 422 also   *)
(* covers a 2xx answer the client could not decode.                        *)
(***************************************************************************)
Undecided == {"transient", "validation"}
Refusals  == ErrorKinds \ Undecided
=============================================================================
