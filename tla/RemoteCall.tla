----------------------------- MODULE RemoteCall -----------------------------
(***************************************************************************)
(* What one request to Forgejo promises the use case that makes it, with   *)
(* nothing said about networks, statuses or timeouts: the request takes    *)
(* effect at most once; a request reported "done" has taken effect; one    *)
(* reported "refused" has not and never will; only one reported            *)
(* "undecided" may still take effect after the report.                     *)
(***************************************************************************)
EXTENDS Naturals

CONSTANT Calls

VARIABLES executed,  \* executed[c]: how often Forgejo carried out c
          report     \* report[c]: what the caller of c was told

promiseVars == <<executed, report>>

Reports == {"none", "done", "refused", "undecided"}

Init ==
    /\ executed = [c \in Calls |-> 0]
    /\ report = [c \in Calls |-> "none"]

Execute(c) ==
    /\ executed[c] = 0
    /\ report[c] \in {"none", "undecided"}
    /\ executed' = [executed EXCEPT ![c] = 1]
    /\ UNCHANGED report

Tell(c) ==
    /\ report[c] = "none"
    /\ \E r \in Reports \ {"none"} :
          /\ r = "done" => executed[c] = 1
          /\ r = "refused" => executed[c] = 0
          /\ report' = [report EXCEPT ![c] = r]
    /\ UNCHANGED executed

Next == \E c \in Calls : Execute(c) \/ Tell(c)

Spec == Init /\ [][Next]_promiseVars
=============================================================================
