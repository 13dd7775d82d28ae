------------------------------- MODULE FileOps -------------------------------
(***************************************************************************)
(* forgejo_file_write and forgejo_file_delete (application.WriteFile and   *)
(* application.DeleteFile) on one path of one branch.  Each tool call      *)
(* probes the file, then commits with the blob SHA the probe returned,     *)
(* while other tool calls, and people pushing with git, change the file.   *)
(*                                                                         *)
(* Both requests are RemoteCalls, which ForgejoClient implements: here     *)
(* they are answered by an error kind or "ok", may be lost, and may be     *)
(* carried out after the tool call gave up.  A blob SHA is a function of   *)
(* the content, so a text stands for its own SHA: a file restored to an    *)
(* earlier text has its earlier SHA again.                                 *)
(***************************************************************************)
EXTENDS Taxonomy, Sequences, FiniteSets

CONSTANTS Ops,         \* tool calls
          Texts,       \* file contents
          Absent,      \* no file; as a SHA, none sent
          MaxForeign   \* bound on changes made outside this server

ASSUME FileAssumption == Absent \notin Texts /\ "foreign" \notin Ops /\ MaxForeign \in Nat

VARIABLES
    pc,        \* pc[o]: "idle", "probing", "committing" or "done"
    tool,      \* tool[o]: "write" or "delete", "none" before it starts
    text,      \* text[o]: what o writes (Absent for a delete)
    sha,       \* sha[o]: the SHA o's commit request carries
    wire,      \* wire[o]: o's latest request, or the answer to it
    outcome,   \* outcome[o]: what the tool call returned
    file,      \* the file at Forgejo
    log,       \* the branch's history: who replaced what by what
    probedAt   \* history: Len(log) when o's probe was answered

toolVars == <<pc, tool, text, sha, outcome>>
forgeVars == <<file, log, probedAt>>
vars == <<pc, tool, text, sha, wire, outcome, file, log, probedAt>>

Versions == Texts \cup {Absent}

Wire(at, req, res, blob) == [at |-> at, req |-> req, res |-> res, sha |-> blob]
Request(req, blob) == Wire("request", req, "none", blob)
Answer(req, res, blob) == Wire("answer", req, res, blob)
Nothing(at) == Wire(at, "none", "none", Absent)

Init ==
    /\ pc = [o \in Ops |-> "idle"]
    /\ tool = [o \in Ops |-> "none"]
    /\ text = [o \in Ops |-> Absent]
    /\ sha = [o \in Ops |-> Absent]
    /\ wire = [o \in Ops |-> Nothing("none")]
    /\ outcome = [o \in Ops |-> "none"]
    /\ file \in Versions
    /\ log = <<>>
    /\ probedAt = [o \in Ops |-> 0]

-----------------------------------------------------------------------------
(* The use cases. *)

(* Faulty variant: a blank path is reported but the call goes on. *)
Begin_GoesOn(o, name, t) ==
    /\ pc[o] = "idle"
    /\ tool' = [tool EXCEPT ![o] = name]
    /\ text' = [text EXCEPT ![o] = t]
    /\ pc' = [pc EXCEPT ![o] = "probing"]
    /\ wire' = [wire EXCEPT ![o] = Request("probe", Absent)]
    /\ \E err \in {"none", "validation"} : outcome' = [outcome EXCEPT ![o] = err]
    /\ UNCHANGED <<sha, forgeVars>>

Begin(o, name, t) ==
    /\ pc[o] = "idle"
    /\ tool' = [tool EXCEPT ![o] = name]
    /\ text' = [text EXCEPT ![o] = t]
    /\ \/ /\ pc' = [pc EXCEPT ![o] = "probing"]
          /\ wire' = [wire EXCEPT ![o] = Request("probe", Absent)]
          /\ UNCHANGED outcome
       \/ \* a blank path
          /\ pc' = [pc EXCEPT ![o] = "done"]
          /\ outcome' = [outcome EXCEPT ![o] = "validation"]
          /\ UNCHANGED wire
    /\ UNCHANGED <<sha, forgeVars>>

WriteFile(o) == \E t \in Texts : Begin(o, "write", t)

DeleteFile(o) == Begin(o, "delete", Absent)

Return(o, result) ==
    /\ pc' = [pc EXCEPT ![o] = "done"]
    /\ outcome' = [outcome EXCEPT ![o] = result]
    /\ UNCHANGED <<tool, text, sha, forgeVars>>

(* CreateFile sends no SHA, UpdateFile and DeleteFile the probed one. *)
Commit(o, req, blob) ==
    /\ pc' = [pc EXCEPT ![o] = "committing"]
    /\ sha' = [sha EXCEPT ![o] = blob]
    /\ wire' = [wire EXCEPT ![o] = Request(req, blob)]
    /\ UNCHANGED <<tool, text, outcome, forgeVars>>

(* What WriteFile does with the probe's answer. *)
WriteAfterProbe(o, a) ==
    \/ a.res = "ok" /\ Commit(o, "update", a.sha)
    \/ a.res = "not_found" /\ Commit(o, "create", Absent)
    \/ /\ a.res \notin {"ok", "not_found"}
       /\ wire' = [wire EXCEPT ![o] = Nothing("read")]
       /\ Return(o, a.res)

(* Faulty variant: the probed SHA is not put into the request. *)
DeleteAfterProbe_NoSHA(o, a) ==
    \/ a.res = "ok" /\ Commit(o, "delete", Absent)
    \/ /\ a.res # "ok"
       /\ wire' = [wire EXCEPT ![o] = Nothing("read")]
       /\ Return(o, a.res)

(* What DeleteFile does with it: any error ends the call. *)
DeleteAfterProbe(o, a) ==
    \/ a.res = "ok" /\ Commit(o, "delete", a.sha)
    \/ /\ a.res # "ok"
       /\ wire' = [wire EXCEPT ![o] = Nothing("read")]
       /\ Return(o, a.res)

TakeProbe(o) ==
    /\ pc[o] = "probing"
    /\ wire[o].at = "answer"
    /\ \/ tool[o] = "write" /\ WriteAfterProbe(o, wire[o])
       \/ tool[o] = "delete" /\ DeleteAfterProbe(o, wire[o])

(* Faulty variants: a conflict is resolved by committing over the version  *)
(* now there; the second request's error is dropped.                       *)
TakeCommit_Overrides(o) ==
    /\ pc[o] = "committing"
    /\ wire[o].at = "answer"
    /\ \/ /\ wire[o].res = "conflict"
          /\ Commit(o, IF file = Absent THEN "create" ELSE "update", file)
       \/ /\ wire[o].res # "conflict"
          /\ wire' = [wire EXCEPT ![o] = Nothing("read")]
          /\ Return(o, wire[o].res)

TakeCommit_DropsError(o) ==
    /\ pc[o] = "committing"
    /\ wire[o].at = "answer"
    /\ wire' = [wire EXCEPT ![o] = Nothing("read")]
    /\ Return(o, "ok")

TakeCommit(o) ==
    /\ pc[o] = "committing"
    /\ wire[o].at = "answer"
    /\ wire' = [wire EXCEPT ![o] = Nothing("read")]
    /\ Return(o, wire[o].res)

(* Faulty variant: only the probe is bounded by a timeout. *)
Fail_ProbeOnly(o) ==
    /\ pc[o] = "probing" \/ (pc[o] = "committing" /\ wire[o].at = "lost")
    /\ Return(o, "transient")
    /\ UNCHANGED wire

(* The request in hand failed or timed out; it may still be on the wire. *)
Fail(o) ==
    /\ pc[o] \in {"probing", "committing"}
    /\ Return(o, "transient")
    /\ UNCHANGED wire

-----------------------------------------------------------------------------
(* Forgejo, the network, and everybody else. *)

(* Errors that have nothing to do with the file's version: no permission,  *)
(* a fault of the server, an answer the client cannot decode (the probe of *)
(* a directory, say).                                                      *)
OtherErrors == {"forbidden", "transient", "validation"}

ServeProbe(o) ==
    /\ wire[o].at = "request" /\ wire[o].req = "probe"
    /\ \E res \in OtherErrors \cup {IF file = Absent THEN "not_found" ELSE "ok"} :
          wire' = [wire EXCEPT ![o] = Answer("probe", res, file)]
    /\ probedAt' = [probedAt EXCEPT ![o] = Len(log)]
    /\ UNCHANGED <<toolVars, file, log>>

Change(who, new) ==
    /\ log' = Append(log, [by |-> who, old |-> file, new |-> new])
    /\ file' = new

(* Forgejo creates only what is absent, and updates or deletes only the    *)
(* version whose SHA it is given.                                          *)
VersionMatches(req, blob) == (req = "create" => file = Absent)
                             /\ (req # "create" => file = blob /\ file # Absent)

ServeCommit(o) ==
    /\ wire[o].at = "request" /\ wire[o].req \in {"create", "update", "delete"}
    /\ \/ /\ VersionMatches(wire[o].req, wire[o].sha)
          /\ Change(o, text[o])
          /\ \E res \in {"ok", "transient", "validation"} :
                wire' = [wire EXCEPT ![o] = Answer(wire[o].req, res, Absent)]
       \/ /\ ~ VersionMatches(wire[o].req, wire[o].sha)
          /\ wire' = [wire EXCEPT ![o] = Answer(wire[o].req, "conflict", Absent)]
          /\ UNCHANGED <<file, log>>
       \/ /\ \E res \in OtherErrors :
                wire' = [wire EXCEPT ![o] = Answer(wire[o].req, res, Absent)]
          /\ UNCHANGED <<file, log>>
    /\ UNCHANGED <<toolVars, probedAt>>

Drop(o) ==
    /\ wire[o].at \in {"request", "answer"}
    /\ wire' = [wire EXCEPT ![o] = Nothing("lost")]
    /\ UNCHANGED <<toolVars, forgeVars>>

ForeignChange ==
    /\ Cardinality({i \in DOMAIN log : log[i].by = "foreign"}) < MaxForeign
    /\ \E v \in Versions \ {file} : Change("foreign", v)
    /\ UNCHANGED <<toolVars, wire, probedAt>>

-----------------------------------------------------------------------------
Next ==
    \/ \E o \in Ops :
          \/ WriteFile(o) \/ DeleteFile(o)
          \/ TakeProbe(o) \/ TakeCommit(o) \/ Fail(o)
          \/ ServeProbe(o) \/ ServeCommit(o) \/ Drop(o)
    \/ ForeignChange

(* Each of the two requests is bounded by the client's timeout. *)
Fairness == \A o \in Ops : WF_vars(Fail(o))

Spec == Init /\ [][Next]_vars /\ Fairness

-----------------------------------------------------------------------------
TypeOK ==
    /\ pc \in [Ops -> {"idle", "probing", "committing", "done"}]
    /\ tool \in [Ops -> {"none", "write", "delete"}]
    /\ text \in [Ops -> Versions]
    /\ sha \in [Ops -> Versions]
    /\ wire \in [Ops -> [at : {"none", "request", "answer", "read", "lost"},
                         req : {"none", "probe", "create", "update", "delete"},
                         res : {"none", "ok"} \cup ErrorKinds,
                         sha : Versions]]
    /\ outcome \in [Ops -> {"none", "ok"} \cup ErrorKinds]
    /\ file \in Versions
    /\ log \in Seq([by : Ops \cup {"foreign"}, old : Versions, new : Versions])
    /\ probedAt \in [Ops -> Nat]
    /\ \A o \in Ops : pc[o] = "done" <=> outcome[o] # "none"

CommitsBy(o) == {i \in DOMAIN log : log[i].by = o}

(* forgejo.go, UpdateFile: the SHA is sent "so Forgejo can detect          *)
(* concurrent modifications".  Whatever happened meanwhile, a tool call's  *)
(* commit replaces exactly the version it probed; it never buries a change *)
(* it has not seen.                                                        *)
VersionProbed(o) == IF probedAt[o] = 0 THEN log[1].old ELSE log[probedAt[o]].new

ReplacesWhatItProbed ==
    \A o \in Ops : \A i \in CommitsBy(o) : log[i].old = VersionProbed(o)

(* A conflict is never the tool's own doing: somebody else changed the     *)
(* file between its probe and its commit.                                  *)
ConflictMeansInterference ==
    \A o \in Ops : outcome[o] = "conflict" =>
        \E i \in (probedAt[o] + 1)..Len(log) : log[i].by # o

(* A tool call of two requests still keeps the promise of one: it commits  *)
(* at most once, an "ok" stands for one commit and a refusal for none,     *)
(* then or later.                                                          *)
Report(o) ==
    CASE o = "none" -> "none"
      [] o = "ok" -> "done"
      [] o \in Refusals -> "refused"
      [] o \in Undecided -> "undecided"

Promise == INSTANCE RemoteCall WITH
    Calls <- Ops,
    executed <- [o \in Ops |-> Cardinality(CommitsBy(o))],
    report <- [o \in Ops |-> Report(outcome[o])]

KeepsPromise == Promise!Spec

(* Every tool call returns, although Forgejo may answer neither request.   *)
EveryToolReturns == \A o \in Ops : pc[o] = "probing" ~> pc[o] = "done"
=============================================================================
