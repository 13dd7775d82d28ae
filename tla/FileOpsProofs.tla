----------------------------- MODULE FileOpsProofs -----------------------------
(***************************************************************************)
(* Proofs about FileOps for every set of tool calls and texts, and any     *)
(* number of foreign changes.                                              *)
(*                                                                         *)
(* ReplacesWhatItProbed and ConflictMeansInterference both compare the     *)
(* file when a commit is carried out with the file when it was probed.     *)
(* The history gives the version at every point (VersionAt), and OpInv     *)
(* says that whatever a tool call has on the wire carries the version at   *)
(* the point of its probe.                                                 *)
(***************************************************************************)
EXTENDS FileOps, FiniteSetTheorems, TLAPS

Commits == {"create", "update", "delete"}
Wires == [at : {"none", "request", "answer", "read", "lost"},
          req : {"none", "probe", "create", "update", "delete"},
          res : {"none", "ok"} \cup ErrorKinds, sha : Versions]

(* The file after the first n changes. *)
VersionAt(n) == IF n = Len(log) THEN file ELSE log[n + 1].old

History == \A i \in DOMAIN log : log[i].new = VersionAt(i)

Pending(o) == wire[o].at \in {"request", "answer"}

WireInv(o) ==
    /\ Pending(o) => /\ pc[o] # "idle"
                     /\ pc[o] = "probing" => wire[o].req = "probe"
                     /\ pc[o] = "committing" => wire[o].req \in Commits
                     /\ wire[o].req # "none"
    /\ wire[o].at = "answer" => wire[o].res # "none"
    /\ wire[o].at = "answer" /\ wire[o].req = "probe" =>
           /\ wire[o].res # "conflict"
           /\ wire[o].res = "ok" => /\ wire[o].sha = VersionAt(probedAt[o])
                                    /\ wire[o].sha # Absent
           /\ wire[o].res = "not_found" => VersionAt(probedAt[o]) = Absent
    /\ wire[o].at = "request" /\ wire[o].req = "create" => VersionAt(probedAt[o]) = Absent
    /\ wire[o].at = "request" /\ wire[o].req \in Commits \ {"create"} =>
           wire[o].sha = VersionAt(probedAt[o]) /\ wire[o].sha # Absent

Interfered(o) == \E i \in (probedAt[o] + 1)..Len(log) : log[i].by # o

(* Before the tool call's commit can have been carried out. *)
Uncommitted(o) ==
    \/ pc[o] = "idle"
    \/ wire[o].at = "request"
    \/ wire[o].at = "answer" /\ wire[o].req = "probe"

CommitInv(o) ==
    /\ probedAt[o] <= Len(log)
    /\ CommitsBy(o) = {} \/ \E i \in DOMAIN log : CommitsBy(o) = {i}
    /\ \A i \in CommitsBy(o) : log[i].old = VersionAt(probedAt[o])
    /\ Uncommitted(o) => CommitsBy(o) = {}
    /\ wire[o].at = "answer" /\ wire[o].req \in Commits =>
           /\ wire[o].res = "ok" => CommitsBy(o) # {}
           /\ wire[o].res \in Refusals => CommitsBy(o) = {}
           /\ wire[o].res = "conflict" => Interfered(o)
    /\ outcome[o] = "ok" => CommitsBy(o) # {}
    /\ outcome[o] \in Refusals => CommitsBy(o) = {} /\ ~ Pending(o)
    /\ outcome[o] = "conflict" => Interfered(o)

IInv ==
    /\ TypeOK
    /\ History
    /\ \A o \in Ops : WireInv(o) /\ CommitInv(o)

-----------------------------------------------------------------------------
LEMMA WireType ==
    ASSUME NEW at \in {"none", "request", "answer", "read", "lost"},
           NEW req \in {"none", "probe", "create", "update", "delete"},
           NEW res \in {"none", "ok"} \cup ErrorKinds, NEW blob \in Versions
    PROVE  Wire(at, req, res, blob) \in Wires
  BY DEF Wire, Wires

LEMMA InitInv == Init => IInv
  <1>. SUFFICES ASSUME Init PROVE IInv
    OBVIOUS
  <1>1. TypeOK
    <2>1. Nothing("none") \in Wires
      BY WireType DEF Nothing, Versions
    <2>. QED  BY <2>1 DEF Init, TypeOK, Versions, Wires
  <1>2. History
    BY DEF Init, History
  <1>3. ASSUME NEW o \in Ops PROVE WireInv(o) /\ CommitInv(o)
    <2>1. /\ wire[o].at = "none" /\ pc[o] = "idle" /\ outcome[o] = "none"
          /\ probedAt[o] = 0 /\ Len(log) = 0 /\ CommitsBy(o) = {}
      BY DEF Init, Nothing, Wire, CommitsBy
    <2>. QED  BY <2>1 DEF WireInv, CommitInv, Pending, Uncommitted, Refusals, ErrorKinds
  <1>. QED  BY <1>1, <1>2, <1>3 DEF IInv

-----------------------------------------------------------------------------
(* Steps of one tool call that leave the file and its history as they are. *)
Untouched(d) ==
    /\ pc'[d] = pc[d] /\ wire'[d] = wire[d] /\ outcome'[d] = outcome[d]
    /\ probedAt'[d] = probedAt[d]

LEMMA QuietStep ==
    ASSUME IInv, NEW o \in Ops, UNCHANGED <<file, log>>, TypeOK',
           \A d \in Ops \ {o} : Untouched(d),
           WireInv(o)' /\ CommitInv(o)'
    PROVE  IInv'
  <1>1. History' /\ \A n : VersionAt(n)' = VersionAt(n)
    BY DEF IInv, History, VersionAt
  <1>2. ASSUME NEW d \in Ops \ {o} PROVE WireInv(d)' /\ CommitInv(d)'
    BY DEF IInv, WireInv, CommitInv, Untouched, Pending, Uncommitted, Interfered,
           VersionAt, CommitsBy
  <1>. QED  BY <1>1, <1>2 DEF IInv

LEMMA BeginKeepsInv ==
    ASSUME IInv, NEW o \in Ops, NEW name \in {"write", "delete"}, NEW t \in Versions,
           Begin(o, name, t)
    PROVE  IInv'
  <1>1. /\ pc[o] = "idle" /\ TypeOK /\ WireInv(o) /\ CommitInv(o) /\ outcome[o] = "none"
        /\ wire[o].at # "request" /\ wire[o].at # "answer"
    BY DEF Begin, IInv, TypeOK, WireInv, Pending
  <1>2. /\ tool' \in [Ops -> {"none", "write", "delete"}] /\ text' \in [Ops -> Versions]
        /\ UNCHANGED <<sha, file, log, probedAt>>
    BY <1>1 DEF Begin, TypeOK, forgeVars
  <1>3. CASE /\ pc' = [pc EXCEPT ![o] = "probing"]
             /\ wire' = [wire EXCEPT ![o] = Request("probe", Absent)]
             /\ UNCHANGED outcome
    <2>1. Request("probe", Absent) \in Wires
      BY WireType DEF Request, Versions
    <2>2. TypeOK'
      BY <1>1, <1>2, <1>3, <2>1 DEF TypeOK, Wires
    <2>3. \A d \in Ops \ {o} : Untouched(d)
      BY <1>1, <1>2, <1>3 DEF TypeOK, Untouched
    <2>4. pc'[o] = "probing" /\ wire'[o] = Request("probe", Absent)
      BY <1>1, <1>3 DEF TypeOK
    <2>5. WireInv(o)'
      BY <2>4 DEF WireInv, Pending, Request, Wire, Commits
    <2>6. CommitInv(o)'
      BY <1>1, <1>2, <1>3, <2>4
      DEF CommitInv, Uncommitted, Interfered, CommitsBy, VersionAt, Request, Wire, Refusals, ErrorKinds
    <2>. QED  BY <1>2, <2>2, <2>3, <2>5, <2>6, QuietStep
  <1>4. CASE /\ pc' = [pc EXCEPT ![o] = "done"]
             /\ outcome' = [outcome EXCEPT ![o] = "validation"]
             /\ UNCHANGED wire
    <2>1. TypeOK'
      BY <1>1, <1>2, <1>4 DEF TypeOK, ErrorKinds
    <2>2. \A d \in Ops \ {o} : Untouched(d)
      BY <1>1, <1>2, <1>4 DEF TypeOK, Untouched
    <2>3. pc'[o] = "done" /\ outcome'[o] = "validation"
      BY <1>1, <1>4 DEF TypeOK
    <2>4. WireInv(o)'
      BY <1>1, <1>2, <1>4, <2>3 DEF WireInv, Pending, VersionAt
    <2>5. CommitInv(o)'
      BY <1>1, <1>2, <1>4, <2>3
      DEF CommitInv, Uncommitted, Interfered, CommitsBy, VersionAt, Refusals, Undecided
    <2>. QED  BY <1>2, <2>1, <2>2, <2>4, <2>5, QuietStep
  <1>. QED  BY <1>3, <1>4 DEF Begin

(* A tool call returns, the answer read or its request left on the wire.   *)
LEMMA ReturnKeepsInv ==
    ASSUME IInv, NEW o \in Ops, NEW result \in {"ok"} \cup ErrorKinds,
           pc[o] \in {"probing", "committing"}, Return(o, result),
           \/ UNCHANGED wire /\ result \in Undecided
           \/ wire' = [wire EXCEPT ![o] = Nothing("read")],
           result = "ok" => CommitsBy(o) # {},
           result \in Refusals => CommitsBy(o) = {},
           result = "conflict" => Interfered(o)
    PROVE  IInv'
  <1>1. TypeOK /\ WireInv(o) /\ CommitInv(o)
    BY DEF IInv
  <1>2. /\ pc' = [pc EXCEPT ![o] = "done"] /\ outcome' = [outcome EXCEPT ![o] = result]
        /\ UNCHANGED <<tool, text, sha, file, log, probedAt>>
    BY DEF Return, forgeVars
  <1>3. Nothing("read") \in Wires /\ result # "none"
    BY WireType DEF Nothing, Versions, ErrorKinds
  <1>4. TypeOK'
    <2>1. wire' \in [Ops -> Wires]
      BY <1>1, <1>3 DEF TypeOK, Wires
    <2>. QED  BY <1>1, <1>2, <1>3, <2>1 DEF TypeOK, Wires
  <1>5. \A d \in Ops \ {o} : Untouched(d)
    BY <1>1, <1>2 DEF TypeOK, Untouched
  <1>6. pc'[o] = "done" /\ outcome'[o] = result
    BY <1>1, <1>2 DEF TypeOK
  <1>7. CASE wire' = [wire EXCEPT ![o] = Nothing("read")]
    <2>1. wire'[o].at = "read"
      BY <1>1, <1>7 DEF TypeOK, Nothing, Wire
    <2>2. WireInv(o)'
      BY <2>1 DEF WireInv, Pending
    <2>3. CommitInv(o)'
      BY <1>1, <1>2, <1>6, <2>1 DEF CommitInv, Pending, Uncommitted, Interfered, CommitsBy, VersionAt
    <2>. QED  BY <1>2, <1>4, <1>5, <2>2, <2>3, QuietStep
  <1>8. CASE UNCHANGED wire /\ result \in Undecided
    <2>1. WireInv(o)'
      BY <1>1, <1>2, <1>6, <1>8 DEF WireInv, Pending, VersionAt
    <2>2. CommitInv(o)'
      <3>1. result \notin Refusals /\ result # "ok" /\ result # "conflict"
        BY <1>8 DEF Refusals, Undecided
      <3>2. Uncommitted(o)' => Uncommitted(o)
        BY <1>6, <1>8 DEF Uncommitted
      <3>. QED  BY <1>1, <1>2, <1>6, <1>8, <3>1, <3>2
                DEF CommitInv, Interfered, CommitsBy, VersionAt
    <2>. QED  BY <1>2, <1>4, <1>5, <2>1, <2>2, QuietStep
  <1>. QED  BY <1>7, <1>8

LEMMA CommitKeepsInv ==
    ASSUME IInv, NEW o \in Ops, NEW req \in Commits, NEW blob \in Versions,
           pc[o] = "probing", CommitsBy(o) = {}, Commit(o, req, blob),
           IF req = "create" THEN VersionAt(probedAt[o]) = Absent
           ELSE blob = VersionAt(probedAt[o]) /\ blob # Absent
    PROVE  IInv'
  <1>1. TypeOK /\ CommitInv(o) /\ outcome[o] = "none"
    BY DEF IInv, TypeOK
  <1>2. /\ pc' = [pc EXCEPT ![o] = "committing"] /\ sha' = [sha EXCEPT ![o] = blob]
        /\ wire' = [wire EXCEPT ![o] = Request(req, blob)]
        /\ UNCHANGED <<tool, text, outcome, file, log, probedAt>>
    BY DEF Commit, forgeVars
  <1>3. Request(req, blob) \in Wires
    BY WireType DEF Request, Commits
  <1>4. TypeOK'
    BY <1>1, <1>2, <1>3 DEF TypeOK, Wires
  <1>5. \A d \in Ops \ {o} : Untouched(d)
    BY <1>1, <1>2 DEF TypeOK, Untouched
  <1>6. /\ pc'[o] = "committing" /\ wire'[o].at = "request"
        /\ wire'[o].req = req /\ wire'[o].sha = blob
    BY <1>1, <1>2 DEF TypeOK, Request, Wire
  <1>7. WireInv(o)'
    BY <1>2, <1>6 DEF WireInv, Pending, VersionAt, Commits
  <1>8. CommitInv(o)'
    BY <1>1, <1>2, <1>6 DEF CommitInv, Uncommitted, Interfered, CommitsBy, VersionAt, Refusals, ErrorKinds
  <1>. QED  BY <1>2, <1>4, <1>5, <1>7, <1>8, QuietStep

LEMMA TakeProbeKeepsInv ==
    ASSUME IInv, NEW o \in Ops, TakeProbe(o)
    PROVE  IInv'
  <1>1. /\ pc[o] = "probing" /\ wire[o].at = "answer" /\ WireInv(o) /\ CommitInv(o)
        /\ wire[o] \in Wires
    BY DEF TakeProbe, IInv, TypeOK, Wires
  <1>2. wire[o].req = "probe" /\ CommitsBy(o) = {} /\ wire[o].sha \in Versions
    BY <1>1 DEF WireInv, CommitInv, Pending, Uncommitted, Wires
  <1>3. CASE Commit(o, "update", wire[o].sha) /\ wire[o].res = "ok"
    BY <1>1, <1>2, <1>3, CommitKeepsInv DEF WireInv, Commits
  <1>4. CASE Commit(o, "create", Absent) /\ wire[o].res = "not_found"
    BY <1>1, <1>2, <1>4, CommitKeepsInv DEF WireInv, Commits, Versions
  <1>5. CASE Commit(o, "delete", wire[o].sha) /\ wire[o].res = "ok"
    BY <1>1, <1>2, <1>5, CommitKeepsInv DEF WireInv, Commits
  <1>6. CASE /\ wire[o].res # "ok" /\ wire' = [wire EXCEPT ![o] = Nothing("read")]
             /\ Return(o, wire[o].res)
    <2>1. wire[o].res \in ErrorKinds /\ wire[o].res # "conflict"
      BY <1>1, <1>2, <1>6 DEF WireInv, Wires
    <2>. QED  BY <1>1, <1>2, <1>6, <2>1, ReturnKeepsInv
  <1>. QED  BY <1>3, <1>4, <1>5, <1>6 DEF TakeProbe, WriteAfterProbe, DeleteAfterProbe

LEMMA TakeCommitKeepsInv ==
    ASSUME IInv, NEW o \in Ops, TakeCommit(o)
    PROVE  IInv'
  <1>1. /\ pc[o] = "committing" /\ wire[o].at = "answer" /\ WireInv(o) /\ CommitInv(o)
        /\ wire[o] \in Wires
    BY DEF TakeCommit, IInv, TypeOK, Wires
  <1>2. wire[o].req \in Commits /\ wire[o].res \in {"ok"} \cup ErrorKinds
    BY <1>1 DEF WireInv, Pending, Wires
  <1>. QED  BY <1>1, <1>2, ReturnKeepsInv DEF TakeCommit, CommitInv

LEMMA FailKeepsInv ==
    ASSUME IInv, NEW o \in Ops, Fail(o)
    PROVE  IInv'
  <1>1. /\ "transient" \in {"ok"} \cup ErrorKinds /\ "transient" \in Undecided
        /\ "transient" \notin Refusals
    BY DEF ErrorKinds, Undecided, Refusals
  <1>. QED  BY <1>1, ReturnKeepsInv DEF Fail

-----------------------------------------------------------------------------
LEMMA ServeProbeKeepsInv ==
    ASSUME IInv, NEW o \in Ops, ServeProbe(o)
    PROVE  IInv'
  <1>1. /\ TypeOK /\ WireInv(o) /\ CommitInv(o) /\ CommitsBy(o) = {}
        /\ wire[o].at = "request" /\ wire[o].req = "probe" /\ Len(log) \in Nat
        /\ outcome[o] # "ok" /\ outcome[o] \notin Refusals /\ outcome[o] # "conflict"
    <2>1. TypeOK /\ WireInv(o) /\ CommitInv(o) /\ wire[o].at = "request" /\ wire[o].req = "probe"
      BY DEF IInv, ServeProbe
    <2>2. CommitsBy(o) = {} /\ outcome[o] # "ok" /\ outcome[o] \notin Refusals
      BY <2>1 DEF CommitInv, Uncommitted, Pending
    <2>3. "conflict" \in Refusals
      BY DEF Refusals, Undecided, ErrorKinds
    <2>. QED  BY <2>1, <2>2, <2>3 DEF TypeOK
  <1>2. PICK res \in OtherErrors \cup {IF file = Absent THEN "not_found" ELSE "ok"} :
                 wire' = [wire EXCEPT ![o] = Answer("probe", res, file)]
    BY DEF ServeProbe
  <1>3. /\ probedAt' = [probedAt EXCEPT ![o] = Len(log)]
        /\ UNCHANGED <<pc, tool, text, sha, outcome, file, log>>
    BY DEF ServeProbe, toolVars
  <1>4. /\ res \in {"ok"} \cup ErrorKinds /\ res # "conflict" /\ res # "none"
        /\ res = "ok" => file # Absent
        /\ res = "not_found" => file = Absent
    BY <1>2 DEF OtherErrors, ErrorKinds
  <1>5. Answer("probe", res, file) \in Wires
    BY <1>1, <1>4, WireType DEF Answer, TypeOK
  <1>6. TypeOK'
    BY <1>1, <1>2, <1>3, <1>5 DEF TypeOK, Wires
  <1>7. \A d \in Ops \ {o} : Untouched(d)
    BY <1>1, <1>2, <1>3 DEF TypeOK, Untouched
  <1>8. /\ probedAt'[o] = Len(log) /\ VersionAt(Len(log)) = file
        /\ wire'[o].at = "answer" /\ wire'[o].req = "probe"
        /\ wire'[o].res = res /\ wire'[o].sha = file
    BY <1>1, <1>2, <1>3 DEF TypeOK, VersionAt, Answer, Wire
  <1>9. WireInv(o)'
    BY <1>1, <1>3, <1>4, <1>8 DEF WireInv, Pending, VersionAt
  <1>10. CommitInv(o)'
    BY <1>1, <1>3, <1>8 DEF CommitInv, Uncommitted, CommitsBy, Commits
  <1>. QED  BY <1>3, <1>6, <1>7, <1>9, <1>10, QuietStep

LEMMA DropKeepsInv ==
    ASSUME IInv, NEW o \in Ops, Drop(o)
    PROVE  IInv'
  <1>1. TypeOK /\ WireInv(o) /\ CommitInv(o) /\ Pending(o) /\ pc[o] # "idle"
    BY DEF IInv, Drop, Pending, WireInv
  <1>2. /\ wire' = [wire EXCEPT ![o] = Nothing("lost")]
        /\ UNCHANGED <<pc, tool, text, sha, outcome, file, log, probedAt>>
    BY DEF Drop, toolVars, forgeVars
  <1>3. Nothing("lost") \in Wires
    BY WireType DEF Nothing, Versions
  <1>4. TypeOK'
    BY <1>1, <1>2, <1>3 DEF TypeOK, Wires
  <1>5. \A d \in Ops \ {o} : Untouched(d)
    BY <1>1, <1>2 DEF TypeOK, Untouched
  <1>6. wire'[o].at = "lost"
    BY <1>1, <1>2 DEF TypeOK, Nothing, Wire
  <1>7. WireInv(o)'
    BY <1>6 DEF WireInv, Pending
  <1>8. CommitInv(o)'
    BY <1>1, <1>2, <1>6 DEF CommitInv, Uncommitted, Interfered, CommitsBy, VersionAt, Pending
  <1>. QED  BY <1>2, <1>4, <1>5, <1>7, <1>8, QuietStep

(* A commit that Forgejo does not carry out. *)
LEMMA RefusalKeepsInv ==
    ASSUME IInv, NEW o \in Ops, NEW res \in OtherErrors \cup {"conflict"},
           wire[o].at = "request", wire[o].req \in Commits,
           res = "conflict" => ~ VersionMatches(wire[o].req, wire[o].sha),
           wire' = [wire EXCEPT ![o] = Answer(wire[o].req, res, Absent)],
           UNCHANGED <<pc, tool, text, sha, outcome, file, log, probedAt>>
    PROVE  IInv'
  <1>1. TypeOK /\ WireInv(o) /\ CommitInv(o) /\ Pending(o)
    BY DEF IInv, Pending
  <1>2. /\ CommitsBy(o) = {} /\ probedAt[o] \in 0..Len(log) /\ Len(log) \in Nat
        /\ DOMAIN log = 1..Len(log)
    BY <1>1 DEF CommitInv, Uncommitted, TypeOK
  <1>3. res = "conflict" => Interfered(o)
    <2>. SUFFICES ASSUME res = "conflict" PROVE Interfered(o)
      OBVIOUS
    <2>1. file # VersionAt(probedAt[o])
      BY <1>1 DEF VersionMatches, WireInv, Commits
    <2>2. probedAt[o] # Len(log)
      BY <2>1 DEF VersionAt
    <2>3. Len(log) \in (probedAt[o] + 1)..Len(log) /\ Len(log) \in DOMAIN log
      BY <1>2, <2>2
    <2>4. log[Len(log)].by # o
      BY <1>2, <2>3 DEF CommitsBy
    <2>. QED  BY <2>3, <2>4 DEF Interfered
  <1>4. res \in {"ok"} \cup ErrorKinds /\ res # "none" /\ res # "ok"
    BY DEF OtherErrors, ErrorKinds
  <1>5. Answer(wire[o].req, res, Absent) \in Wires
    BY <1>4, WireType DEF Answer, Commits, Versions
  <1>6. TypeOK'
    BY <1>1, <1>5 DEF TypeOK, Wires
  <1>7. \A d \in Ops \ {o} : Untouched(d)
    BY <1>1 DEF TypeOK, Untouched
  <1>8. wire'[o].at = "answer" /\ wire'[o].req = wire[o].req /\ wire'[o].res = res
    BY <1>1 DEF TypeOK, Answer, Wire
  <1>9. WireInv(o)'
    BY <1>1, <1>4, <1>8 DEF WireInv, Pending, Commits
  <1>10. CommitInv(o)'
    BY <1>1, <1>2, <1>3, <1>4, <1>8
    DEF CommitInv, Uncommitted, Interfered, CommitsBy, VersionAt, Pending, Commits
  <1>. QED  BY <1>6, <1>7, <1>9, <1>10, QuietStep

-----------------------------------------------------------------------------
(* A change of the file, by a tool call whose commit is on the wire or by  *)
(* somebody else.                                                          *)
LEMMA ChangeExtends ==
    ASSUME IInv, NEW who \in Ops \cup {"foreign"}, NEW new \in Versions, Change(who, new)
    PROVE  /\ file' \in Versions
           /\ log' \in Seq([by : Ops \cup {"foreign"}, old : Versions, new : Versions])
           /\ Len(log) \in Nat /\ Len(log') = Len(log) + 1
           /\ log'[Len(log) + 1] = [by |-> who, old |-> file, new |-> new]
           /\ \A i \in DOMAIN log : i \in DOMAIN log' /\ log'[i] = log[i]
           /\ \A i \in DOMAIN log' : i \in DOMAIN log \/ i = Len(log) + 1
           /\ \A n \in 0..Len(log) : VersionAt(n)' = VersionAt(n)
           /\ History'
           /\ CommitsBy(who)' = CommitsBy(who) \cup {Len(log) + 1}
           /\ \A d \in Ops : d # who => CommitsBy(d)' = CommitsBy(d)
  <1>. DEFINE entry == [by |-> who, old |-> file, new |-> new]
  <1>1. /\ log \in Seq([by : Ops \cup {"foreign"}, old : Versions, new : Versions])
        /\ entry \in [by : Ops \cup {"foreign"}, old : Versions, new : Versions]
        /\ log' = Append(log, entry) /\ file' = new
    BY DEF IInv, TypeOK, Change
  <1>2. /\ log' \in Seq([by : Ops \cup {"foreign"}, old : Versions, new : Versions])
        /\ Len(log) \in Nat /\ Len(log') = Len(log) + 1
        /\ DOMAIN log = 1..Len(log) /\ DOMAIN log' = 1..(Len(log) + 1)
        /\ log'[Len(log) + 1] = entry
        /\ \A i \in DOMAIN log : log'[i] = log[i]
    BY <1>1
  <1>3. ASSUME NEW n \in 0..Len(log) PROVE VersionAt(n)' = VersionAt(n)
    <2>. DEFINE L == Len(log)
    <2>1. L \in Nat /\ n \in 0..L /\ DOMAIN log = 1..L /\ Len(log') = L + 1
      BY <1>2
    <2>2. CASE n = L
      <3>1. n # Len(log') /\ log'[n + 1].old = file
        <4>. HIDE DEF L
        <4>1. n # Len(log')
          BY <2>1, <2>2
        <4>2. log'[Len(log) + 1].old = file
          BY <1>2
        <4>. QED  BY <2>2, <4>1, <4>2 DEF L
      <3>. QED  BY <2>2, <3>1 DEF VersionAt
    <2>3. CASE n # L
      <3>1. n + 1 \in DOMAIN log /\ n # Len(log')
        <4>. HIDE DEF L
        <4>. QED  BY <2>1, <2>3
      <3>. QED  BY <1>2, <2>3, <3>1 DEF VersionAt
    <2>. QED  BY <2>2, <2>3
  <1>4. ASSUME NEW i \in DOMAIN log' PROVE (log[i].new = VersionAt(i))'
    <2>1. CASE i \in DOMAIN log
      BY <1>2, <1>3, <2>1 DEF IInv, History
    <2>2. CASE i = Len(log) + 1
      BY <1>1, <1>2, <2>2 DEF VersionAt
    <2>. QED  BY <1>2, <2>1, <2>2
  <1>5. CommitsBy(who)' = CommitsBy(who) \cup {Len(log) + 1}
    BY <1>2 DEF CommitsBy
  <1>6. ASSUME NEW d \in Ops, d # who PROVE CommitsBy(d)' = CommitsBy(d)
    BY <1>2, <1>6 DEF CommitsBy
  <1>. QED  BY <1>1, <1>2, <1>3, <1>4, <1>5, <1>6 DEF History

LEMMA OthersKeepInv ==
    ASSUME IInv, NEW who \in Ops \cup {"foreign"}, NEW new \in Versions, Change(who, new),
           NEW d \in Ops, d # who, Untouched(d)
    PROVE  WireInv(d)' /\ CommitInv(d)'
  <1>1. /\ WireInv(d) /\ CommitInv(d) /\ probedAt[d] \in 0..Len(log)
        /\ CommitsBy(d) \subseteq DOMAIN log /\ DOMAIN log = 1..Len(log)
    <2>1. WireInv(d) /\ CommitInv(d) /\ probedAt[d] <= Len(log) /\ probedAt[d] \in Nat
      BY DEF IInv, TypeOK, CommitInv
    <2>2. Len(log) \in Nat /\ DOMAIN log = 1..Len(log)
      BY DEF IInv, TypeOK
    <2>. QED  BY <2>1, <2>2 DEF CommitsBy
  <1>2. /\ VersionAt(probedAt[d])' = VersionAt(probedAt[d])
        /\ CommitsBy(d)' = CommitsBy(d)
        /\ Len(log) \in Nat /\ Len(log') = Len(log) + 1
        /\ \A i \in DOMAIN log : i \in DOMAIN log' /\ log'[i] = log[i]
    BY <1>1, ChangeExtends DEF Untouched, VersionAt
  <1>3. Interfered(d) => Interfered(d)'
    BY <1>1, <1>2 DEF Interfered, Untouched
  <1>4. WireInv(d)'
    BY <1>1, <1>2 DEF WireInv, Pending, Untouched
  <1>5. CommitInv(d)'
    BY <1>1, <1>2, <1>3 DEF CommitInv, Uncommitted, Pending, Untouched
  <1>. QED  BY <1>4, <1>5

LEMMA ForeignKeepsInv ==
    ASSUME IInv, ForeignChange
    PROVE  IInv'
  <1>1. PICK new \in Versions : Change("foreign", new)
    BY DEF ForeignChange
  <1>2. UNCHANGED <<pc, tool, text, sha, outcome, wire, probedAt>> /\ TypeOK
    BY DEF ForeignChange, toolVars, IInv
  <1>3. /\ file' \in Versions /\ History'
        /\ log' \in Seq([by : Ops \cup {"foreign"}, old : Versions, new : Versions])
    BY <1>1, ChangeExtends
  <1>4. TypeOK'
    BY <1>2, <1>3 DEF TypeOK
  <1>5. ASSUME NEW d \in Ops PROVE WireInv(d)' /\ CommitInv(d)'
    <2>1. d # "foreign" /\ Untouched(d)
      BY <1>2, FileAssumption DEF Untouched
    <2>. QED  BY <1>1, <2>1, OthersKeepInv
  <1>. QED  BY <1>3, <1>4, <1>5 DEF IInv

LEMMA CarriedOutKeepsInv ==
    ASSUME IInv, NEW o \in Ops, NEW res \in {"ok", "transient", "validation"},
           wire[o].at = "request", wire[o].req \in Commits,
           VersionMatches(wire[o].req, wire[o].sha), Change(o, text[o]),
           wire' = [wire EXCEPT ![o] = Answer(wire[o].req, res, Absent)],
           UNCHANGED <<pc, tool, text, sha, outcome, probedAt>>
    PROVE  IInv'
  <1>1. /\ TypeOK /\ WireInv(o) /\ CommitInv(o) /\ Pending(o) /\ text[o] \in Versions
        /\ CommitsBy(o) = {} /\ probedAt[o] \in 0..Len(log)
        /\ outcome[o] # "ok" /\ outcome[o] \notin Refusals
    BY DEF IInv, Pending, TypeOK, CommitInv, Uncommitted
  <1>2. VersionAt(probedAt[o]) = file
    BY <1>1 DEF VersionMatches, WireInv, Commits
  <1>3. /\ file' \in Versions /\ History'
        /\ log' \in Seq([by : Ops \cup {"foreign"}, old : Versions, new : Versions])
        /\ CommitsBy(o)' = {Len(log) + 1} /\ Len(log) \in Nat /\ Len(log') = Len(log) + 1
        /\ log'[Len(log) + 1].old = file
        /\ VersionAt(probedAt[o])' = VersionAt(probedAt[o])
    <2>1. /\ \A n \in 0..Len(log) : VersionAt(n)' = VersionAt(n)
          /\ probedAt'[o] = probedAt[o]
      BY <1>1, ChangeExtends
    <2>2. VersionAt(probedAt[o])' = VersionAt(probedAt[o])
      BY <1>1, <2>1 DEF VersionAt
    <2>3. log'[Len(log) + 1] = [by |-> o, old |-> file, new |-> text[o]]
      BY <1>1, ChangeExtends
    <2>4. log'[Len(log) + 1].old = file
      BY <2>3
    <2>. QED  BY <1>1, <2>2, <2>4, ChangeExtends
  <1>4. res \in {"ok"} \cup ErrorKinds /\ res # "none" /\ res # "conflict" /\ res \notin Refusals
    BY DEF ErrorKinds, Refusals, Undecided
  <1>5. Answer(wire[o].req, res, Absent) \in Wires
    BY <1>4, WireType DEF Answer, Commits, Versions
  <1>6. TypeOK'
    BY <1>1, <1>3, <1>5 DEF TypeOK, Wires
  <1>7. wire'[o].at = "answer" /\ wire'[o].req = wire[o].req /\ wire'[o].res = res
    BY <1>1 DEF TypeOK, Answer, Wire
  <1>8. WireInv(o)'
    BY <1>1, <1>4, <1>7 DEF WireInv, Pending, Commits
  <1>9. CommitInv(o)'
    <2>1. "conflict" \in Refusals /\ Len(log) + 1 \in DOMAIN log'
      BY <1>3 DEF Refusals, ErrorKinds, Undecided
    <2>. QED  BY <1>1, <1>2, <1>3, <1>4, <1>7, <2>1 DEF CommitInv, Uncommitted, Commits, Pending, WireInv
  <1>10. ASSUME NEW d \in Ops, d # o PROVE WireInv(d)' /\ CommitInv(d)'
    <2>1. Untouched(d)
      BY <1>1, <1>10 DEF Untouched, TypeOK
    <2>. QED  BY <1>1, <1>10, <2>1, OthersKeepInv
  <1>. QED  BY <1>3, <1>6, <1>8, <1>9, <1>10 DEF IInv

LEMMA ServeCommitKeepsInv ==
    ASSUME IInv, NEW o \in Ops, ServeCommit(o)
    PROVE  IInv'
  <1>1. /\ wire[o].at = "request" /\ wire[o].req \in Commits
        /\ UNCHANGED <<pc, tool, text, sha, outcome, probedAt>>
    BY DEF ServeCommit, toolVars, Commits
  <1>2. ASSUME NEW res \in {"ok", "transient", "validation"},
               VersionMatches(wire[o].req, wire[o].sha), Change(o, text[o]),
               wire' = [wire EXCEPT ![o] = Answer(wire[o].req, res, Absent)]
        PROVE  IInv'
    BY <1>1, <1>2, CarriedOutKeepsInv
  <1>3. ASSUME ~ VersionMatches(wire[o].req, wire[o].sha), UNCHANGED <<file, log>>,
               wire' = [wire EXCEPT ![o] = Answer(wire[o].req, "conflict", Absent)]
        PROVE  IInv'
    BY <1>1, <1>3, RefusalKeepsInv
  <1>4. ASSUME NEW res \in OtherErrors, UNCHANGED <<file, log>>,
               wire' = [wire EXCEPT ![o] = Answer(wire[o].req, res, Absent)]
        PROVE  IInv'
    <2>1. res # "conflict"
      BY DEF OtherErrors
    <2>. QED  BY <1>1, <1>4, <2>1, RefusalKeepsInv
  <1>. QED  BY <1>2, <1>3, <1>4 DEF ServeCommit

-----------------------------------------------------------------------------
LEMMA StepKeepsInv == IInv /\ [Next]_vars => IInv'
  <1>. SUFFICES ASSUME IInv, [Next]_vars PROVE IInv'
    OBVIOUS
  <1>1. CASE UNCHANGED vars
    <2>1. UNCHANGED <<file, log>> /\ \A o \in Ops : Untouched(o)
      BY <1>1 DEF vars, Untouched
    <2>2. TypeOK'
      BY <1>1 DEF vars, IInv, TypeOK
    <2>3. History'
      BY <1>1 DEF vars, IInv, History, VersionAt
    <2>4. ASSUME NEW o \in Ops PROVE WireInv(o)' /\ CommitInv(o)'
      BY <2>1 DEF IInv, WireInv, CommitInv, Untouched, Pending, Uncommitted, Interfered,
                  VersionAt, CommitsBy
    <2>. QED  BY <2>2, <2>3, <2>4 DEF IInv
  <1>2. CASE ForeignChange
    BY <1>2, ForeignKeepsInv
  <1>3. ASSUME NEW o \in Ops, WriteFile(o) \/ DeleteFile(o) PROVE IInv'
    BY <1>3, BeginKeepsInv DEF WriteFile, DeleteFile, Versions
  <1>4. ASSUME NEW o \in Ops,
               \/ TakeProbe(o) \/ TakeCommit(o) \/ Fail(o)
               \/ ServeProbe(o) \/ ServeCommit(o) \/ Drop(o)
        PROVE  IInv'
    BY <1>4, TakeProbeKeepsInv, TakeCommitKeepsInv, FailKeepsInv,
       ServeProbeKeepsInv, ServeCommitKeepsInv, DropKeepsInv
  <1>. QED  BY <1>1, <1>2, <1>3, <1>4 DEF Next

LEMMA Invariance == Spec => []IInv
  BY InitInv, StepKeepsInv, PTL DEF Spec

(* Every variable of the tool calls and of the file keeps its type, and a  *)
(* call has an outcome exactly when it is done.                            *)
THEOREM TypeCorrect == Spec => []TypeOK
  <1>1. IInv => TypeOK
    BY DEF IInv
  <1>. QED  BY <1>1, Invariance, PTL

(* Whatever is pushed between the two requests of forgejo_file_write and   *)
(* forgejo_file_delete, the commit replaces the version that was probed.   *)
THEOREM ReplacesOnlyWhatItProbed == Spec => []ReplacesWhatItProbed
  <1>1. ASSUME IInv, NEW o \in Ops, NEW i \in CommitsBy(o)
        PROVE  log[i].old = VersionProbed(o)
    <2>1. /\ log[i].old = VersionAt(probedAt[o]) /\ probedAt[o] \in 0..Len(log)
          /\ DOMAIN log = 1..Len(log) /\ i \in DOMAIN log
      BY <1>1 DEF IInv, CommitInv, CommitsBy, TypeOK
    <2>2. CASE probedAt[o] = 0
      BY <2>1, <2>2 DEF VersionProbed, VersionAt
    <2>3. CASE probedAt[o] # 0
      <3>1. probedAt[o] \in DOMAIN log
        BY <2>1, <2>3
      <3>. QED  BY <1>1, <2>1, <2>3, <3>1 DEF VersionProbed, IInv, History
    <2>. QED  BY <2>2, <2>3
  <1>2. IInv => ReplacesWhatItProbed
    BY <1>1 DEF ReplacesWhatItProbed
  <1>. QED  BY <1>2, Invariance, PTL

(* A tool call that reports a conflict was overtaken by somebody else.     *)
THEOREM ConflictsAreOthers == Spec => []ConflictMeansInterference
  <1>1. IInv => ConflictMeansInterference
    BY DEF IInv, CommitInv, Interfered, ConflictMeansInterference
  <1>. QED  BY <1>1, Invariance, PTL

-----------------------------------------------------------------------------
(* The refinement: what a tool call has committed, as RemoteCall counts it. *)
LEMMA CommitsCounted ==
    ASSUME IInv, NEW o \in Ops
    PROVE  Cardinality(CommitsBy(o)) = IF CommitsBy(o) = {} THEN 0 ELSE 1
  <1>1. CASE CommitsBy(o) = {}
    BY <1>1, FS_EmptySet
  <1>2. CASE \E i \in DOMAIN log : CommitsBy(o) = {i}
    BY <1>2, FS_Singleton
  <1>. QED  BY <1>1, <1>2 DEF IInv, CommitInv

LEMMA ReportValues ==
    /\ Report("none") = "none" /\ Report("ok") = "done"
    /\ \A k \in Refusals : Report(k) = "refused"
    /\ \A k \in Undecided : Report(k) = "undecided"
    /\ ErrorKinds = Refusals \cup Undecided
  BY DEF Report, Refusals, Undecided, ErrorKinds

executed == [o \in Ops |-> Cardinality(CommitsBy(o))]
report == [o \in Ops |-> Report(outcome[o])]

(* Being told: the commits stay what they are, and one call gets a result. *)
LEMMA ReturnTells ==
    ASSUME IInv, IInv', NEW o \in Ops, NEW result \in {"ok"} \cup ErrorKinds,
           pc[o] # "done", outcome' = [outcome EXCEPT ![o] = result], UNCHANGED log
    PROVE  Promise!Tell(o)
  <1>1. outcome[o] = "none" /\ outcome \in [Ops -> {"none", "ok"} \cup ErrorKinds]
        /\ outcome'[o] = result
    BY DEF IInv, TypeOK
  <1>2. CommitsBy(o)' = CommitsBy(o) /\ executed' = executed
    BY DEF CommitsBy, executed
  <1>3. report' = [report EXCEPT ![o] = Report(result)] /\ report[o] = "none"
    BY <1>1, ReportValues DEF report
  <1>4. /\ Report(result) \in Promise!Reports \ {"none"}
        /\ Report(result) = "done" => result = "ok"
        /\ Report(result) = "refused" => result \in Refusals
    BY ReportValues DEF Promise!Reports
  <1>5. /\ result = "ok" => CommitsBy(o) # {}
        /\ result \in Refusals => CommitsBy(o) = {}
    BY <1>1, <1>2 DEF IInv, CommitInv
  <1>6. /\ Report(result) = "done" => executed[o] = 1
        /\ Report(result) = "refused" => executed[o] = 0
    BY <1>4, <1>5, CommitsCounted DEF executed
  <1>. QED  BY <1>2, <1>3, <1>4, <1>6 DEF Promise!Tell, executed, report

(* Forgejo carries out a commit: the call had none, and has not been told  *)
(* that it was done or refused.                                            *)
LEMMA CommitExecutes ==
    ASSUME IInv, IInv', NEW o \in Ops, wire[o].at = "request",
           text[o] \in Versions, Change(o, text[o]), UNCHANGED outcome
    PROVE  Promise!Execute(o)
  <1>1. CommitsBy(o) = {} /\ outcome[o] \in {"none"} \cup Undecided
    <2>1. CommitsBy(o) = {} /\ outcome[o] # "ok" /\ outcome[o] \notin Refusals
      BY DEF IInv, CommitInv, Uncommitted, Pending
    <2>2. outcome[o] \in {"none", "ok"} \cup ErrorKinds
      BY DEF IInv, TypeOK
    <2>. QED  BY <2>1, <2>2, ReportValues
  <1>2. /\ CommitsBy(o)' = CommitsBy(o) \cup {Len(log) + 1}
        /\ \A d \in Ops : d # o => CommitsBy(d)' = CommitsBy(d)
    BY ChangeExtends
  <1>3. executed[o] = 0 /\ Cardinality(CommitsBy(o))' = 1
    <2>1. Cardinality(CommitsBy(o)) = 0
      BY <1>1, CommitsCounted
    <2>2. CommitsBy(o)' = {Len(log) + 1}
      BY <1>1, <1>2
    <2>3. Cardinality(CommitsBy(o)') = 1
      BY <2>2, FS_Singleton
    <2>. QED  BY <2>1, <2>3 DEF executed
  <1>4. executed' = [executed EXCEPT ![o] = 1]
    BY <1>2, <1>3 DEF executed
  <1>5. report[o] \in {"none", "undecided"} /\ report' = report
    BY <1>1, ReportValues DEF report
  <1>. QED  BY <1>3, <1>4, <1>5 DEF Promise!Execute, executed, report

LEMMA StepRefines ==
    IInv /\ IInv' /\ [Next]_vars => [Promise!Next]_(Promise!promiseVars)
  <1>. SUFFICES ASSUME IInv, IInv', [Next]_vars
                PROVE  Promise!Next \/ UNCHANGED <<executed, report>>
    BY DEF Promise!promiseVars, executed, report
  <1>1. ASSUME UNCHANGED <<log, outcome>> PROVE UNCHANGED <<executed, report>>
    BY <1>1 DEF executed, report, CommitsBy
  <1>2. CASE UNCHANGED vars
    BY <1>1, <1>2 DEF vars
  <1>3. CASE ForeignChange
    <2>1. PICK new \in Versions : Change("foreign", new)
      BY <1>3 DEF ForeignChange
    <2>2. \A d \in Ops : CommitsBy(d)' = CommitsBy(d)
      BY <2>1, FileAssumption, ChangeExtends
    <2>3. UNCHANGED outcome
      BY <1>3 DEF ForeignChange, toolVars
    <2>. QED  BY <2>2, <2>3 DEF executed, report
  <1>4. ASSUME NEW o \in Ops, NEW name, NEW t, Begin(o, name, t)
        PROVE  Promise!Next \/ UNCHANGED <<executed, report>>
    <2>1. pc[o] # "done" /\ UNCHANGED log
      BY <1>4 DEF Begin, forgeVars
    <2>2. CASE outcome' = [outcome EXCEPT ![o] = "validation"]
      <3>1. "validation" \in {"ok"} \cup ErrorKinds
        BY DEF ErrorKinds
      <3>. QED  BY <2>1, <2>2, <3>1, ReturnTells DEF Promise!Next
    <2>. QED  BY <1>1, <1>4, <2>1, <2>2 DEF Begin
  <1>5. ASSUME NEW o \in Ops, NEW result, Return(o, result), pc[o] # "done", result # "none"
        PROVE  Promise!Next
    <2>1. outcome' = [outcome EXCEPT ![o] = result] /\ UNCHANGED log
      BY <1>5 DEF Return, forgeVars
    <2>2. result \in {"ok"} \cup ErrorKinds
      BY <1>5, <2>1 DEF IInv, TypeOK
    <2>. QED  BY <1>5, <2>1, <2>2, ReturnTells DEF Promise!Next
  <1>6. ASSUME NEW o \in Ops, TakeProbe(o) \/ TakeCommit(o)
        PROVE  Promise!Next \/ UNCHANGED <<executed, report>>
    <2>1. pc[o] # "done" /\ wire[o].res # "none"
      BY <1>6 DEF TakeProbe, TakeCommit, IInv, WireInv
    <2>2. \/ UNCHANGED <<log, outcome>>
          \/ Return(o, wire[o].res)
      BY <1>6 DEF TakeProbe, TakeCommit, WriteAfterProbe, DeleteAfterProbe, Commit, forgeVars
    <2>. QED  BY <1>1, <1>5, <2>1, <2>2
  <1>7. ASSUME NEW o \in Ops, Fail(o) PROVE Promise!Next
    BY <1>5, <1>7 DEF Fail
  <1>8. ASSUME NEW o \in Ops, ServeProbe(o) \/ Drop(o) PROVE UNCHANGED <<executed, report>>
    BY <1>1, <1>8 DEF ServeProbe, Drop, toolVars, forgeVars
  <1>9. ASSUME NEW o \in Ops, ServeCommit(o)
        PROVE  Promise!Next \/ UNCHANGED <<executed, report>>
    <2>1. wire[o].at = "request" /\ UNCHANGED outcome /\ text[o] \in Versions
      BY <1>9 DEF ServeCommit, toolVars, IInv, TypeOK
    <2>2. Change(o, text[o]) \/ UNCHANGED log
      BY <1>9 DEF ServeCommit
    <2>. QED  BY <1>1, <2>1, <2>2, CommitExecutes DEF Promise!Next
  <1>. QED
    <2>1. ASSUME NEW o \in Ops, WriteFile(o) \/ DeleteFile(o)
          PROVE  Promise!Next \/ UNCHANGED <<executed, report>>
      BY <1>4, <2>1 DEF WriteFile, DeleteFile
    <2>. QED  BY <1>2, <1>3, <1>6, <1>7, <1>8, <1>9, <2>1 DEF Next

(* A file tool of two requests keeps the promise of one request: at most   *)
(* one commit, an "ok" only with one, a refusal never before one.          *)
THEOREM FileToolsKeepPromise == Spec => KeepsPromise
  <1>1. Init => Promise!Init
    <2>. SUFFICES ASSUME Init PROVE Promise!Init
      OBVIOUS
    <2>1. \A o \in Ops : CommitsBy(o) = {} /\ outcome[o] = "none"
      BY DEF Init, CommitsBy
    <2>. QED  BY <2>1, FS_EmptySet, ReportValues DEF Promise!Init
  <1>. QED  BY <1>1, Invariance, StepRefines, PTL DEF Spec, KeepsPromise, Promise!Spec
=============================================================================
