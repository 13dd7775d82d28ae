------------------------- MODULE RetryingCallerProofs -------------------------
(***************************************************************************)
(* Proofs about RetryingCaller: what outcomes and repetitions tell, for    *)
(* every choice of the tools that make one request, every number of        *)
(* clients and of attempts.                                                *)
(*                                                                         *)
(* A change at Forgejo must be traced back to the tool it was made for,    *)
(* although the request may be long given up: Made ties every entry of the *)
(* log to its intent, whose tool, wish and version never change once the   *)
(* first request is out, and InTurn ties the entries to each other.        *)
(***************************************************************************)
EXTENDS RetryingCaller, ForgejoClientProofs

Classes == {"get", "text", "post", "upload", "create", "patch", "put", "delete", "commit"}

IntentInv(i) ==
    /\ state[i] = "new" => \A k \in 1..MaxAttempts : pc[<<i, k>>] = "idle"
    /\ state[i] # "new" => intent[i].tool \in Offered

Made(e) == e.by \in Intents =>
    LET class == Class(intent[e.by].tool) IN
    /\ state[e.by] # "new"
    /\ \/ class \in {"post", "upload"} /\ e.added
       \/ class = "create" /\ ~ e.added /\ e.before = Absent /\ e.after = e.by
       \/ class \in {"patch", "put"} /\ ~ e.added /\ e.after = e.by
       \/ class = "delete" /\ ~ e.added /\ e.before # Absent /\ e.after = Absent
       \/ class = "commit" /\ ~ e.added /\ e.before = intent[e.by].sha
                           /\ e.after = intent[e.by].wanted
    /\ e.added => class \in {"post", "upload"}

InTurn ==
    /\ \A j \in DOMAIN log : j + 1 \in DOMAIN log => log[j].after = log[j + 1].before
    /\ log # <<>> => log[Len(log)].after = object

CallerType ==
    /\ intent \in [Intents -> [tool : Offered \cup {NoTool}, wanted : Versions, sha : Versions]]
    /\ state \in [Intents -> {"new", "rejected", "calling"}]
    /\ object \in Versions
    /\ log \in Seq([by : Intents \cup {"foreign"}, before : Versions, after : Versions,
                    added : BOOLEAN])

CallerInv ==
    /\ CallerType /\ InTurn
    /\ \A i \in Intents : IntentInv(i)
    /\ \A j \in DOMAIN log : Made(log[j])

-----------------------------------------------------------------------------
(* What the registration of a tool says about it, tool by tool.            *)
HintsFit(t) ==
    /\ t.requests[1] \in Classes
    /\ t.requests[1] \in {"post", "upload", "create"} => ~ t.hints.idempotent

LEMMA SurfaceFits == \A t \in SingleRequestTools : HintsFit(t)
  <1>. SUFFICES ASSUME NEW t \in SingleRequestTools PROVE HintsFit(t)
    OBVIOUS
  <1>. USE DEF Tools, Read, Checked, Unchecked, readAnnotations, writeAnnotations,
               deleteAnnotations, Hints, HintsFit, Classes
  <1>1. t \in registerTools /\ Len(t.requests) = 1
    BY DEF SingleRequestTools
  <1>2. CASE t \in registerRepoTools \cup registerOrgTools
    BY <1>2 DEF registerRepoTools, registerOrgTools
  <1>3. CASE t \in registerIssueTools
    BY <1>1, <1>3 DEF registerIssueTools
  <1>4. CASE t \in registerBatchAReadTools
    BY <1>1, <1>4 DEF registerBatchAReadTools
  <1>5. CASE t \in registerWriteTools
    BY <1>1, <1>5 DEF registerWriteTools
  <1>6. CASE t \in registerDeleteTools
    BY <1>1, <1>6 DEF registerDeleteTools
  <1>7. CASE t \in registerBatchTTools
    BY <1>7 DEF registerBatchTTools
  <1>8. CASE t \in registerBatchMTools
    BY <1>8 DEF registerBatchMTools
  <1>9. CASE t \in registerBatchUTools
    BY <1>9 DEF registerBatchUTools
  <1>. QED  BY <1>1, <1>2, <1>3, <1>4, <1>5, <1>6, <1>7, <1>8, <1>9 DEF registerTools

LEMMA OfferFits ==
    ASSUME NEW t \in Offered
    PROVE  HintsFit(t) /\ Class(t) \in Classes /\ RouteOf(Class(t)) \in Routes
  <1>1. HintsFit(t) /\ Class(t) \in Classes
    BY SurfaceFits, AttemptsAssumption DEF HintsFit, Class
  <1>2. \A class \in Classes : RouteOf(class) \in Routes
    BY DEF RouteOf, Classes, Route, Routes, doRoutes, doJSONRoutes, doTextRoutes,
           UploadReleaseAssetRoutes
  <1>. QED  BY <1>1, <1>2

-----------------------------------------------------------------------------
(* The requests of these clients are steps of the client as any other.     *)
LEMMA SendIsNext ==
    ASSUME NEW c \in Calls, NEW r \in Routes, Send(c, r)
    PROVE  Next
  <1>1. Call(c)
    BY DEF Call, Routes, do, doJSON, doText, IsPullRequestMerged, UploadReleaseAsset
  <1>. QED  BY <1>1 DEF Next

LEMMA ClientStep == CallerInv /\ IInv /\ [RetryingNext]_allVars => [Next]_vars
  <1>. SUFFICES ASSUME CallerInv, IInv, [RetryingNext]_allVars PROVE [Next]_vars
    OBVIOUS
  <1>1. CASE UNCHANGED allVars
    BY <1>1 DEF allVars
  <1>2. ASSUME NEW i \in Intents, NEW tool \in Offered, Try(i, tool)
        PROVE  [Next]_vars
    <2>1. <<i, 1>> \in Calls
      BY AttemptsAssumption
    <2>. QED  BY <1>2, <2>1, OfferFits, SendIsNext DEF Try
  <1>3. ASSUME NEW i \in Intents, TryAgain(i)
        PROVE  Next
    <2>1. PICK k \in 2..MaxAttempts :
             outcome[<<i, k - 1>>] = "transient" /\ Send(<<i, k>>, RouteOf(Class(intent[i].tool)))
      BY <1>3 DEF TryAgain
    <2>2. <<i, k - 1>> \in Calls /\ <<i, k>> \in Calls /\ k - 1 \in 1..MaxAttempts
      BY AttemptsAssumption
    <2>3. pc[<<i, k - 1>>] = "returned"
      BY <2>1, <2>2 DEF IInv, CallInv
    <2>4. intent[i].tool \in Offered
      BY <2>2, <2>3 DEF CallerInv, IntentInv
    <2>. QED  BY <2>1, <2>2, <2>4, OfferFits, SendIsNext
  <1>4. ASSUME NEW c \in Calls,
               ServeTool(c) \/ TakeAnswer(c) \/ BreakBody(c) \/ Fail(c) \/ Drop(c)
        PROVE  Next
    BY <1>4 DEF ServeTool, Next
  <1>5. CASE ForeignChange
    BY <1>5 DEF ForeignChange
  <1>. QED  BY <1>1, <1>2, <1>3, <1>4, <1>5 DEF RetryingNext

-----------------------------------------------------------------------------
LEMMA InitCaller == RetryingInit => CallerInv
  <1>. SUFFICES ASSUME RetryingInit PROVE CallerInv
    OBVIOUS
  <1>1. CallerType
    BY DEF RetryingInit, CallerType, Intent, Versions
  <1>2. InTurn /\ \A j \in DOMAIN log : Made(log[j])
    BY DEF RetryingInit, InTurn
  <1>3. ASSUME NEW i \in Intents PROVE IntentInv(i)
    BY AttemptsAssumption DEF RetryingInit, Init, IntentInv
  <1>. QED  BY <1>1, <1>2, <1>3 DEF CallerInv

(* The log is left alone, and so are intents whose first request is out.   *)
LEMMA LogStays ==
    ASSUME CallerInv, CallerType', UNCHANGED forgeVars, \A i \in Intents : IntentInv(i)',
           \A i \in Intents : state[i] # "new" => state'[i] = state[i] /\ intent'[i] = intent[i]
    PROVE  CallerInv'
  <1>1. InTurn'
    BY DEF forgeVars, CallerInv, InTurn
  <1>2. \A j \in DOMAIN log' : Made(log[j])'
    BY DEF forgeVars, CallerInv, Made
  <1>. QED  BY <1>1, <1>2 DEF CallerInv

LEMMA TryKeepsCaller ==
    ASSUME CallerInv, IInv, NEW i \in Intents, NEW tool \in Offered, Try(i, tool)
    PROVE  CallerInv'
  <1>1. PICK wanted \in {i} \cup (IF Class(tool) = "commit" THEN {Absent} ELSE {}) :
            intent' = [intent EXCEPT ![i] = Intent(tool, wanted, object)]
    BY DEF Try
  <1>2. /\ state[i] = "new" /\ UNCHANGED forgeVars
        /\ wanted \in Versions
    BY <1>1, AttemptsAssumption DEF Try, Versions
  <1>3. PICK new \in {"calling", "rejected"} : state' = [state EXCEPT ![i] = new]
    BY DEF Try
  <1>4. Intent(tool, wanted, object)
            \in [tool : Offered \cup {NoTool}, wanted : Versions, sha : Versions]
    BY <1>2 DEF Intent, CallerInv, CallerType
  <1>5. CallerType'
    BY <1>1, <1>2, <1>3, <1>4 DEF CallerInv, CallerType, forgeVars
  <1>6. /\ intent'[i].tool = tool /\ intent'[i].wanted = wanted /\ state'[i] = new
        /\ \A d \in Intents \ {i} : intent'[d] = intent[d] /\ state'[d] = state[d]
    BY <1>1, <1>3 DEF CallerInv, CallerType, Intent
  <1>7. \A d \in Intents \ {i} : \A k \in 1..MaxAttempts : pc'[<<d, k>>] = pc[<<d, k>>]
    <2>1. CASE UNCHANGED vars
      BY <2>1 DEF vars
    <2>2. CASE Send(<<i, 1>>, RouteOf(Class(tool)))
      BY <2>2, AttemptsAssumption DEF Send, IInv, TypeOK
    <2>. QED  BY <2>1, <2>2 DEF Try
  <1>8. ASSUME NEW d \in Intents PROVE IntentInv(d)'
    <2>1. CASE d = i
      BY <1>2, <1>3, <1>6, <2>1 DEF IntentInv
    <2>2. CASE d # i
      BY <1>6, <1>7, <2>2 DEF CallerInv, IntentInv
    <2>. QED  BY <2>1, <2>2
  <1>. QED  BY <1>2, <1>5, <1>6, <1>8, LogStays

(* Every other step of a call: nothing but its requests moves.             *)
LEMMA QuietKeepsCaller ==
    ASSUME CallerInv, UNCHANGED <<callerVars, forgeVars>>,
           \A i \in Intents : state[i] = "new" =>
               \A k \in 1..MaxAttempts : pc'[<<i, k>>] = pc[<<i, k>>]
    PROVE  CallerInv'
  <1>1. CallerType'
    BY DEF CallerInv, CallerType, callerVars, forgeVars
  <1>2. \A i \in Intents : IntentInv(i)'
    BY DEF CallerInv, IntentInv, callerVars
  <1>. QED  BY <1>1, <1>2, LogStays DEF callerVars

LEMMA TryAgainKeepsCaller ==
    ASSUME CallerInv, IInv, NEW i \in Intents, TryAgain(i)
    PROVE  CallerInv'
  <1>1. PICK k \in 2..MaxAttempts :
           outcome[<<i, k - 1>>] = "transient" /\ Send(<<i, k>>, RouteOf(Class(intent[i].tool)))
    BY DEF TryAgain
  <1>2. <<i, k - 1>> \in Calls /\ <<i, k>> \in Calls /\ k - 1 \in 1..MaxAttempts
    BY AttemptsAssumption
  <1>3. pc[<<i, k - 1>>] = "returned"
    BY <1>1, <1>2 DEF IInv, CallInv
  <1>4. state[i] # "new"
    BY <1>2, <1>3 DEF CallerInv, IntentInv
  <1>5. \A d \in Intents : d # i => \A n \in 1..MaxAttempts : pc'[<<d, n>>] = pc[<<d, n>>]
    BY <1>1, AttemptsAssumption DEF Send, IInv, TypeOK
  <1>. QED  BY <1>4, <1>5, QuietKeepsCaller DEF TryAgain

(* A call under way belongs to an intent that is under way.                *)
LEMMA UnderWay ==
    ASSUME CallerInv, IInv, NEW c \in Calls, pc[c] # "idle"
    PROVE  c[1] \in Intents /\ state[c[1]] # "new"
  <1>1. PICK i \in Intents, k \in 1..MaxAttempts : c = <<i, k>>
    BY AttemptsAssumption
  <1>. QED  BY <1>1 DEF CallerInv, IntentInv

LEMMA AnswerKeepsCaller ==
    ASSUME CallerInv, IInv, NEW c \in Calls, UNCHANGED <<callerVars, forgeVars>>,
           TakeAnswer(c) \/ BreakBody(c) \/ Fail(c) \/ Drop(c)
    PROVE  CallerInv'
  <1>1. /\ \A d \in Calls \ {c} : pc'[d] = pc[d]
        /\ pc'[c] = pc[c] \/ pc[c] = "waiting"
    BY DEF TakeAnswer, BreakBody, Fail, Drop, Return, IInv, TypeOK
  <1>2. ASSUME NEW i \in Intents, state[i] = "new", NEW k \in 1..MaxAttempts
        PROVE  pc'[<<i, k>>] = pc[<<i, k>>]
    <2>1. <<i, k>> \in Calls /\ pc[<<i, k>>] = "idle"
      BY <1>2, AttemptsAssumption DEF CallerInv, IntentInv
    <2>. QED  BY <1>1, <2>1
  <1>. QED  BY <1>2, QuietKeepsCaller

-----------------------------------------------------------------------------
(* One more entry in the log.                                              *)
LEMMA ChangeKeepsCaller ==
    ASSUME CallerInv, UNCHANGED callerVars,
           \A i \in Intents : state[i] = "new" =>
               \A k \in 1..MaxAttempts : pc'[<<i, k>>] = pc[<<i, k>>],
           NEW who \in Intents \cup {"foreign"}, NEW new \in Versions, NEW added \in BOOLEAN,
           Change(who, new, added),
           Made([by |-> who, before |-> object, after |-> new, added |-> added])
    PROVE  CallerInv'
  <1>. DEFINE entry == [by |-> who, before |-> object, after |-> new, added |-> added]
              Entries == [by : Intents \cup {"foreign"}, before : Versions, after : Versions,
                          added : BOOLEAN]
  <1>1. entry \in Entries /\ log \in Seq(Entries) /\ log' = Append(log, entry) /\ object' = new
    BY DEF Change, CallerInv, CallerType
  <1>. HIDE DEF Entries
  <1>2. /\ log' \in Seq(Entries) /\ Len(log') = Len(log) + 1 /\ Len(log) \in Nat
        /\ DOMAIN log = 1..Len(log) /\ DOMAIN log' = 1..(Len(log) + 1)
        /\ log'[Len(log) + 1] = entry
        /\ \A j \in DOMAIN log : log'[j] = log[j]
    BY <1>1
  <1>3. CallerType'
    BY <1>1, <1>2 DEF CallerInv, CallerType, callerVars, Entries
  <1>4. \A i \in Intents : IntentInv(i)'
    BY DEF CallerInv, IntentInv, callerVars
  <1>5. InTurn'
    <2>1. log'[Len(log')].after = object'
      BY <1>1, <1>2
    <2>2. ASSUME NEW j \in DOMAIN log', j + 1 \in DOMAIN log'
          PROVE  log'[j].after = log'[j + 1].before
      <3>1. CASE j + 1 \in DOMAIN log
        BY <1>2, <2>2, <3>1 DEF CallerInv, InTurn
      <3>2. CASE j = Len(log)
        <4>1. log # <<>> /\ log[Len(log)].after = object
          BY <1>2, <2>2, <3>2 DEF CallerInv, InTurn
        <4>. QED  BY <1>2, <2>2, <3>2, <4>1
      <3>. QED  BY <1>2, <2>2, <3>1, <3>2
    <2>. QED  BY <2>1, <2>2 DEF InTurn
  <1>6. ASSUME NEW j \in DOMAIN log' PROVE Made(log[j])'
    <2>1. Made(log'[j])
      BY <1>2 DEF CallerInv
    <2>. QED  BY <2>1 DEF Made, callerVars
  <1>. QED  BY <1>3, <1>4, <1>5, <1>6 DEF CallerInv

LEMMA ServeKeepsCaller ==
    ASSUME CallerInv, IInv, NEW c \in Calls, ServeTool(c)
    PROVE  CallerInv'
  <1>1. UNCHANGED <<pc, callerVars>>
    BY DEF ServeTool, Serve
  <1>2. CASE UNCHANGED forgeVars
    BY <1>1, <1>2, QuietKeepsCaller
  <1>3. CASE Apply(c[1])
    <2>. DEFINE i == c[1]
                class == Class(intent[i].tool)
    <2>1. pc[c] # "idle"
      BY DEF ServeTool, Serve, IInv, CallInv
    <2>2. i \in Intents /\ state[i] # "new" /\ IntentInv(i) /\ i # Absent
          /\ i \in Versions /\ object \in Versions /\ Absent \in Versions
          /\ intent[i].wanted \in Versions
      BY <2>1, UnderWay, AttemptsAssumption DEF CallerInv, CallerType, Versions
    <2>. HIDE DEF i
    <2>3. ASSUME NEW new \in Versions, NEW added \in BOOLEAN, Change(i, new, added),
                 Made([by |-> i, before |-> object, after |-> new, added |-> added])
          PROVE  CallerInv'
      BY <1>1, <2>2, <2>3, ChangeKeepsCaller
    <2>4. CASE class \in {"post", "upload"} /\ object # Absent /\ Change(i, object, TRUE)
      <3>1. Made([by |-> i, before |-> object, after |-> object, added |-> TRUE])
        BY <2>2, <2>4 DEF Made
      <3>. QED  BY <2>2, <2>3, <2>4, <3>1
    <2>5. CASE class = "create" /\ object = Absent /\ Change(i, i, FALSE)
      <3>1. Made([by |-> i, before |-> object, after |-> i, added |-> FALSE])
        BY <2>2, <2>5 DEF Made
      <3>. QED  BY <2>2, <2>3, <2>5, <3>1
    <2>6. CASE class \in {"patch", "put"} /\ object # Absent /\ Change(i, i, FALSE)
      <3>1. Made([by |-> i, before |-> object, after |-> i, added |-> FALSE])
        BY <2>2, <2>6 DEF Made
      <3>. QED  BY <2>2, <2>3, <2>6, <3>1
    <2>7. CASE class = "delete" /\ object # Absent /\ Change(i, Absent, FALSE)
      <3>1. Made([by |-> i, before |-> object, after |-> Absent, added |-> FALSE])
        BY <2>2, <2>7 DEF Made
      <3>. QED  BY <2>2, <2>3, <2>7, <3>1
    <2>8. CASE /\ class = "commit" /\ object = intent[i].sha
               /\ Change(i, intent[i].wanted, FALSE)
      <3>1. Made([by |-> i, before |-> object, after |-> intent[i].wanted, added |-> FALSE])
        BY <2>2, <2>8 DEF Made
      <3>. QED  BY <2>2, <2>3, <2>8, <3>1
    <2>9. CASE UNCHANGED forgeVars
      BY <1>2, <2>9
    <2>. QED  BY <1>3, <2>4, <2>5, <2>6, <2>7, <2>8, <2>9 DEF Apply, i
  <1>. QED  BY <1>2, <1>3 DEF ServeTool

LEMMA ForeignKeepsCaller ==
    ASSUME CallerInv, ForeignChange
    PROVE  CallerInv'
  <1>1. PICK new \in {"foreign", "old", Absent} \ {object} : Change("foreign", new, FALSE)
    BY DEF ForeignChange
  <1>2. /\ new \in Versions /\ "foreign" \in Intents \cup {"foreign"} /\ FALSE \in BOOLEAN
        /\ Made([by |-> "foreign", before |-> object, after |-> new, added |-> FALSE])
    BY AttemptsAssumption DEF Versions, Made
  <1>3. UNCHANGED <<pc, callerVars>>
    BY DEF ForeignChange, vars
  <1>. QED  BY <1>1, <1>2, <1>3, ChangeKeepsCaller

LEMMA StepKeepsCaller == CallerInv /\ IInv /\ [RetryingNext]_allVars => CallerInv'
  <1>. SUFFICES ASSUME CallerInv, IInv, [RetryingNext]_allVars PROVE CallerInv'
    OBVIOUS
  <1>1. CASE UNCHANGED allVars
    BY <1>1, QuietKeepsCaller DEF allVars, vars
  <1>. QED
    BY <1>1, TryKeepsCaller, TryAgainKeepsCaller, AnswerKeepsCaller, ServeKeepsCaller,
       ForeignKeepsCaller
    DEF RetryingNext

LEMMA CallerInvariance == RetryingSpec => [](IInv /\ CallerInv)
  <1>1. RetryingInit => IInv /\ CallerInv
    BY InitInv, InitCaller DEF RetryingInit
  <1>2. IInv /\ CallerInv /\ [RetryingNext]_allVars => IInv' /\ CallerInv'
    BY ClientStep, StepInv, StepKeepsCaller
  <1>. QED  BY <1>1, <1>2, PTL DEF RetryingSpec

-----------------------------------------------------------------------------
(* A call hinted idempotent, carried out twice in a row, alters nothing    *)
(* the second time: for each of the tools of one request.                  *)
THEOREM RepeatsAreHarmless == RetryingSpec => []RepeatIsHarmless
  <1>1. ASSUME CallerInv, NEW i \in Intents, NEW j \in ChangesBy(i), j + 1 \in ChangesBy(i),
               Alters(log[j + 1])
        PROVE  log[j + 1].added /\ ~ intent[i].tool.hints.idempotent
    <2>1. /\ j \in DOMAIN log /\ log[j].by = i /\ Made(log[j])
          /\ j + 1 \in DOMAIN log /\ log[j + 1].by = i /\ Made(log[j + 1])
          /\ log[j].after = log[j + 1].before
      BY <1>1 DEF ChangesBy, CallerInv, InTurn
    <2>2. HintsFit(intent[i].tool)
      BY <1>1, <2>1, OfferFits DEF Made, CallerInv, IntentInv
    <2>3. log[j + 1].added
      <3>. SUFFICES ASSUME ~ log[j + 1].added PROVE FALSE
        OBVIOUS
      <3>1. log[j + 1].before # log[j + 1].after
        BY <1>1 DEF Alters
      <3>. QED  BY <2>1, <3>1, AttemptsAssumption DEF Made
    <2>. QED  BY <2>1, <2>2, <2>3 DEF Made, HintsFit, Class
  <1>2. CallerInv => RepeatIsHarmless
    BY <1>1 DEF RepeatIsHarmless
  <1>. QED  BY <1>2, CallerInvariance, PTL

-----------------------------------------------------------------------------
(* The log holds one entry for every request that was carried out, if the  *)
(* tool writes at all.  What the outcomes say of requests carried out they *)
(* thereby say of the log.                                                 *)
Ran(i) == {k \in 1..MaxAttempts : executed[<<i, k>>] = 1}

LogCounts(i) == Class(intent[i].tool) \notin {"get", "text"} =>
    /\ IsFiniteSet(ChangesBy(i))
    /\ Cardinality(ChangesBy(i)) = Cardinality(Ran(i))

LEMMA AttemptsFinite == \A S \in SUBSET (1..MaxAttempts) :
                            IsFiniteSet(S) /\ Cardinality(S) \in Nat
  <1>1. IsFiniteSet(1..MaxAttempts)
    BY AttemptsAssumption, FS_Interval
  <1>. QED  BY <1>1, FS_Subset, FS_CardinalityType

(* An intent that has not begun left no trace.                             *)
LEMMA NewLeftNothing ==
    ASSUME CallerInv, IInv, NEW i \in Intents, state[i] = "new"
    PROVE  ChangesBy(i) = {} /\ Ran(i) = {}
  <1>1. ChangesBy(i) = {}
    BY DEF ChangesBy, CallerInv, Made
  <1>2. ASSUME NEW k \in 1..MaxAttempts PROVE executed[<<i, k>>] = 0
    <2>1. <<i, k>> \in Calls /\ pc[<<i, k>>] = "idle"
      BY AttemptsAssumption DEF CallerInv, IntentInv
    <2>. QED  BY <2>1 DEF IInv, CallInv
  <1>. QED  BY <1>1, <1>2 DEF Ran

LEMMA InitLogCounts == RetryingInit => \A i \in Intents : LogCounts(i)
  <1>. SUFFICES ASSUME RetryingInit, NEW i \in Intents PROVE LogCounts(i)
    OBVIOUS
  <1>1. IInv /\ CallerInv /\ state[i] = "new"
    BY InitInv, InitCaller DEF RetryingInit
  <1>. QED  BY <1>1, NewLeftNothing, FS_EmptySet DEF LogCounts

(* A step that carries nothing out and writes nothing to the log.          *)
LEMMA LogCountsStays ==
    ASSUME NEW i \in Intents, LogCounts(i), intent'[i] = intent[i],
           UNCHANGED <<executed, log>>
    PROVE  LogCounts(i)'
  BY DEF LogCounts, ChangesBy, Ran

(* An entry written by another.                                            *)
LEMMA ChangesByOne ==
    ASSUME CallerInv, NEW who, NEW new, NEW added, Change(who, new, added), NEW i \in Intents
    PROVE  /\ i # who => ChangesBy(i)' = ChangesBy(i)
           /\ i = who => ChangesBy(i)' = ChangesBy(i) \cup {Len(log) + 1}
           /\ Len(log) + 1 \notin ChangesBy(i)
  <1>. DEFINE entry == [by |-> who, before |-> object, after |-> new, added |-> added]
              Entries == [by : Intents \cup {"foreign"}, before : Versions, after : Versions,
                          added : BOOLEAN]
  <1>1. log \in Seq(Entries) /\ log' = Append(log, entry) /\ entry.by = who
    BY DEF Change, CallerInv, CallerType
  <1>. HIDE DEF Entries, entry
  <1>2. /\ Len(log) \in Nat /\ DOMAIN log = 1..Len(log) /\ DOMAIN log' = 1..(Len(log) + 1)
        /\ log'[Len(log) + 1] = entry
        /\ \A j \in DOMAIN log : log'[j] = log[j]
    BY <1>1
  <1>. QED  BY <1>1, <1>2 DEF ChangesBy

LEMMA ServeLogCounts ==
    ASSUME CallerInv, IInv, NEW c \in Calls, ServeTool(c), NEW d \in Intents, LogCounts(d)
    PROVE  LogCounts(d)'
  <1>1. PICK i \in Intents, k \in 1..MaxAttempts : c = <<i, k>>
    BY AttemptsAssumption
  <1>2. UNCHANGED intent
    BY DEF ServeTool, callerVars
  <1>3. /\ executed[c] = 0 /\ executed'[c] \in {0, 1}
        /\ \A e \in Calls \ {c} : executed'[e] = executed[e]
    <2>1. PICK s \in Statuses : \E n \in ExecutionsBehind(route[c], s) :
                                   executed' = [executed EXCEPT ![c] = @ + n]
      BY DEF ServeTool, Serve
    <2>2. executed[c] = 0
      BY DEF ServeTool, Serve, IInv, CallInv
    <2>. QED  BY <2>1, <2>2, ExecutionsBound, StatusesAssumption DEF IInv, TypeOK
  <1>4. CASE executed'[c] = executed[c]
    <2>1. executed' = executed
      BY <1>3, <1>4 DEF ServeTool, Serve, IInv, TypeOK
    <2>2. UNCHANGED log
      BY <1>4 DEF ServeTool, forgeVars
    <2>. QED  BY <1>2, <2>1, <2>2, LogCountsStays
  <1>5. CASE executed'[c] # executed[c] /\ d # i
    <2>1. Ran(d)' = Ran(d)
      <3>1. \A n \in 1..MaxAttempts : <<d, n>> \in Calls \ {c}
        BY <1>1, <1>5, AttemptsAssumption
      <3>. QED  BY <3>1, <1>3 DEF Ran
    <2>2. ChangesBy(d)' = ChangesBy(d)
      <3>1. Apply(i)
        BY <1>1, <1>5 DEF ServeTool
      <3>2. CASE UNCHANGED log
        BY <3>2 DEF ChangesBy
      <3>3. ASSUME NEW new, NEW added, Change(i, new, added) PROVE ChangesBy(d)' = ChangesBy(d)
        BY <3>3, <1>5, ChangesByOne
      <3>. QED  BY <3>1, <3>2, <3>3 DEF Apply, forgeVars
    <2>. QED  BY <1>2, <2>1, <2>2 DEF LogCounts
  <1>6. CASE executed'[c] # executed[c] /\ d = i
    <2>. SUFFICES ASSUME Class(intent[i].tool) \notin {"get", "text"}
                  PROVE  LogCounts(i)'
      BY <1>2, <1>6 DEF LogCounts
    <2>1. PICK new, added : Change(i, new, added)
      BY <1>1, <1>6 DEF ServeTool, Apply
    <2>2. ChangesBy(i)' = ChangesBy(i) \cup {Len(log) + 1} /\ Len(log) + 1 \notin ChangesBy(i)
      BY <2>1, ChangesByOne
    <2>3. Ran(i)' = Ran(i) \cup {k} /\ k \notin Ran(i)
      <3>1. \A n \in 1..MaxAttempts : n # k => <<i, n>> \in Calls \ {c}
        BY <1>1, AttemptsAssumption
      <3>. QED  BY <1>1, <1>3, <1>6, <3>1 DEF Ran
    <2>4. /\ IsFiniteSet(ChangesBy(i)) /\ IsFiniteSet(Ran(i))
          /\ Cardinality(ChangesBy(i)) = Cardinality(Ran(i))
      BY <1>6, AttemptsFinite DEF LogCounts, Ran
    <2>5. /\ IsFiniteSet(ChangesBy(i) \cup {Len(log) + 1})
          /\ Cardinality(ChangesBy(i) \cup {Len(log) + 1}) = Cardinality(ChangesBy(i)) + 1
      BY <2>2, <2>4, FS_AddElement
    <2>6. Cardinality(Ran(i) \cup {k}) = Cardinality(Ran(i)) + 1
      BY <2>3, <2>4, FS_AddElement
    <2>. QED  BY <2>2, <2>3, <2>4, <2>5, <2>6 DEF LogCounts
  <1>. QED  BY <1>4, <1>5, <1>6

LEMMA StepLogCounts ==
    ASSUME CallerInv, IInv, [RetryingNext]_allVars, NEW d \in Intents, LogCounts(d)
    PROVE  LogCounts(d)'
  <1>1. CASE UNCHANGED allVars
    BY <1>1, LogCountsStays DEF allVars, vars, callerVars, forgeVars
  <1>2. ASSUME NEW i \in Intents, NEW tool \in Offered, Try(i, tool)
        PROVE  LogCounts(d)'
    <2>1. UNCHANGED <<executed, log>>
      BY <1>2 DEF Try, Send, vars, forgeVars
    <2>2. CASE d = i
      <3>1. ChangesBy(i) = {} /\ Ran(i) = {}
        BY <1>2, NewLeftNothing DEF Try
      <3>2. ChangesBy(i)' = {} /\ Ran(i)' = {}
        BY <2>1, <3>1 DEF ChangesBy, Ran
      <3>. QED  BY <2>2, <3>2, FS_EmptySet DEF LogCounts
    <2>3. CASE d # i
      <3>1. intent'[d] = intent[d]
        BY <1>2, <2>3 DEF Try, CallerInv, CallerType
      <3>. QED  BY <2>1, <3>1, LogCountsStays
    <2>. QED  BY <2>2, <2>3
  <1>3. ASSUME NEW i \in Intents, TryAgain(i)
        PROVE  LogCounts(d)'
    BY <1>3, LogCountsStays DEF TryAgain, Send, callerVars, forgeVars
  <1>4. ASSUME NEW c \in Calls, TakeAnswer(c) \/ BreakBody(c) \/ Fail(c) \/ Drop(c),
               UNCHANGED <<callerVars, forgeVars>>
        PROVE  LogCounts(d)'
    BY <1>4, LogCountsStays DEF TakeAnswer, BreakBody, Fail, Drop, Return, callerVars, forgeVars
  <1>5. CASE ForeignChange
    <2>1. PICK new : Change("foreign", new, FALSE)
      BY <1>5 DEF ForeignChange
    <2>2. ChangesBy(d)' = ChangesBy(d)
      BY <2>1, ChangesByOne, AttemptsAssumption
    <2>3. UNCHANGED <<executed, intent>>
      BY <1>5 DEF ForeignChange, vars, callerVars
    <2>. QED  BY <2>2, <2>3 DEF LogCounts, Ran
  <1>. QED  BY <1>1, <1>2, <1>3, <1>4, <1>5, ServeLogCounts DEF RetryingNext

(* A success was carried out; what was carried out is a success, undecided *)
(* or still waited for.                                                    *)
LEMMA OutcomesBracketRuns ==
    ASSUME IInv, NEW i \in Intents
    PROVE  /\ Attempts(i, {"ok"}) \subseteq Ran(i)
           /\ Ran(i) \subseteq Attempts(i, {"ok"} \cup Undecided) \cup Waiting(i)
  <1>1. ASSUME NEW k \in 1..MaxAttempts
        PROVE  /\ outcome[<<i, k>>] = "ok" => executed[<<i, k>>] = 1
               /\ executed[<<i, k>>] = 1 => \/ outcome[<<i, k>>] \in {"ok"} \cup Undecided
                                            \/ pc[<<i, k>>] = "waiting"
    <2>. DEFINE c == <<i, k>>
    <2>1. c \in Calls
      BY AttemptsAssumption
    <2>2. /\ CallInv(c) /\ outcome[c] \in {"none", "ok"} \cup ErrorKinds
          /\ pc[c] \in {"idle", "waiting", "returned"}
      BY <2>1 DEF IInv, TypeOK, Outcomes
    <2>. HIDE DEF c
    <2>3. outcome[c] = "ok" => executed[c] = 1
      BY <2>2 DEF CallInv
    <2>4. executed[c] = 1 => outcome[c] \notin Refusals /\ pc[c] # "idle"
      BY <2>2 DEF CallInv
    <2>5. pc[c] = "returned" <=> outcome[c] # "none"
      BY <2>2 DEF CallInv
    <2>. QED  BY <2>2, <2>3, <2>4, <2>5 DEF Refusals, c
  <1>. QED  BY <1>1 DEF Attempts, Ran, Waiting

(* What the outcomes of a tool that writes say brackets what the history   *)
(* of Forgejo holds on the caller's behalf.                                *)
THEOREM OutcomesBracket == RetryingSpec => []OutcomesBracketChanges
  <1>1. ASSUME IInv, NEW i \in Intents, LogCounts(i),
               Class(intent[i].tool) \notin {"get", "text"}
        PROVE  /\ Cardinality(ChangesBy(i)) >= Cardinality(Attempts(i, {"ok"}))
               /\ Cardinality(ChangesBy(i))
                     <= Cardinality(Attempts(i, {"ok"} \cup Undecided)) + Cardinality(Waiting(i))
    <2>. DEFINE Open == Attempts(i, {"ok"} \cup Undecided)
                Done == Attempts(i, {"ok"})
    <2>1. /\ Ran(i) \in SUBSET (1..MaxAttempts) /\ Open \in SUBSET (1..MaxAttempts)
          /\ Done \in SUBSET (1..MaxAttempts) /\ Waiting(i) \in SUBSET (1..MaxAttempts)
          /\ Open \cap Waiting(i) \in SUBSET (1..MaxAttempts)
      BY DEF Ran, Attempts, Waiting
    <2>2. Done \subseteq Ran(i) /\ Ran(i) \subseteq Open \cup Waiting(i)
      BY <1>1, OutcomesBracketRuns
    <2>3. Cardinality(ChangesBy(i)) = Cardinality(Ran(i))
      BY <1>1 DEF LogCounts
    <2>. HIDE DEF Open, Done
    <2>4. Cardinality(Done) <= Cardinality(Ran(i))
      BY <2>1, <2>2, AttemptsFinite, FS_Subset
    <2>5. /\ IsFiniteSet(Open \cup Waiting(i))
          /\ Cardinality(Open \cup Waiting(i))
                = Cardinality(Open) + Cardinality(Waiting(i)) - Cardinality(Open \cap Waiting(i))
      BY <2>1, AttemptsFinite, FS_Union
    <2>6. Cardinality(Ran(i)) <= Cardinality(Open \cup Waiting(i))
      BY <2>2, <2>5, FS_Subset
    <2>7. /\ Cardinality(Ran(i)) \in Nat /\ Cardinality(Open) \in Nat /\ Cardinality(Done) \in Nat
          /\ Cardinality(Waiting(i)) \in Nat /\ Cardinality(Open \cap Waiting(i)) \in Nat
      BY <2>1, AttemptsFinite
    <2>. QED  BY <2>3, <2>4, <2>5, <2>6, <2>7 DEF Open, Done
  <1>. DEFINE Counted == \A i \in Intents : LogCounts(i)
  <1>2. RetryingInit => Counted
    BY InitLogCounts
  <1>3. CallerInv /\ IInv /\ Counted /\ [RetryingNext]_allVars => Counted'
    BY StepLogCounts
  <1>4. IInv /\ Counted => OutcomesBracketChanges
    BY <1>1 DEF OutcomesBracketChanges
  <1>. HIDE DEF Counted
  <1>. QED  BY <1>2, <1>3, <1>4, CallerInvariance, PTL DEF RetryingSpec

(* The clients of one-request tools get what RemoteCall promises: their    *)
(* requests are requests of the client, whatever tools they choose.        *)
THEOREM RetryingKeepsPromise == RetryingSpec => KeepsPromise
  <1>1. RetryingInit => Promise!Init
    BY InitIsPromised DEF RetryingInit
  <1>2. CallerInv /\ IInv /\ IInv' /\ [RetryingNext]_allVars
            => [Promise!Next]_(Promise!promiseVars)
    BY ClientStep, StepIsPromised
  <1>. QED  BY <1>1, <1>2, CallerInvariance, PTL DEF RetryingSpec, KeepsPromise, Promise!Spec
===============================================================================
