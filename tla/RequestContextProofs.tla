------------------------- MODULE RequestContextProofs -------------------------
(***************************************************************************)
(* Proofs about RequestContext for every set of calls, sessions, tokens    *)
(* and header values, and every set of plans.                              *)
(*                                                                         *)
(* None of the properties is inductive: a request that is sent shows what  *)
(* was put on it when it was built, which shows what the context had when  *)
(* the tool started, which shows what the HTTP request carried.  Each part *)
(* of the invariant is one link of this chain.                             *)
(***************************************************************************)
EXTENDS RequestContext, TLAPS

USE DEF settings

Received == {"received", "running", "built", "waiting", "done"}
Started == Received \ {"received"}

(* The HTTP request of a call: its session is open.  A call over stdio has *)
(* none.                                                                   *)
AskedInv(c) ==
    IF mode = "http"
    THEN pc[c] \in Received => /\ asked[c].session \in Sessions
                               /\ asked[c].token \in Tokens
                               /\ opener[asked[c].session] \in Tokens
    ELSE asked[c] = Unasked

(* The context of a call. *)
CtxInv(c) == pc[c] \in Started =>
    /\ ctx[c].token \in TokensHanded(c)
    /\ ctx[c].id.from = "header" => ctx[c].id.of = asked[c].id /\ asked[c].id # None
    /\ ctx[c].id.from = "drawn" => ctx[c].id.of = c
    /\ ctx[c].id.from # "none"

(* The request being built. *)
ReqInv(c) ==
    /\ pc[c] \in {"built", "waiting"} => plan[c] # <<>>
    /\ pc[c] = "built" => req[c] = [token |-> ctx[c].token, id |-> RequestID(c)]

(* A request that was sent. *)
SentInv(r) ==
    /\ pc[r.call] \in Started
    /\ r.kind # "merged" => r.id = ctx[r.call].id
    /\ IF mode = "http" THEN r.token \in TokensHanded(r.call) \ {None}
                        ELSE r.token = Config
    /\ r.left >= Len(plan[r.call])
    /\ r.left = Len(plan[r.call]) =>
           pc[r.call] = "waiting" /\ r.kind = Head(plan[r.call])

(* A line that was logged, and the lines a call must have. *)
LineInv(l) ==
    /\ level \in {"info", "debug"}
    /\ pc[l.call] \in Started
    /\ l.id = ctx[l.call].id
    /\ \/ pc[l.call] = "done" /\ l.left = 0
       \/ /\ level = "debug"
          /\ \E r \in sent : r.call = l.call /\ r.left = l.left /\ r.kind # "merged"

LoggedInv(r) == level = "debug" /\ r.kind # "merged" =>
    \/ pc[r.call] = "waiting" /\ r.left = Len(plan[r.call])
    \/ \E l \in lines : l.call = r.call /\ l.left = r.left

DoneInv(c) ==
    /\ pc[c] = "waiting" => \E r \in sent :
           r.call = c /\ r.left = Len(plan[c]) /\ r.kind = Head(plan[c])
    /\ pc[c] = "done" => plan[c] = <<>>
    /\ pc[c] = "done" /\ level \in {"info", "debug"} =>
           \E l \in lines : l.call = c /\ l.left = 0

Inv ==
    /\ TypeOK
    /\ header = Config
    /\ \A c \in Calls : AskedInv(c) /\ CtxInv(c) /\ ReqInv(c) /\ DoneInv(c)
    /\ \A r \in sent : SentInv(r) /\ LoggedInv(r)
    /\ \A l \in lines : LineInv(l)

-----------------------------------------------------------------------------
(* Plans get shorter. *)
LEMMA TailShorter ==
    ASSUME NEW s \in Seq({"merged", "other"}), s # <<>>
    PROVE  /\ Len(s) \in Nat \ {0}
           /\ Head(s) \in {"merged", "other"}
           /\ Tail(s) \in Seq({"merged", "other"})
           /\ Len(Tail(s)) = Len(s) - 1
  OBVIOUS

LEMMA EmptyPlan == <<>> \in Seq({"merged", "other"}) /\ Len(<<>>) = 0
  OBVIOUS

LEMMA InitInv == Init => Inv
  <1>. SUFFICES ASSUME Init PROVE Inv
    OBVIOUS
  <1>1. TypeOK
    BY EmptyPlan DEF Init, effectiveLogLevel, LogLevels, TypeOK, Unasked, Empty, Unbuilt, NoId, Id, Ids
  <1>2. ASSUME NEW c \in Calls PROVE AskedInv(c) /\ CtxInv(c) /\ ReqInv(c) /\ DoneInv(c)
    BY DEF Init, AskedInv, CtxInv, ReqInv, DoneInv, Received, Started
  <1>. QED  BY <1>1, <1>2 DEF Inv, Init

(* A step that leaves a call alone, and the sessions open, keeps the part   *)
(* of that call and of what it sent and logged.                            *)
Steady ==
    /\ mode' = mode /\ level' = level /\ header' = header
    /\ \A s \in Sessions : opener[s] # None => opener'[s] = opener[s]
    /\ sent \subseteq sent' /\ lines \subseteq lines'

Untouched(d) ==
    /\ pc'[d] = pc[d] /\ asked'[d] = asked[d] /\ ctx'[d] = ctx[d]
    /\ plan'[d] = plan[d] /\ req'[d] = req[d]

LEMMA CallUntouched ==
    ASSUME Inv, Steady, NEW d \in Calls, Untouched(d)
    PROVE  (AskedInv(d) /\ CtxInv(d) /\ ReqInv(d) /\ DoneInv(d))'
  <1>. USE DEF Steady, Untouched
  <1>0. /\ AskedInv(d) /\ CtxInv(d) /\ ReqInv(d) /\ DoneInv(d)
        /\ mode \in {"http", "stdio"}
    BY DEF Inv, TypeOK
  <1>1. AskedInv(d)'
    BY <1>0, ContextAssumption DEF AskedInv
  <1>2. CtxInv(d)'
    BY <1>0, ContextAssumption DEF AskedInv, CtxInv, TokensHanded, Received, Started
  <1>3. ReqInv(d)'
    BY <1>0 DEF ReqInv, RequestID
  <1>4. DoneInv(d)'
    BY <1>0 DEF DoneInv
  <1>. QED  BY <1>1, <1>2, <1>3, <1>4

LEMMA SentUntouched ==
    ASSUME Inv, Steady, NEW r \in sent, Untouched(r.call)
    PROVE  (SentInv(r) /\ LoggedInv(r))'
  <1>. USE DEF Steady, Untouched
  <1>0. SentInv(r) /\ LoggedInv(r) /\ r.call \in Calls /\ AskedInv(r.call)
    BY DEF Inv, TypeOK
  <1>1. TokensHanded(r.call)' = TokensHanded(r.call)
    BY <1>0, ContextAssumption DEF SentInv, AskedInv, TokensHanded, Received, Started
  <1>2. SentInv(r)'
    BY <1>0, <1>1 DEF SentInv
  <1>3. LoggedInv(r)'
    BY <1>0 DEF LoggedInv
  <1>. QED  BY <1>2, <1>3

LEMMA LineUntouched ==
    ASSUME Inv, Steady, NEW l \in lines, Untouched(l.call)
    PROVE  LineInv(l)'
  BY DEF Steady, Untouched, Inv, LineInv

-----------------------------------------------------------------------------
LEMMA OpenSessionKeepsInv ==
    ASSUME Inv, NEW s \in Sessions, OpenSession(s)
    PROVE  Inv'
  <1>1. TypeOK'
    BY DEF Inv, TypeOK, OpenSession, callVars
  <1>2. Steady /\ \A d \in Calls : Untouched(d)
    BY DEF Inv, TypeOK, OpenSession, callVars, Steady, Untouched
  <1>3. sent' = sent /\ lines' = lines /\ header' = header
    BY DEF OpenSession
  <1>. QED  BY <1>1, <1>2, <1>3, CallUntouched, SentUntouched, LineUntouched DEF Inv, TypeOK

(* The steps before the tool starts: the call has sent and logged nothing. *)
LEMMA ArrivalKeepsInv ==
    ASSUME Inv, NEW c \in Calls, Unauthorized(c) \/ bearerAuth(c) \/ RunStdio(c)
    PROVE  Inv'
  <1>. USE DEF Unauthorized, bearerAuth, RunStdio
  <1>1. TypeOK'
    <2>1. pc' \in [Calls -> {"idle", "received", "unauthorized", "running", "built", "waiting", "done"}]
      BY DEF Inv, TypeOK
    <2>2. asked' \in [Calls -> [session : Sessions \cup {None}, token : Tokens \cup {None},
                               id : Headers \cup {None}, proxied : BOOLEAN]]
      <3>1. CASE bearerAuth(c)
        <4>1. PICK a \in [session : Sessions, token : Tokens, id : Headers \cup {None},
                          proxied : BOOLEAN] : asked' = [asked EXCEPT ![c] = a]
          BY <3>1
        <4>. QED  BY <4>1 DEF Inv, TypeOK
      <3>2. CASE Unauthorized(c) \/ RunStdio(c)
        BY <3>2 DEF Inv, TypeOK
      <3>. QED  BY <3>1, <3>2
    <2>. QED  BY <2>1, <2>2 DEF Inv, TypeOK
  <1>2. Steady /\ sent' = sent /\ lines' = lines
    BY DEF Steady
  <1>3. \A d \in Calls \ {c} : Untouched(d)
    BY DEF Inv, TypeOK, Untouched
  <1>4. (AskedInv(c) /\ CtxInv(c) /\ ReqInv(c) /\ DoneInv(c))'
    BY DEF Inv, TypeOK, AskedInv, CtxInv, ReqInv, DoneInv, Received, Started
  <1>5. pc[c] \notin Started
    BY DEF Started, Received
  <1>6. ASSUME NEW r \in sent PROVE (SentInv(r) /\ LoggedInv(r))'
    BY <1>2, <1>3, <1>5, SentUntouched DEF Inv, TypeOK, SentInv
  <1>7. ASSUME NEW l \in lines PROVE LineInv(l)'
    BY <1>2, <1>3, <1>5, LineUntouched DEF Inv, TypeOK, LineInv
  <1>. QED  BY <1>1, <1>2, <1>3, <1>4, <1>6, <1>7, CallUntouched DEF Inv, Steady

LEMMA MiddlewareKeepsInv ==
    ASSUME Inv, NEW c \in Calls, requestContextMiddleware(c)
    PROVE  Inv'
  <1>. USE DEF requestContextMiddleware
  <1>1. TypeOK'
    <2>1. TokensHanded(c) \subseteq Tokens \cup {None}
      BY DEF Inv, TypeOK, AskedInv, TokensHanded, Received
    <2>2. RequestIDs(c) \subseteq Ids
      BY DEF Inv, TypeOK, RequestIDs, newRequestID, Id, Ids
    <2>3. Source(c) \in {"proxies", "STDIO"}
      BY DEF Source
    <2>4. ctx' \in [Calls -> [token : Tokens \cup {None}, id : Ids,
                             source : {"none", "proxies", "STDIO"}]]
      BY <2>1, <2>2, <2>3 DEF Inv, TypeOK
    <2>5. plan' \in [Calls -> Seq({"merged", "other"})]
      <3>1. Plans \cup {<<>>} \subseteq Seq({"merged", "other"})
        BY EmptyPlan, ContextAssumption
      <3>. QED  BY <3>1 DEF Inv, TypeOK
    <2>6. pc' \in [Calls -> {"idle", "received", "unauthorized", "running", "built", "waiting", "done"}]
      BY DEF Inv, TypeOK
    <2>. QED  BY <2>4, <2>5, <2>6 DEF Inv, TypeOK
  <1>2. Steady /\ sent' = sent /\ lines' = lines
    BY DEF Steady
  <1>3. \A d \in Calls \ {c} : Untouched(d)
    BY DEF Inv, TypeOK, Untouched
  <1>4. (AskedInv(c) /\ CtxInv(c) /\ ReqInv(c) /\ DoneInv(c))'
    <2>1. AskedInv(c)'
      BY DEF Inv, TypeOK, AskedInv, Received
    <2>2. CtxInv(c)'
      BY DEF Inv, TypeOK, CtxInv, TokensHanded, RequestIDs, newRequestID, Id
    <2>3. (ReqInv(c) /\ DoneInv(c))'
      BY DEF Inv, TypeOK, ReqInv, DoneInv
    <2>. QED  BY <2>1, <2>2, <2>3
  <1>5. pc[c] \notin Started
    BY DEF Started, Received
  <1>6. ASSUME NEW r \in sent PROVE (SentInv(r) /\ LoggedInv(r))'
    BY <1>2, <1>3, <1>5, SentUntouched DEF Inv, TypeOK, SentInv
  <1>7. ASSUME NEW l \in lines PROVE LineInv(l)'
    BY <1>2, <1>3, <1>5, LineUntouched DEF Inv, TypeOK, LineInv
  <1>. QED  BY <1>1, <1>2, <1>3, <1>4, <1>6, <1>7, CallUntouched DEF Inv, Steady

LEMMA BuildKeepsInv ==
    ASSUME Inv, NEW c \in Calls, Build(c)
    PROVE  Inv'
  <1>. USE DEF Build
  <1>1. TypeOK'
    <2>1. RequestID(c) \in Ids
      BY DEF Inv, TypeOK, RequestID, NoId, Id, Ids
    <2>. QED  BY <2>1 DEF Inv, TypeOK
  <1>2. Steady /\ sent' = sent /\ lines' = lines
    BY DEF Steady
  <1>3. \A d \in Calls \ {c} : Untouched(d)
    BY DEF Inv, TypeOK, Untouched
  <1>4. (AskedInv(c) /\ CtxInv(c) /\ ReqInv(c) /\ DoneInv(c))'
    <2>1. (AskedInv(c) /\ CtxInv(c))'
      BY DEF Inv, TypeOK, AskedInv, CtxInv, TokensHanded, Received, Started
    <2>2. (ReqInv(c) /\ DoneInv(c))'
      BY DEF Inv, TypeOK, ReqInv, DoneInv, RequestID
    <2>. QED  BY <2>1, <2>2
  <1>5. ASSUME NEW r \in sent, r.call = c PROVE (SentInv(r) /\ LoggedInv(r))'
    BY <1>5 DEF Inv, TypeOK, SentInv, LoggedInv, TokensHanded, Started, Received
  <1>6. ASSUME NEW l \in lines, l.call = c PROVE LineInv(l)'
    BY <1>6 DEF Inv, TypeOK, LineInv, Started, Received
  <1>. QED
    BY <1>1, <1>2, <1>3, <1>4, <1>5, <1>6, CallUntouched, SentUntouched, LineUntouched
    DEF Inv, TypeOK, Steady

LEMMA ExecuteKeepsInv ==
    ASSUME Inv, NEW c \in Calls, Execute(c)
    PROVE  Inv'
  <1>a. PICK token : token = IF req[c].token = None THEN header ELSE req[c].token
    OBVIOUS
  <1>b. PICK new : new = [call |-> c, left |-> Len(plan[c]), kind |-> Head(plan[c]),
                          id |-> req[c].id, token |-> token]
    OBVIOUS
  <1>0. /\ pc[c] = "built" /\ pc' = [pc EXCEPT ![c] = "waiting"]
        /\ sent' = sent \cup {new} /\ lines' = lines
        /\ UNCHANGED <<mode, level, opener, header, asked, ctx, plan, req>>
    BY <1>a, <1>b DEF Execute
  <1>1. /\ plan[c] \in Seq({"merged", "other"}) /\ plan[c] # <<>>
        /\ Len(plan[c]) \in Nat \ {0} /\ Head(plan[c]) \in {"merged", "other"}
        /\ req[c] = [token |-> ctx[c].token, id |-> RequestID(c)]
    BY <1>0, TailShorter DEF Inv, TypeOK, ReqInv
  <1>2. /\ token \in Tokens \cup {Config}
        /\ IF mode = "http" THEN token \in TokensHanded(c) \ {None} ELSE token = Config
    <2>1. ctx[c].token \in TokensHanded(c) /\ ctx[c].token \in Tokens \cup {None}
      BY <1>0 DEF Inv, TypeOK, CtxInv, Started, Received
    <2>2. mode = "http" => TokensHanded(c) \subseteq Tokens
      BY <1>0 DEF Inv, AskedInv, TokensHanded, Received
    <2>. QED  BY <1>a, <1>1, <2>1, <2>2, ContextAssumption DEF Inv, TypeOK, TokensHanded
  <1>3. TypeOK'
    <2>1. new \in [call : Calls, left : Nat, kind : {"merged", "other"}, id : Ids,
                   token : Tokens \cup {Config}]
      BY <1>b, <1>1, <1>2 DEF Inv, TypeOK
    <2>. QED  BY <1>0, <2>1 DEF Inv, TypeOK
  <1>4. Steady /\ \A d \in Calls \ {c} : Untouched(d)
    BY <1>0 DEF Inv, TypeOK, Steady, Untouched
  <1>5. (AskedInv(c) /\ CtxInv(c) /\ ReqInv(c) /\ DoneInv(c))'
    <2>1. (AskedInv(c) /\ CtxInv(c))'
      BY <1>0 DEF Inv, TypeOK, AskedInv, CtxInv, TokensHanded, Received, Started
    <2>2. ReqInv(c)'
      BY <1>0, <1>1 DEF Inv, TypeOK, ReqInv
    <2>3. DoneInv(c)'
      <3>1. pc'[c] = "waiting" /\ plan' = plan
        BY <1>0 DEF Inv, TypeOK
      <3>2. new \in sent' /\ new.call = c /\ new.left = Len(plan[c]) /\ new.kind = Head(plan[c])
        BY <1>0, <1>b
      <3>. QED  BY <3>1, <3>2 DEF DoneInv
    <2>. QED  BY <2>1, <2>2, <2>3
  <1>6. ASSUME NEW r \in sent, r.call = c PROVE (SentInv(r) /\ LoggedInv(r))'
    BY <1>0, <1>6 DEF Inv, TypeOK, SentInv, LoggedInv, TokensHanded, Started, Received
  <1>7. (SentInv(new) /\ LoggedInv(new))'
    <2>1. pc'[c] = "waiting"
      BY <1>0 DEF Inv, TypeOK
    <2>2. Head(plan[c]) # "merged" => req[c].id = ctx[c].id
      BY <1>1 DEF RequestID
    <2>3. TokensHanded(c)' = TokensHanded(c)
      BY <1>0 DEF TokensHanded
    <2>4. SentInv(new)'
      BY <1>0, <1>b, <1>1, <1>2, <2>1, <2>2, <2>3 DEF SentInv, Started, Received
    <2>5. LoggedInv(new)'
      BY <1>0, <1>b, <2>1 DEF LoggedInv
    <2>. QED  BY <2>4, <2>5
  <1>8. ASSUME NEW l \in lines, l.call = c PROVE LineInv(l)'
    BY <1>0, <1>8 DEF Inv, TypeOK, LineInv, Started, Received
  <1>. QED
    BY <1>0, <1>3, <1>4, <1>5, <1>6, <1>7, <1>8, CallUntouched, SentUntouched, LineUntouched
    DEF Inv, TypeOK, Steady

LEMMA ReturnedKeepsInv ==
    ASSUME Inv, NEW c \in Calls, Returned(c)
    PROVE  Inv'
  <1>a. PICK new : new = [call |-> c, left |-> Len(plan[c]), id |-> ctx[c].id]
    OBVIOUS
  <1>0. /\ pc[c] = "waiting" /\ pc' = [pc EXCEPT ![c] = "running"]
        /\ sent' = sent
        /\ lines' = IF Head(plan[c]) # "merged" /\ level = "debug"
                    THEN lines \cup {new} ELSE lines
        /\ req' = [req EXCEPT ![c] = Unbuilt]
        /\ UNCHANGED <<mode, level, opener, header, asked, ctx>>
    BY <1>a DEF Returned, GoOn, Log
  <1>1. /\ plan[c] \in Seq({"merged", "other"}) /\ plan[c] # <<>>
        /\ Len(plan[c]) \in Nat \ {0}
    BY <1>0, TailShorter DEF Inv, TypeOK, ReqInv
  <1>2. PICK rest \in Seq({"merged", "other"}) :
           plan' = [plan EXCEPT ![c] = rest] /\ Len(rest) \in Nat /\ Len(rest) < Len(plan[c])
    <2>1. PICK rest \in {Tail(plan[c]), <<>>} : plan' = [plan EXCEPT ![c] = rest]
      BY DEF Returned, GoOn
    <2>2. /\ rest \in Seq({"merged", "other"})
          /\ Len(rest) \in Nat /\ Len(rest) < Len(plan[c])
      <3>1. CASE rest = Tail(plan[c])
        <4>1. rest \in Seq({"merged", "other"}) /\ Len(rest) = Len(plan[c]) - 1
          BY <1>1, <3>1, TailShorter
        <4>. QED  BY <1>1, <4>1
      <3>2. CASE rest = <<>>
        BY <1>1, <3>2, EmptyPlan
      <3>. QED  BY <2>1, <3>1, <3>2
    <2>. QED  BY <2>1, <2>2
  <1>3. TypeOK'
    <2>1. new \in [call : Calls, left : Nat, id : Ids]
      BY <1>a, <1>1 DEF Inv, TypeOK
    <2>2. Unbuilt \in [token : Tokens \cup {None}, id : Ids]
      BY DEF Unbuilt, NoId, Id, Ids
    <2>3. lines' \subseteq [call : Calls, left : Nat, id : Ids]
      BY <1>0, <2>1 DEF Inv, TypeOK
    <2>. QED  BY <1>0, <1>2, <2>2, <2>3 DEF Inv, TypeOK
  <1>4. Steady /\ \A d \in Calls \ {c} : Untouched(d)
    BY <1>0, <1>2 DEF Inv, TypeOK, Steady, Untouched
  <1>5. pc'[c] = "running" /\ plan'[c] = rest
    BY <1>0, <1>2 DEF Inv, TypeOK
  <1>6. (AskedInv(c) /\ CtxInv(c) /\ ReqInv(c) /\ DoneInv(c))'
    <2>1. (AskedInv(c) /\ CtxInv(c))'
      BY <1>0, <1>5 DEF Inv, AskedInv, CtxInv, TokensHanded, Received, Started
    <2>2. (ReqInv(c) /\ DoneInv(c))'
      BY <1>5 DEF ReqInv, DoneInv
    <2>. QED  BY <2>1, <2>2
  <1>7. ASSUME NEW r \in sent, r.call = c PROVE (SentInv(r) /\ LoggedInv(r))'
    <2>1. SentInv(r) /\ LoggedInv(r) /\ r.left \in Nat
      BY DEF Inv, TypeOK
    <2>2. SentInv(r)'
      BY <1>0, <1>1, <1>2, <1>5, <1>7, <2>1 DEF SentInv, TokensHanded, Started, Received
    <2>3. ASSUME level = "debug", r.kind # "merged"
          PROVE  \E l \in lines' : l.call = r.call /\ l.left = r.left
      <3>1. CASE r.left = Len(plan[c])
        <4>1. r.kind = Head(plan[c])
          BY <1>7, <2>1, <3>1 DEF SentInv
        <4>2. new \in lines' /\ new.call = c /\ new.left = r.left
          BY <1>0, <1>a, <2>3, <3>1, <4>1
        <4>. QED  BY <1>7, <4>2
      <3>2. CASE r.left # Len(plan[c])
        <4>1. \E l \in lines : l.call = c /\ l.left = r.left
          BY <1>7, <2>1, <2>3, <3>2 DEF LoggedInv
        <4>2. lines \subseteq lines'
          BY <1>0
        <4>. QED  BY <1>7, <4>1, <4>2
      <3>. QED  BY <3>1, <3>2
    <2>4. level' = level
      BY <1>0
    <2>. QED  BY <2>2, <2>3, <2>4 DEF LoggedInv
  <1>8. ASSUME NEW l \in lines, l.call = c PROVE LineInv(l)'
    BY <1>0, <1>5, <1>8 DEF Inv, LineInv, Started, Received
  <1>9. Head(plan[c]) # "merged" /\ level = "debug" => LineInv(new)'
    <2>1. \E r \in sent : r.call = c /\ r.left = Len(plan[c]) /\ r.kind = Head(plan[c])
      BY <1>0 DEF Inv, DoneInv
    <2>. QED  BY <1>0, <1>a, <1>5, <2>1 DEF LineInv, Started, Received
  <1>10. \A l \in lines' : LineInv(l)'
    BY <1>0, <1>4, <1>8, <1>9, LineUntouched DEF Inv, TypeOK
  <1>. QED
    BY <1>0, <1>3, <1>4, <1>6, <1>7, <1>10, CallUntouched, SentUntouched DEF Inv, TypeOK, Steady

LEMMA LogToolCallKeepsInv ==
    ASSUME Inv, NEW c \in Calls, logToolCall(c)
    PROVE  Inv'
  <1>a. PICK new : new = [call |-> c, left |-> 0, id |-> ctx[c].id]
    OBVIOUS
  <1>0. /\ pc[c] = "running" /\ pc' = [pc EXCEPT ![c] = "done"]
        /\ plan[c] = <<>>
        /\ lines' = IF level \in {"info", "debug"} THEN lines \cup {new} ELSE lines
        /\ UNCHANGED <<mode, level, opener, header, asked, ctx, plan, req, sent>>
    BY <1>a DEF logToolCall, Log
  <1>1. TypeOK'
    <2>1. new \in [call : Calls, left : Nat, id : Ids]
      BY <1>a DEF Inv, TypeOK
    <2>. QED  BY <1>0, <2>1 DEF Inv, TypeOK
  <1>2. Steady /\ \A d \in Calls \ {c} : Untouched(d)
    BY <1>0 DEF Inv, TypeOK, Steady, Untouched
  <1>3. pc'[c] = "done"
    BY <1>0 DEF Inv, TypeOK
  <1>4. (AskedInv(c) /\ CtxInv(c) /\ ReqInv(c) /\ DoneInv(c))'
    <2>1. (AskedInv(c) /\ CtxInv(c))'
      BY <1>0, <1>3 DEF Inv, AskedInv, CtxInv, TokensHanded, Received, Started
    <2>2. (ReqInv(c) /\ DoneInv(c))'
      BY <1>0, <1>a, <1>3 DEF ReqInv, DoneInv
    <2>. QED  BY <2>1, <2>2
  <1>5. ASSUME NEW r \in sent, r.call = c PROVE (SentInv(r) /\ LoggedInv(r))'
    BY <1>0, <1>3, <1>5 DEF Inv, SentInv, LoggedInv, TokensHanded, Started, Received
  <1>6. ASSUME NEW l \in lines, l.call = c PROVE LineInv(l)'
    BY <1>0, <1>3, <1>6 DEF Inv, LineInv, Started, Received
  <1>7. level \in {"info", "debug"} => LineInv(new)'
    BY <1>0, <1>a, <1>3 DEF LineInv, Started, Received
  <1>. QED
    BY <1>0, <1>1, <1>2, <1>4, <1>5, <1>6, <1>7, CallUntouched, SentUntouched, LineUntouched
    DEF Inv, TypeOK, Steady

LEMMA StepKeepsInv == Inv /\ [Next]_vars => Inv'
  <1>. SUFFICES ASSUME Inv, [Next]_vars PROVE Inv'
    OBVIOUS
  <1>1. ASSUME NEW s \in Sessions, OpenSession(s) PROVE Inv'
    BY <1>1, OpenSessionKeepsInv
  <1>2. ASSUME NEW c \in Calls, Unauthorized(c) \/ bearerAuth(c) \/ RunStdio(c) PROVE Inv'
    BY <1>2, ArrivalKeepsInv
  <1>3. ASSUME NEW c \in Calls, requestContextMiddleware(c) PROVE Inv'
    BY <1>3, MiddlewareKeepsInv
  <1>4. ASSUME NEW c \in Calls, Build(c) PROVE Inv'
    BY <1>4, BuildKeepsInv
  <1>5. ASSUME NEW c \in Calls, Execute(c) PROVE Inv'
    BY <1>5, ExecuteKeepsInv
  <1>6. ASSUME NEW c \in Calls, Returned(c) PROVE Inv'
    BY <1>6, ReturnedKeepsInv
  <1>7. ASSUME NEW c \in Calls, logToolCall(c) PROVE Inv'
    BY <1>7, LogToolCallKeepsInv
  <1>8. CASE UNCHANGED vars
    <2>1. TypeOK'
      BY <1>8 DEF vars, callVars, Inv, TypeOK
    <2>2. Steady /\ (\A d : Untouched(d)) /\ sent' = sent /\ lines' = lines
      BY <1>8 DEF vars, callVars, Steady, Untouched
    <2>. QED  BY <2>1, <2>2, CallUntouched, SentUntouched, LineUntouched DEF Inv, Steady
  <1>. QED  BY <1>1, <1>2, <1>3, <1>4, <1>5, <1>6, <1>7, <1>8 DEF Next

LEMMA Invariance == Spec => []Inv
  BY InitInv, StepKeepsInv, PTL DEF Spec

-----------------------------------------------------------------------------
(* The state has its type. *)
THEOREM TypeCorrect == Spec => []TypeOK
  <1>1. Inv => TypeOK
    BY DEF Inv
  <1>. QED  BY <1>1, Invariance, PTL

(* A request bears the token of its own call or of the opening of its      *)
(* session, or over stdio the configured one, however many calls share the *)
(* client.                                                                 *)
THEOREM TokensStay == Spec => []TokensStayWithTheirCalls
  <1>1. Inv => TokensStayWithTheirCalls
    BY DEF Inv, SentInv, TokensHanded, TokensStayWithTheirCalls
  <1>. QED  BY <1>1, Invariance, PTL

(* All requests and lines of a call bear one ID, but for the check of      *)
(* IsPullRequestMerged.                                                    *)
THEOREM OneId == Spec => []OneIdPerCall
  <1>1. Inv => OneIdPerCall
    BY DEF Inv, SentInv, LineInv, OneIdPerCall, IdsSent, IdsLogged
  <1>. QED  BY <1>1, Invariance, PTL

(* Equal IDs of two calls were sent by the clients, or are "unknown".      *)
THEOREM CallsToldApart == Spec => []IdsTellCallsApart
  <1>1. ASSUME Inv, NEW c \in Calls, NEW d \in Calls,
               NEW i \in IdsLogged(c) \cap (IdsSent(d) \cup IdsLogged(d))
        PROVE  c = d \/ i.from = "unknown" \/ (asked[c].id = asked[d].id /\ asked[c].id # None)
    <2>1. i = ctx[c].id /\ pc[c] \in Started
      BY <1>1 DEF Inv, LineInv, IdsLogged
    <2>2. i = ctx[d].id /\ pc[d] \in Started
      BY <1>1 DEF Inv, LineInv, SentInv, IdsLogged, IdsSent
    <2>3. i.from \in {"none", "header", "drawn", "unknown"}
      BY <2>1, <1>1 DEF Inv, TypeOK, Ids
    <2>. QED  BY <1>1, <2>1, <2>2, <2>3 DEF Inv, CtxInv
  <1>2. Inv => IdsTellCallsApart
    BY <1>1 DEF IdsTellCallsApart
  <1>. QED  BY <1>2, Invariance, PTL

(* At debug level a call that returned has left one line, and one for each *)
(* request it sent but the check of IsPullRequestMerged; at info the one   *)
(* line alone; at any other level, and when logging is off, none.          *)
THEOREM LogGoesByLevel == Spec => []LogsAccountForRequests
  <1>1. ASSUME Inv, NEW c \in Calls, pc[c] = "done"
        PROVE  LET told == {l.left : l \in {k \in lines : k.call = c}}
                   asking == {r.left : r \in {q \in sent : q.call = c /\ q.kind # "merged"}} IN
               /\ level = "debug" => told = {0} \cup asking
               /\ level = "info" => told = {0}
               /\ level \notin {"debug", "info"} => told = {}
    <2>1. level \in {"info", "debug"} => \E l \in lines : l.call = c /\ l.left = 0
      BY <1>1 DEF Inv, DoneInv
    <2>2. ASSUME NEW r \in sent, r.call = c, r.kind # "merged", level = "debug"
          PROVE  \E l \in lines : l.call = c /\ l.left = r.left
      BY <1>1, <2>2 DEF Inv, LoggedInv
    <2>3. ASSUME NEW l \in lines, l.call = c, l.left # 0
          PROVE  /\ level = "debug"
                 /\ \E r \in sent : r.call = c /\ r.left = l.left /\ r.kind # "merged"
      BY <1>1, <2>3 DEF Inv, LineInv
    <2>4. \A l \in lines : level \in {"info", "debug"}
      BY <1>1 DEF Inv, LineInv
    <2>. QED  BY <2>1, <2>2, <2>3, <2>4
  <1>2. Inv => LogsAccountForRequests
    BY <1>1 DEF LogsAccountForRequests
  <1>. QED  BY <1>2, Invariance, PTL
=============================================================================
