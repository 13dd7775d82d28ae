# A TLA+ verification of mcp-forgejo

mcp-forgejo is an MCP server in front of a Forgejo instance. An MCP client calls
one of its tools; the tool makes one, two or three REST requests; the server
answers with what it learnt. The program keeps no data of its own. What makes it
hard is everything around the requests: other people change the same repository
between two of them, answers get lost or arrive after the client has given up,
and a caller has to decide from one word, the *kind* of an error, whether its
write happened.

## 1. Inventory

| Component | Source | State | Operations | Interacts with |
|---|---|---|---|---|
| Error taxonomy | `domain/domain.go` | none | eight error kinds | every layer reads the kind |
| Forgejo client, request functions | `infrastructure/forgejo/forgejo.go` (`do`, `doJSON`, `doText`, `IsPullRequestMerged`, `UploadReleaseAsset`) | one resty client shared by all calls | one request: send, wait, observe, map the status, decode | called by every endpoint method; Forgejo; the metrics collector |
| Forgejo client, endpoint methods | same file, lines 164-945 | none | one request each; `GetPullRequest` makes three | use cases above, request functions below |
| Text sanitising | same file (`stripControl`, `skipANSI`, `decodeFile`) | loop index and builder | strip control bytes from files and diffs | `GetFile`, `GetDiff`, `GetPullDiff` |
| Use cases | `application/application.go` | none | check arguments, call one or two services | called by the tool handlers |
| Tool registry | `server/server.go` | the package variable `registeredTools` | build the server, register 52 tools with their annotations | MCP library |
| Request context | `server/http.go`, `server/session.go`, `domain/session.go` | values in the context | bearer token, request ID, source; log a tool call | HTTP handler, tool handlers, client |
| Process lifecycle | `cmd/mcp-forgejo/main.go`, `server/stdio.go` | context, channel `serveErr`, two servers | start, serve, stop, exit code | operating system, `observability.Run` |
| Observability | `observability/*.go` | four collectors; a server and two goroutines | serve metrics and probes; count upstream requests | lifecycle, client |
| Configuration, logging | `config`, `logging`, `server/slog.go` | none | read the environment, open a log | lifecycle |

Where it is hard, and what has to hold:

* **client**: a request may be lost, its answer may be lost, late, cut short or
  undecodable. A call takes effect at most once, its outcome never claims more
  than is known, it returns, and it is counted exactly once.
* **file tools**: probe, then commit. A change made in between must not be
  buried, and a conflict must be somebody's.
* **pull request tools**: check, then merge; create, then submit; three reads. The
  reports must match who did what, and the state, files and checks shown must
  fit together.
* **issue and branch tools**: an issue and its comments are two reads; a branch is
  checked in one request and deleted in the next; an edit names no version. What
  is shown must fit together, and nobody's change may be undone unasked.
* **single-request tools and the registry**: a client repeats what is hinted
  idempotent or reported transient, while its first request may only be late.
* **request context**: concurrent calls of different clients share one client and
  one process. Tokens must not wander, and what a call did must be found in the
  log under one ID, as far as the log level lets it through.
* **lifecycle**: signals, listener failures, open requests and timers in any
  order. The exit code must mean something, and the process must end.
* **sanitising**: index arithmetic at the end of the text; what is dropped along
  with an escape sequence.

`PROJECT.json` lists every hazard at its line with the properties about it.

## 2. Modules

```
 Taxonomy        RemoteCall              Surface        Lifecycle   StripControl
    |   \       (promise of              (52 tools)
    |    \       one write)              /      \
    |   ForgejoClient ..promise     RetryingCaller   RequestContext (plans of the
    |        \_______________________/               tools, in its MC module)
    |
    +-- FileOps          ..promise      each file tool is two requests
    +-- IssuesBranches   ..promise      one or two requests
    +-- PullRequests     ..promise      up to three
```

Lines are `EXTENDS`; `..promise` means that the module is shown to implement
RemoteCall through an `INSTANCE ... WITH`. For each module `M` there is `MCM`
with the instance TLC checks and `MProofs` with the theorems.

* **RemoteCall** is the abstract specification: a request takes effect at most
  once, "done" means it has, "refused" that it never will, and only an
  "undecided" one may take effect after its caller was told. One request keeps
  this promise, and so does a tool of two requests.
* **Taxonomy** has the kinds and `kindForStatus`. *Refusals* are all kinds but
  `transient` and `validation`; that `validation` is not a refusal is a fact of
  the code (a 2xx that cannot be decoded) and not of its documents.
* **ForgejoClient**: `pc`, `route`, `outcome` are a call's progress through one of
  the five request functions; `metric` is the upstream counter, by status;
  `wire` and `executed` belong to the network and Forgejo. `Send` is a request
  function up to resty's `Execute`; `TakeAnswer`, `BreakBody` and `Fail` are the
  three ways `Execute` returns, each with the `observe` and the return that
  follow; `Interpret` is the tail of the request functions. `SetRetryCount(0)`
  is why `Fail` only returns; `SetTimeout` is why it is fair.
* **Surface** is the registry: one set of tools per `register...` function, each
  tool with its hints, whether its use case checks an argument first, and the
  requests it sends by what they do at Forgejo (`get`, `post`, `create`, `patch`,
  `put`, `delete`, `commit`, ...).
* **RetryingCaller** composes ForgejoClient and Surface with an MCP client that
  repeats a tool of one request when told the failure was transient. All requests
  aim at one object, which others edit, remove and restore; `Apply` is what each
  class of request does to it.
* **FileOps**: `WriteFile` and `DeleteFile` on one path. `TakeProbe` is the code
  between the two requests (create on `not_found`, update or delete with the
  probed SHA, return on any other error), `TakeCommit` and `Fail` the rest.
  Forgejo's file has a history `log`, and others commit to it. A blob SHA is a
  function of the content, so a text stands for its SHA, and a file restored to
  an earlier text has its earlier SHA (the model does contain that case).
* **PullRequests**: `GetPullRequest`, `MergePullRequest`, `ReviewPullRequest`, one
  action per request answered (`TakePull`, `TakeFiles`, ...), pushes and merges
  by others in between. `Knowledge` is what `GetPullRequest` has read; the head SHA
  in it serves the third request and is not shown (the tool returns no commit).
* **IssuesBranches**: `GetIssue` and `DeleteBranch`, which compose two requests,
  beside the tools that change what those read. `forge` is the issue and the
  branches, `log` who changed what; `updateIssueRequest` is the body of an edit,
  whose blank fields `omitempty` leaves out (so an edit cannot clear a field); an
  edit gives any of title, body and state. `readAt` remembers when `DeleteBranch`
  read the default branch.
* **RequestContext**: an HTTP request with its token and headers (`asked`), the
  context made of it (`ctx`), the resty request built from that (`req`), what was
  sent and logged (`sent`, `lines`). `header` is the default header of the shared
  client. `level` is what `effectiveLogLevel` makes of LOG_LEVEL: `logUpstream` writes
  at debug, `logToolCall` at info, so that by default an HTTP server logs tool
  calls and no requests, and a stdio server nothing. A nil logger is the level "".
  `IsPullRequestMerged` builds its request by hand: it bears no X-Request-ID and
  leaves no upstream line, and the properties say so.
* **Lifecycle**: the main goroutine (`pc`), the accept loops of both servers
  (`loop`), the goroutine that stops the observability server (`obsStop`), the
  one-place channel (`serveErr`), signals, requests and the two 5 s timers
  (`grace`). The `select` is two actions, either of which may win. Exit stops
  every goroutine where it is and cuts open requests.
* **StripControl**: the byte loop over classes of bytes; the output is the sequence
  of the positions kept. Diffs, and file contents that are not base64, reach it
  unchecked, so any sequence of bytes is an input; only the property about UTF-8
  is limited to inputs that are valid, as `decodeFile` makes sure of.

Operators named `X_Something` beside an operator `X` are faulty variants of it,
the kind of slip the properties are meant to notice; no specification uses them.

## 3. What the runs show

| Run | Instance | Shows |
|---|---|---|
| `client` | two calls, statuses 200, 404, 422, 423, 503 | `AtMostOnce`, `TruthfulOutcome`, `MetricsAccount`, `LateExecutionOnlyIfTransient` under every loss, delay and overtaking; `EveryCallReturns`; the refinement `KeepsPromise` |
| `retrying` | one client, three attempts, one tool of every kind in the registry, one change by others | what a repeating caller may conclude from its outcomes (`OutcomesBracketChanges`); that repeating a call hinted idempotent alters nothing (`RepeatIsHarmless`) |
| `files` | two tool calls, two texts, one foreign push | `ReplacesWhatItProbed`, `ConflictMeansInterference`; the refinement of RemoteCall; every tool returns |
| `pulls` | two tool calls of any kind, one push, one merge by hand | `MergeCredit`, `ShownFitsTogether`, `ReviewsBelongToTheirCalls`; the refinement of RemoteCall; every tool returns |
| `repository` | one call of issue_get, branch_delete or issue_update, one of any of eight tools, one foreign change, two branches | `ShownIssueHasItsComments`, `EditsTouchOnlyTheirFields`, `DefaultAskedForOnlyInRace`; the refinement of RemoteCall; every tool returns |
| `context` | two calls, two sessions, two tokens, the plans of all 52 tools, both transports, every log level | `TokensStayWithTheirCalls`, `OneIdPerCall`, `IdsTellCallsApart`, `LogsAccountForRequests` |
| `lifecycle` | one request and one event stream on each server | meaning of the exit code (`CleanExitOnlyAfterSignal`), grace for tool calls (`CallsGetTheirGrace`), the channel between the two goroutines (`ErrorWaitsForMain`), termination |
| `strip` | every text up to five bytes, eight classes, valid UTF-8 or not | bounds and safety of the loop; that it drops every escape sequence whole, and nothing beside them but control bytes (`DropsWholeSequences`); termination |

Four further runs each refute one sentence of the repository's documents, comments
or tool descriptions, and PROJECT.json quotes it:

* `retrying_duplicate`: a transient failure is *not* safe to retry for a write.
  The timeout is reported as transient, the request may still arrive.
* `client_undecodable`: `validation` does not always mean 422. It is also what the
  caller of a write reads that was carried out and whose 2xx answer could not be
  decoded.
* `lifecycle_scrape`: the observability server gets no graceful shutdown, since
  `main` does not wait for the goroutine that does it.
* `strip_utf8`: ESC before a multi-byte character leaves half of it.

Other places where the documents say more, or something else, than the code does,
met while modelling and not given a run:

* SPEC.md:110-112 puts 409 and 423 under other kinds than `kindForStatus`.
* `stripControl` preserves structural whitespace (line feed, tab, CR), say
  forgejo.go:1168-1169 and SPEC.md:152. One right after ESC, or in an unterminated
  CSI, is dropped with the sequence: `DropsWholeSequences` counts it into the
  sequence, as the code does, and not as text.
* "The default branch can never be deleted" (application.go:260-261; SPEC.md:354,
  server.go:689 and README.md:88 say the like) is not this server's doing alone. A
  branch made the default between its check and its request is asked for all the
  same (`DefaultAskedForOnlyInRace`), and it is Forgejo's own refusal, 403, that
  saves it (forgejo_delete_test.go:132-137). Without that refusal the sentence
  would be false; with it, as modelled, no run can refute it.
* "Destructive/irreversible operations flagged `destructiveHint`" (SPEC.md:236): a
  file_write_many may delete files (server.go, `operation: delete`) and is hinted
  `destructive = false`. SPEC.md 6.2 itself lists it among the tools that are not
  destructive, so the documents disagree with one another here. No property is
  about `destructiveHint`, which depends on no state.
* Each HTTP request is served with the token it bears, say SPEC.md:26, SPEC.md:31
  and http.go:14-16. That rests on the MCP library handing the handler the context
  of the call's own request. If it hands over that of the request that opened the
  session, the opener's token is used; `TokensStayWithTheirCalls` accepts both, and
  nobody else's.
* A tool call's line is "visible whenever logging is enabled" (session.go:88-90):
  not at a LOG_LEVEL of warn or above. Upstream requests are logged at debug only.
* The FORGEJO_TOKEN "fallback" (README.md:180) is never used over HTTP, where
  `bearerAuth` refuses a request without a token.
* An HTTP call without proxy headers is logged with source "STDIO".
* "grouped read→write→delete" (server.go:104, SECURITY.md:57) is not the order in
  which the later batches register.
* "no request depends on any state produced by a previous one" (SPEC.md:135) is
  not so for a commit's SHA or a review's ID.

**Bounds.** Calls and tool calls share no variable of the program but the metric
and the client's default header, and meet only at Forgejo, so two suffice for one
to disturb another; the third party is `ForeignChange`, `Foreign`, `Push` or
`ForeignMerge`, once each. `client` has one status of every class that
`Interpret` and the executions behind an answer tell apart. In FileOps two texts
let a file change and change back. Three attempts let a retry follow a retry, and
`OneOfEachKind` takes one tool for every combination of hints, check and requests
in the registry: two tools of one kind behave alike. In `repository` the first
call is one that reads before it writes, shows, or edits; the second is any, so
that each such call meets every other. Its edits (`EditsOfEachField`: title and
closing at once, body, reopening) give each field once and leave each out; branch
names are interchangeable, so the default starts as `main`. In `context` the level
"error" stands for every level above info. `context` is symmetric in its calls,
sessions and tokens and has only invariants; the configured token is distinct
from those of clients, and drawn IDs do not collide (eight random bytes). Elsewhere
no symmetry is used: those instances have liveness or refinement properties, or
a single client. Five bytes hold ESC, `[`, a parameter, a final byte and one byte
after it. Deadlock is not checked: all of these systems come to rest when every
call has returned or the process has ended.

**Fairness.** Of a call only its timeout is fair (`Fail`: `SetTimeout(30 s)`, for
each of a tool's requests); nothing is assumed of the network or of Forgejo. In
Lifecycle goroutines that can run do so, timers fire and an accept loop ends once
its listener is closed; nothing is assumed of clients, signals or the stdio
transport. RetryingCaller and RequestContext have safety properties only.

**Assumed of the outside** (marked external in PROJECT.json): a 2xx answer stands
for a request carried out, a 4xx for one that was not, a 5xx for either; the
transport does not repeat a write; Forgejo creates only absent files and updates
or deletes only the version whose SHA it is given; it refuses to delete the default
branch (the repository's own test says so, forgejo_delete_test.go:132-137); the head
of a merged pull request no longer moves; an edit changes the fields its body has; a session is opened by an authorised HTTP request, and
the MCP library hands a tool handler a context made of that request or of the
call's own, one or the other; a listener is closed, and no further request
accepted, once Shutdown was called.

## 4. What is proved

Every theorem holds for all values of the constants that satisfy the module's
`ASSUME`; PROJECT.json lists them. In every module the properties are consequences
of an invariant (`IInv`, in RetryingCaller `CallerInv`), shown to hold initially
and to be kept by each action, one lemma per action.

`ForgejoClientProofs`: `TypeOK`, `AtMostOnce`, `TruthfulOutcome`, `MetricsAccount`,
`LateExecutionOnlyIfTransient`, `KeepsPromise`. `TruthfulOutcome` is not
inductive: that an answer tells the truth must already hold while it travels.
`CallInv` ties `wire` to `executed`: a call whose request is not served has not
been carried out, an answer on the way (or read, or lost) has an execution count
its status allows, and an outcome other than `transient` comes only from an
answer that was read. The refinement maps `Serve` with an execution to `Execute`,
the three returns to `Tell` and everything else to a stutter. `MetricsAccount`
says that some labelling of the returned calls has the counter for its histogram;
a call that returns extends the labelling by its own label, so that no sum is
formed (`CountInv`).

`RetryingCallerProofs`: `RepeatIsHarmless` and `OutcomesBracketChanges`, for all single-request tools and not only one of each
kind, and that the requests of a repeating client still implement RemoteCall.
`SurfaceFits` reads off the registry that no tool whose request makes something
new each time is hinted idempotent. `Made` traces every change at Forgejo, the late ones included,
back to the tool it was made for, and `InTurn` says that each change starts from
the one before. `LogCounts` says that the log of a tool that writes has one change
for every attempt carried out, which makes what the client's `CallInv` says of
executions a statement about the history. The steps are steps of ForgejoClient
(`ClientStep`), so its invariant is used as it is.

`FileOpsProofs`: `TypeOK`, `ReplacesWhatItProbed`, `ConflictMeansInterference`,
`KeepsPromise`. The history gives the version at every point (`VersionAt`), and
`WireInv` and `CommitInv` say that what a tool call has on the wire carries the
version at the point of its probe, and which commits it can have made by then.

`PullRequestsProofs`: `TypeOK`, `MergeCredit`, `ShownFitsTogether`,
`ReviewsBelongToTheirCalls`, `KeepsPromise`. `MergeInv`, `ShownInv` and `ReviewInv` say of each
request and answer under way what it tells about the merge, the head and the
reviews now, and not only when it was sent. For the refinement `EffectInv` counts
what a call has done by the time each of its requests is under way - a created
review is no effect, its submission is - and `Kinds` sorts the steps into those
that take effect, those that report and those that stutter.

`IssuesBranchesProofs`: `TypeOK`, `ShownIssueHasItsComments` (needs that a comment,
once deleted, does not come back: `ShownInv`), `EditsTouchOnlyTheirFields`
(each entry of the history is `Confined` to the fields its edit was given),
`DefaultAskedForOnlyInRace` (needs, from the answer that names the default branch
on, that it still is the default or somebody else has moved it since it was read:
`RaceInv`), and `KeepsPromise`, for which `CountsInv` says what each call has done
by the time its last answer arrives.

`RequestContextProofs`: `TypeOK`, `TokensStayWithTheirCalls`, `OneIdPerCall`,
`IdsTellCallsApart`, `LogsAccountForRequests`. A request sent shows what was put on
it when it was built, that what the context had when the tool started, and that
what the HTTP request carried; each part of the invariant is one link. A line is
one its level lets through (`LineInv`), and at debug every request that returned
has left one (`LoggedInv`).

`LifecycleProofs`: `TypeOK`, `CleanExitOnlyAfterSignal`, `CallsGetTheirGrace`,
`ErrorWaitsForMain`. The
exit code depends on who could have closed the MCP listener: only the main
goroutine, on its way out of the `select` after a signal (`StopInv`), so that the
`select` never takes a `nil` from the channel.

`StripControlProofs` proves for every set of texts, of any bytes, that the loop stays
inside the text (`TypeOK`), that no control byte survives and the order is kept
(`OutputIsSafeText`), and that every escape sequence is dropped whole and nothing
else but control bytes (`DropsWholeSequences`), where an escape sequence is defined without reference to
the loop. The lemma they rest on, `SkipSpans`, says that `skipANSI` returns the
end of exactly such a sequence; it needs a least final byte, and so the
well-foundedness of the naturals. The last property asks for a division of the
text into sequences and the rest; `Divides` is that property with the division as
a parameter, and each step either adds one sequence to it (`SkipDivides`) or one
byte to the rest (`ByteDivides`). `Advances` is the part of `Terminates` that
needs no fairness: every step moves forward, and none beyond the end.

**Only model-checked**: liveness (`EveryCallReturns`, `EveryToolReturns`,
`SignalEndsProcess`, `BrokenListenerEndsProcess`, `Terminates`), since fairness and
ENABLED are beyond the prover. Every other property of a passing run is a theorem.
Conversely the type invariants of PullRequests, RequestContext and Lifecycle are
proved and no longer run: TLC's time goes to what a type cannot say.

## 5. Not modelled

Paths, queries, JSON bodies, base64, pagination and redaction: no property here
depends on them. Titles, descriptions and schemas of the tools, and the startup
line that `registeredTools` is kept for. Redirects. Configuration parsing and log
sinks, beyond the fact that they may fail. The histograms and the HTTP handlers
of the observability endpoint. `sourceFromRequest`, which tests alone call. The
MCP library: how it dispatches calls and encodes results.

## 6. What is left

**Composition**: FileOps over ForgejoClient itself, instead of over the promise
both are shown to keep, and with Lifecycle, so that a commit cut off by the end of
the process is in one model with the tool that sent it. Seen from Forgejo it is a
call whose answer is lost, which both models have.
