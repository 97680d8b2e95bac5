# A verification project for Axiom-Engine

TLA+ models of Axiom-Engine, a chat assistant over entertainment data: a
Next.js frontend, a Go gateway, a Python API with an LLM agent, a Go loader that
fills PostgreSQL from CSV files, and Redis. TLC checks the models on small
instances, TLAPS proves the theorems for every value of the constants.
`PROJECT.json` lists components, runs, mutants, the map from definitions to
source lines, hazards, findings and theorems. Paths below leave out `src/`, and
Python paths `backend-python/api/`.

## 1. Inventory

| part | state it keeps | operations | who it talks to |
|---|---|---|---|
| Go gateway, `backend-go/sse/main.go` | circuit breaker (state, failure count, window, opening time), counters; per-IP keys in Redis | `/stream` (ServeHTTP), `/health`, `/metrics` | called by the chat route; calls Redis and Python's `/internal/query` |
| Go loader, `backend-go/ingestion/main.go` | none but the tables; two channels per file | main's loop over files, `ingestFile` | PostgreSQL |
| Chat route, `frontend/app/api/chat/route.ts` | none | POST: gateway first, Python as fallback | gateway, Python |
| History, `hooks/use-query-history.ts`, `app/api/history`, `routers/history.py` | React state per tab, localStorage, a Redis list per user | load, add, clear; push, get, delete | page, Redis |
| Start-up, `main.py` lifespan, `auth/vault_client.py`, `pipeline/db.py`, `schema.py` | app.state (connection or pool, schema), JWT_SECRET, DuckDB's tables | find the secret, connect, load CSV files, describe the tables, shut down | Vault, DuckDB, PostgreSQL |
| Protected routes, `main.py`, `routers/`, `security/`, `observability/audit.py` | `audit_log` | token check, scope check, limits, input check, query, documents, erasure, scores | agent, Redis, PostgreSQL |
| Tokens, `auth/jwt_handler.py`, `rbac.py`, `routers/auth.py` | none: a token is good while its signature matches and it is not expired | login, refresh, verify, scopes | clients |
| Agent, `agent.py`, `llm_client.py` | the LLM conversation, trace, cost, retrieved chunks | up to six rounds of completion and tool calls, role checks | LLM, tools, evaluation |
| Text to SQL, `pipeline/din_sql.py`, `sql_guard.py` | none | one or four LLM calls, guard, execution | LLM, database |
| CRAG, `pipeline/crag.py` | none | retrieve, grade, verify signatures, decompose, merge | LightRAG, LLM |
| PDF ingestion, `ingestion/`, `routers/ingest.py`, `pipeline/lightrag_setup.py` | `document_chunks`, LightRAG's index, temporary files | upload, scrub, chunk, sign, embed, store, index | PostgreSQL, LightRAG |
| Evaluation and watchdog, `observability/` | three score lists and a cooldown key in Redis | sample a request, record a score, poll, alert | Redis, Slack, LLM |
| Frontend session, `frontend/app/api/auth`, `middleware.ts` | cookies `api_token` and `mock_session` | login, logout, page guard | API |
| The rest (tracing, logging, pages, generators, deployment) | output or configuration | | |

What is hard here, and what makes each part correct:

* **Breaker.** Handlers hold no lock between Allow, the upstream call and
  Record..., so reports arrive late and out of order. It must open only after
  Threshold failures that are recent and consecutive, add no load while open,
  and close again once the API is well.
* **Limiter.** INCR and EXPIRE are one pipeline, not one transaction: other pipelines
  and time come between them, the connection breaks, and Redis restarts without its
  keys. Every error lets the request pass. While Redis runs it must bound a client's
  counted requests in every window, and never lock a quiet client out.
* **ingestFile.** One reader, N workers, a bounded channel each way, and
  cancellation by the first error; a file that cannot be read on. No row twice, success
  only when every valid row is in, and it must return.
* **Loader.** Files in directory order against foreign keys, a COUNT query that
  decides whether a table is done, and a process that may be killed. Populated
  tables are left alone, and repeated runs must converge.
* **Chat.** Two ways to ask the same question, the second while the first may
  still run; a stream that may end anywhere under a 200. What is shown must be one
  run's answer, and the route must answer.
* **History.** Asynchronous loads that merge a snapshot, several tabs on one
  localStorage, a DELETE nobody waits for, three Redis commands per push, times of two
  clocks. Order as far as the clocks allow, no item twice, a clear that is final when nothing disturbs it, a bounded list.
* **Agent.** A model that may ask for any tool, several at once, unknown ones, ones
  its user may not have, in any round; two providers with different rules about who
  must speak next; retries of a stateful chat. Every call gets its result, once and
  in order, before the model speaks again; a denied tool never runs; only SQL that
  passed the guard reaches the database; the run ends, and no reply of the model can
  bring it down.
* **Documents.** Windows that overlap and must cover a page exactly; an upload whose
  steps fail one by one behind a single status; a retrieval that merges the answers
  to several sub-questions, while the index grows and its texts may be altered.
  Status and index agree, the merge keeps the best of each chunk, and nothing whose
  signature does not match is returned but GraphRAG's text, which has none.
* **Evaluation and watchdog.** Pipelines and pairs of commands that may be cut in
  the middle, processes that poll the same list and share one cooldown key that is
  looked up before an alert and set after it. Scores are of sampled requests, lists
  keep to their caps, alerts are few, and low scores do raise one.
* **Start-up, tokens, audit.** A start broken off anywhere and repeated over a
  half-filled DuckDB file; a secret found in four ways, which may change under tokens
  still alive; roles that change while refresh tokens carry the old one; audit rows
  that are written, or not, beside the answer.

## 2. Modules

| module | what it models |
|---|---|
| `CircuitBreaker` | `CircuitBreaker`: `AllowAdmits`, `AllowRejects`, `RecordSuccess`, `RecordFailure`, and time |
| `BreakerClients` | the breaker with any number of requests in flight that report one outcome each; the abstract specification of the breaker's use |
| `RateLimiter` | `RateLimiter.Allow` over Redis: INCR, then EXPIRE, in pipelines that overlap, fail or are cut off; Redis restarts |
| `LimiterClients` | the limiter with clients and the ages of their last admitted requests |
| `SSEGateway` | `ServeHTTP` in concurrent handlers; instantiates `RateLimiter` and, as what it implements, `BreakerClients` |
| `BulkLoad` | what `ingestFile` promises: rows are added, at most once each, until it succeeds with all or fails |
| `IngestFile` | `ingestFile`: reader goroutine, workers, `batchCh`, `insertedCh`, errgroup, caller; implements `BulkLoad` |
| `IngestService` | the loader's main over files, tables and foreign keys, with kill and rerun; a file's load is a `BulkLoad` at the grain of batches |
| `ChatPath` | one question through route, gateway, `/internal/query` and `/api/chat` |
| `QueryHistory` | the hook in several tabs, the history route and the Redis list |
| `Dialogue` | what a conversation with a language model has to be: replies, calls and results, without rounds, roles, tools or providers |
| `TextToSql` | `din_sql`, `sql_guard` and the execution of what passes |
| `AgentLoop` | `run_agent` and `_dispatch_tool` over either client of a provider, EXTENDS `TextToSql`; implements `Dialogue` |
| `PdfIngest` | concurrent uploads: `ingest_pdf`, `load_pdf`, `embed_and_store`, `index_chunks` |
| `Crag` | `crag_retrieve` on the index that `PdfIngest` fills |
| `Documents` | uploads and a retrieval together, and texts that are altered in the store |
| `Evaluation` | sampling, the three score lists, the watchdogs of several processes |
| `StartUp` | the API process from start to end, again and again |
| `Tokens` | tokens, keys and roles; EXTENDS `StartUp` |
| `ApiService` | requests to the protected routes with their audit rows; EXTENDS `Tokens` |
| `MCIngestService`, `MCQueryHistory`, `MCAgentLoop`, `MCDocuments`, `MCEvaluation`, `MCApiService` | values of constants that a cfg cannot write, and symmetries |
| `SharedState_proofs` (breaker and limiter), `SSEGateway_proofs`, `BulkLoader_proofs` (`IngestFile` and `IngestService`), `ChatPath_proofs`, `QueryHistory_proofs`, `Agent_proofs` (`AgentLoop` and `Documents`), `Evaluation_proofs`, `ApiService_proofs` (with `StartUp` and `Tokens`) | theorems |

How state and actions correspond to the code, where it is not obvious:

* **Time** counts seconds or coarser units down to a deadline or up to an age
  (`openLeft`, `windowAge`, `ttl`, `admitAge`, `timer`, `cooldown`, `sinceAlert`,
  `idle`), saturating one past the last value that a comparison in the code can tell
  apart, so clocks need no bound. A token carries the life it has left.
* **One action is one critical section** (a method under the breaker's mutex), one
  Redis command or transaction, one channel operation, one task of an event loop or the
  part of a coroutine between two awaits. Between two of them everything else may
  happen.
* **`RateLimiter`** has INCR as `Count` and EXPIRE in the action that ends the pipeline:
  `AllowWithin`, `DenyOver`, or `FailsCounted` when it was cut off, with the EXPIRE
  executed or not; `FailsUncounted` is a pipeline that never reached Redis. `running` are
  the pipelines between the two commands; a key may expire there, and EXPIRE then does
  nothing. `RedisRestarts` leaves no key ("restart", Redis as production runs it) or an
  older state ("snapshot", Redis with its defaults). In `LimiterClients`, `whole` are the
  pipelines whose key has been there since their INCR, `admitAge` the ages of the requests
  whose EXPIRE found it, forgotten with a restart, and `quiet` the time since a client's
  last command.
* **`IngestFile`** counts copies of each row. `OpenFails` is a file that does not open or
  has no header, `Launch` starts the goroutines. `CopyFails` covers a refused COPY and
  one that commits and loses its answer. In `ReadErrorLasts` Read fails at every call, and
  the reader goes on for ever (`spin`): in a file that cannot be read on, or after the
  caller has returned with an error and closed it.
* **`IngestService`** counts the batches of a table. `copied` beyond the number of workers
  is the jam of `insertedCh` from outside, `stranded` a load whose reader spins.
* **`ChatPath`** writes the n-th agent run's i-th word as `<<n, i>>`. The gateway's
  200 goes out with its first flush; after that every end looks alike to the
  route, and `gw = "broken"` means that the connection itself failed. Keep-alive
  pings share the ResponseWriter with the copying loop without a lock:
  `PingRaces` lets a line be lost or the connection break.
* **`QueryHistory`** has one action per Redis command of a push. A load is its
  snapshot of localStorage, then the reply, then the merge. `now` holds two clocks, the
  API's and the browser's, that nothing relates; time passes on one, or does not, when
  something is recorded by it. `recent` counts the answers put in front since the last
  merge. The merge takes the first item of each key
  (`FirstOnes`) and puts them in the order of the stable sort (`Newer`, `Sorted`). A clear
  clicked while a load is under way, or while another tab shows one of its items, is
  sure to remove none of them (`Undisturbed`); a load that begins before its DELETE
  came through takes that certainty away (`Disturbed`).
* **`AgentLoop`** identifies a call by tool and position, which is what
  `GeminiClient` makes its identifiers from. `pending` says whether that client holds
  a message to send (`_pending_send`), `remembered` whose results it can send,
  `forced` that mode ANY is set until the first results. `agent.py` and `llm_client.py`
  name the fields of two structures differently: a call's `tool_name`, `tool_input` and
  `tool_id` are read as `name`, `input` and `id` (AttributeError at agent.py:217), and a
  result's `tool_use_id` is read as `id` (KeyError at agent.py:268). `agree` is the set of
  those that agree: {} is the code as committed, in which a run raises at its first call
  (`UnknownField`); with the call's names repaired it raises at its first result, a
  denied call's too (`UnknownId`); only with both repaired does a result enter the
  conversation (`Deliver`). `Builds` are the sets to look at. `NoFunctionResponse` is a
  tool's output that does not fit Gemini's message.
* **`TextToSql`** sees a text as statements with a type, tables and words, and
  comments with words. `executed` collects what a database was given; PostgreSQL never
  is, because the pool is taken for a DuckDB connection.
* **`PdfIngest`** gives a page its number of tokens and a chunk its window; `genuine`
  is whether text and signature match. `status` is the answer of the route, `temp` the
  files still on disk.
* **`Crag`**: `seen` is a history variable, every scored chunk any sub-question gave.
  LightRAG may answer with any list of chunks in the index, or with a text. That text and
  the one of GraphRAG have no signature, so neither is `genuine`; only the first is
  filtered out.
* **`Evaluation`** has a `wiring`: how the modules of `observability/` find each other.
  "committed" is the code as it is deployed, "onPath" the one with the directory on the
  path, which then has two `trace_context` modules, "intended" one context for all.
  `searched` counts a request's retrievals, `retrieved` those that found chunks: a
  relevance is recorded on the decomposed path without any, too. A failed RAGAS evaluation
  gives 0 or `NaN`. `untrimmed` are the pushes whose own trim was lost, until another trim
  comes. `uncooled` remembers a restart, or a cooldown that could not be set or was lost
  with Redis' memory.
* **`StartUp`**: `left` and `blind` are history: the tables the present start could not
  load, and that it could not describe them. The secret comes from the environment,
  Vault, the development default, or key files that are read at every use. A Vault that
  answers without a `jwt_secret` gives the empty string as key (`EmptySecret`).
* **`ApiService`** moves a request through named stages; `row` is the audit row that
  exists for it; "unsent" is an answer that was recorded and could not be made a response
  of. A token check and the second one in `forbidden_handler` are separate
  actions, since tokens expire and keys change between them.

## 3. Runs

Passing runs. Each property of each has a mutant in `PROJECT.json`: a slip of the
modelled code, defined in the module, under which TLC finds it violated.

* `breaker` (Threshold 3, window 2, open 3, three requests in flight): the counter
  holds only failures after the last success and within the window
  (`CountedAreRecent`), and every opening has Threshold such failures
  (`TripJustified`). Three in flight is enough for a late success and a late
  failure beside the deciding one. With WindowSecs < OpenSecs, as by default, a
  failed probe finds its window over and counts as the first failure again.
* `limiter` (two callers, two clients, Limit 2, Window 2, every fault): `KeyCoversWindow`
  is the invariant behind `AtMostLimitPerWindow`, the promise between two restarts of
  Redis; requests before a restart, and those whose key expired between INCR and EXPIRE,
  are not bounded by the code. `QuietClientAdmitted` names the one case in which a quiet
  client is denied, a key that lost its EXPIRE. Two callers overlap pipelines of one
  client or of both.
* `gateway` (three handlers, Threshold 2, Limit 2, Redis unreachable, cutting pipelines
  off and restarting): the handlers implement
  `BreakerClients` (`UsesBreaker`), so what is proved there holds here; an open
  breaker admits nothing (`OpenAddsNoLoad`); `Recovery` is the liveness property.
* `ingest_file` (seven rows, batches of two, two workers): four batches for two
  workers and an `insertedCh` of two, the smallest instance that fills both
  channels' interesting places. `Implements` is the refinement of `BulkLoad`.
  `ReturnsOrHangs` says that there are two ways not to return: all workers wait for room
  in `insertedCh`, which is read only after they have exited; or the file cannot be read
  on, and workers wait for a `batchCh` that is never closed.
* `ingest_service` (the six real files of one to three batches, two workers, two faults):
  see the comments of `RerunsConverge` and `LeftForLater`. The last file has more batches
  than there are workers, so that a run can hang in it, and then does not end until it is
  killed: that is the second disjunct of `RerunsConverge`. Two faults allow a kill in one
  run and a failed query in the next.
* `chat_path` (three words, all nine kinds of trouble): `OneRunsWords`,
  `SecondRunIsAfterABreak`, `UndisturbedAnswerShown` and, with fairness,
  `RouteAnswers`.
* `query_history` (two tabs, two questions, MaxItems 2, MaxList and PageSize 1, one
  load and one clear at a time, every fault): each limit is reached and exceeded
  before it is enforced, and loads overlap answers, pushes and clears. MaxTime 1 lets
  any two recordings share a time or not, and either clock be ahead. `ShownNewestFirst`
  claims of items put in front since the last load only that each source's are in order:
  an answer is put in front unsorted, with the browser's time. `gone` is a history
  variable: the items of a clear that nothing disturbed.
* `agent` (the code as it is, and the builds with either slip or both repaired; two rounds,
  two calls a reply, roles with all, some and no tools, both providers and databases, four
  stages of SQL, seven texts): `Implements` is the refinement of `Dialogue`;
  `OnlyAllowedRuns` relates role, trace, sources and what the database was given;
  `RaisesWithCause` says what can bring a run down, in the code every call of a tool and
  with both repaired only the provider and a result it cannot be sent; with fairness,
  `Ends`. What follows a call is thus a statement about a repaired build, what follows a
  reply without calls one about the code. Two rounds have
  a first, a last and the word after the last; two calls mix granted, denied and
  unknown ones. The texts pass the guard or are stopped by each of its checks.
* `documents` (two uploads, windows of 4 tokens with 1 shared; files of no text, of
  exactly one window, of a blank page and two windows, damaged, of another type, too
  large; three parts, TopK 2, scores below and on the two thresholds):
  `UploadAnswersTruly`, `BestOfEachChunk`, `UnsignedOnlyFromGraphRag`. Seven tokens are two
  windows of which the second ends exactly with the page, where a window inside the
  overlap would follow if the loop did not stop.
* `evaluation` (two requests with a retrieval each, two processes, caps, samples and
  interval of 1, three wirings, Redis going, coming and forgetting, one restart):
  `RecordedHonestly`, `ListsCapped`, `AlertsAreFew` and, with fairness, `LowScoresAlerted`.
  Two relevances overflow the first list; two pushes, each trimmed, failed, cancelled or
  cut between push and trim, take the third to its bound and every value below. The second
  process looks the cooldown up before it is set, after, and when it has run out. Longer
  intervals and more requests are left to the theorems.
* `service` (two tables, four secrets, the empty one among them, four sources, both
  databases, five routes, one user with two roles, tokens of 1 and 2 units, three tokens at
  a time, one request):
  `GrantsAreFresh`, `AuditTellsTruth`, `AgentKnowsItsTables`. One request is enough
  because requests share nothing but process, key and clock, which change at any step;
  three tokens let an old session's refresh token live beside a new pair.

One run refutes a statement of the repository: `agent_tool_names`
(`RaisesOnlyInTrouble`). "Dispatch to: query_sql | retrieve_docs | generate_chart |
compute_metric" (agent.py:9), but the first tool call of any run raises AttributeError
outside the loop's try, and were that repaired, its result would raise KeyError.

### Divergences read off the code, without a run

Gateway and loader:

* The comment says "sliding-window" (sse main.go:196), but every request, a refused one
  too, gives the one counter a new minute to live, so a steady client is refused at last
  with fewer than Limit requests in the last minute.
* A restart of Redis, which saves nothing in production, resets every client's counter
  (docker-compose.prod.yml:71).
* Half-open is to "allow one request" (main.go:84, :124); it admits any number until
  the first outcome.
* Failures that straddle the end of the fixed window do not add up (:148 against :10);
  a late success ends the open period early (:136); a browser that disconnects counts
  as a failure of the API (:295).
* `ingestFile` jams on a file with more batches than `insertedCh` has room for and no
  worker left (ingestion main.go:139), and does not return from a file whose reads go on
  failing (:155-159); `ReturnsOrHangs` is exactly this. The shipped files have at most
  three batches and do not jam with three or more workers.
* `marketing_spend` sorts before the `movies` it references, so the first run leaves it
  out, against README.md:90.
* "Log but don't abort" is followed by an abort (:131, :137); a failed load reports no
  rows (:187); a table left half full by a killed run is skipped for ever (:266).

Chat and history:

* The gateway turns Python's 401 into a 200 with an empty answer, so the page's
  branch for an expired login (page.tsx:40-42) is not reached through it.
* The client's and the server's entry of one question never share a timestamp unless
  recorded in the same millisecond, so both are shown after a reload.

Agent, text to SQL, retrieval:

* The comment has DIN_SQL_STAGES "=1" where the code tests for "4"; `din_sql`'s calls of
  the model are not charged, though agent.py:11 says that every call is; a refusal is
  taken for a rate limit when it contains "rate", as "generate" does.
* Calls asked for in the completion after the last round are never made, and Anthropic
  text beside a stop other than end_turn is dropped; one without calls puts an empty
  user message into the conversation. The branch for another stop reason cannot be
  reached.
* The guard allows `document_chunks`, which the schema hides, and refuses the names of
  common table expressions. The role "admin" has no tools.
* On PostgreSQL no SQL ever runs: an asyncpg pool has an `execute`, so it is taken for
  DuckDB.
* "HMAC-SHA256 signature verified on every retrieved chunk" (README.md:269), but
  `_maybe_augment_graphrag` appends one that has no signature and writes `tamper_ok=True`
  itself (crag.py:286-291); `UnsignedOnlyFromGraphRag` names the exception.
* LightRAG answering with a text gives a chunk without signature, which is always
  dropped. The comment about access lists has no check behind it. A score of "nan" from
  the model becomes 1.0.
* Uploads are identified by the name of their temporary file, so that a second upload
  of a file duplicates its chunks and sources are cited under that name.
  `embed_and_store` signs with CHUNK_HMAC_SECRET, `pdf_loader` with HMAC_SECRET.
  `ingest.py:8` says "docs:executive", the code requires "tools:basic" (:36).

Evaluation, start-up, audit:

* As committed, the bare imports of `rag_eval.py`, `watchdog.py` and `phoenix_setup.py`
  fail: no score is recorded and no poll succeeds. Chunks have no `get`, so
  `ragas:scores` is not written either. A failed RAGAS evaluation is pushed as 0.0, like a
  bad score, or as NaN, and while a NaN is in the list no average is low.
* With one process the cooldown has as a rule run out when the next poll comes, so it
  limits only other processes and restarts.
* `middleware/rls_context.py` does not parse, so the API as committed does not start; the
  models are of the code once it does. The `request.state.token` it looks for is never
  set, so it would do nothing.
* `get_schema_ddl` on PostgreSQL is always empty. A Vault that cannot be reached, with
  no JWT_SECRET in the environment, leaves every token check at a KeyError and 500; one
  that answers without a `jwt_secret` makes the empty string the key (main.py:91).
* `infra/postgres/init.sql`'s `audit_log` lacks columns that `audit.record` inserts
  (`migrations/001` has them), and DuckDB has no `audit_log`: both lose every row
  silently. `/api/chat` and `/internal/query` audit nothing, nor are failures of the
  agent and a 403 without token audited.
* `erase_user_data` does nothing on PostgreSQL and answers success; on DuckDB it fails.
* A refreshed token keeps the role of the first login for as long as it is refreshed
  in time; `GrantsAreFresh` states the bound.

## 4. Fairness

* `SSEGateway`: weak fairness of each handler's step and of time. Goroutines are
  scheduled, `client.Do` returns because the client has a 120 s timeout, and the pipeline
  because go-redis has timeouts of its own. Nothing
  makes clients send or leave or the API change; `Recovery` assumes in its
  statement that the API stays healthy, no one leaves and requests keep coming.
* `IngestFile`: weak fairness of the reader, each worker and the caller; a COPY
  returns because its connection does. Nothing makes a file readable or a worker find
  room in `insertedCh`.
* `IngestService`: the process runs, and the service is started again and again.
* `ChatPath`: weak fairness of gateway, API and route; no fault has to happen.
* `AgentLoop`: weak fairness of Next: one coroutine that nothing holds back. Requests
  have timeouts, the sandbox kills what runs too long.
* `Evaluation`: time passes and the event loop runs each watchdog. Nothing makes a
  request finish or Redis come back; `LowScoresAlerted` assumes in its statement that
  the scores stay low and Redis stays up.
* `QueryHistory`, `Documents` and `ApiService` have no liveness property: nobody has to
  open a tab, and uploads, retrievals and requests are bounded sequences of steps whose
  end is the server's scheduling alone.

CHECK_DEADLOCK is FALSE where the system really ends: `ingestFile` returns (or its
goroutines wait for ever, which `ReturnsOrHangs` states), the question is answered, all
questions of the history run are asked, the agent's run is over, uploads and retrieval
are done.

## 5. Proofs

Every safety property of every passing run is proved, as an invariant, an action property
or a refinement, for all values of the constants; liveness stays with TLC.

| theorem | argument |
|---|---|
| `SharedState_proofs`: `BreakerTypeCorrect`, `CounterIsSound`, `NoFalseTrip` | types and `CountedAreRecent` are inductive together; an opening step then has its Threshold witnesses in `lastFail` |
| `LimiterTypeCorrect`, `KeysCover`, `RateIsLimited` | `KeyCoversWindow` with types, one key at a time (`KeyFacts`). The counter stands for the requests admitted and the pipelines that are promised an admission (`Promised`): admitting one of these turns a promise into an age of 0, so the bound is kept though INCR and EXPIRE are two steps and others come between. What the counter does not stand for is a Window old, because every admission ran an EXPIRE. All of it since the last restart of Redis, which forgets counters and promises alike |
| `QuietIsAdmitted` | `LifeFollowsAsk`: a key that expires does so within a Window of its client's last command, and no snapshot holds a longer life. Only for Limit > 0: with `RATE_LIMIT_RPM=0` the gateway denies everyone, the quiet too |
| `SSEGateway_proofs`: `TypeCorrect`, `OpenBreakerShedsLoad` | `OpenAddsNoLoad` is inductive with the types: a request becomes late when the breaker opens over it, and nobody goes upstream while it is open |
| `HandlersUseBreaker` | every step of a handler is a step of `BreakerClients` with as many requests in flight as are upstream, or leaves the breaker alone; what was proved of the breaker thereby holds in the gateway |
| `BulkLoader_proofs`: `TypeCorrect`, `NoRowTwice`, `SuccessLoadsFile` | `IInv`: every valid row is in exactly one place (unread, the reader's batch, `batchCh`, a worker's hands) or copied; `copies` alone does not say that a row still in a channel has none |
| `LoadsAsPromised` | `RInv` adds that every row in the table is counted once: by a worker that has yet to report, by one number in `insertedCh`, or by `total` (`Counted`, which a function from rows to numbers witnesses), and that no batch is empty. A return without error then returns the number of valid rows, as `BulkLoad` promises |
| `ServiceTypeCorrect`, `OnlyThoseAreLeft`, `PopulatedIsSkipped` | `PassInv`: an undisturbed run has itself copied all that the table it loads holds, and every file behind it is complete or was left behind for a reason, which outlasts the copying of later files (`LeftBehind`) |
| `ChatPath_proofs`: `TwoRunsNeedABreak` | each request starts at most one run, and the fallback is tried only from a refused or broken gateway, both of which are final |
| `TypeCorrect`, `ShownIsOneRuns`, `WholeAnswerShown` | `WInv`: the words on their way keep their order, first those the gateway has written, then those it has not (`InOrder`); runs are no fewer than answers and entries (`RunsCounted`); and while nothing has gone wrong the queues hold exactly what was emitted (`NothingLost`). What the route then makes of the lines is a lemma about its loop (`Picked`) |
| `QueryHistory_proofs`: `ListStaysShort` | the list exceeds its limit by no more than the pushes that have still to trim, and without a time to live some push has still to set it |
| `TypeCorrect`, `NewestFirst`, `ShownOnce`, `ClearedStaysGone` | `HInv`: nothing held is newer than the clock of its source, and an answer under way has no item of its client yet (`Recorded`), so one put in front is new and keeps the order of its source, whatever the other clock shows; the items of the last merge are in order behind (`InOrder`). While a load is under way no DELETE is sure of its items, and what one is sure of no tab shows (`Cleared`). `MergedInOrder`: a merge is in order and without repetitions whatever the two lists were |
| `Agent_proofs`: `OnlyAllowedRunsHolds`, `RaisesWithCauseHolds`, `ImplementsDialogue` | `IInv`: while a reply's calls are handled, the results are those of its first calls, in order (`HandledInOrder`); Gemini's client remembers each call and holds a message whenever it is asked (`GeminiReady`); there is one reply a round (`Counted`); what is about to be executed passed the guard (`Guarded`). Each step maps to a step of `Dialogue` or a stutter. For every set of builds: with `Builds = {{}}` they are about the code as committed, in which `RaisesWithCause` lets any called tool end the run, with `{Interfaces}` about the code with both slips repaired |
| `UnsignedOnlyFromGraphRagHolds` | what was merged so far is genuine, and so is what is returned, but for GraphRAG's text behind it (`KeptGenuine`): both passes filter by signature, the merge adds nothing, an order of a set has only its elements, and the text is appended to fewer than two |
| `UploadsAnswerTruly` | `UInv`: until its end an upload's chunks are indexed or to do, each once (`IndexedOnce`), and each stage knows what is stored (`StageKnown`). That windows cover a text, overlap as they should and do not lie in each other is arithmetic of `Stride` (`WindowsNumbered` and the lemmas after it) |
| `BestIsReturned` | `BestKept`: of every chunk that was seen the best-scored version is merged, and no other |
| `Evaluation_proofs`: `TypeCorrect`, `AlertsAreFewHolds` | `Spaced`: a sleeping watchdog has slept an interval since its alert, or will have when it wakes (`Rested`, `Awake`), and the age of an alert and the cooldown's remaining life add up to an interval at least, unless the alerting process has yet to set it, could not, or was restarted, or Redis lost it (`Cooled`) |
| `ScoresAreHonest` | `Honest`: faithfulness is recorded as a request's last step, so one that is on the list is done and stays as it is; a pushed and trimmed list has no more entries of a request than before, and one of its own (`PushedOnto`) |
| `ListsAreCapped` | `Capped`: the third list exceeds its cap by no more than the requests between push and trim and those whose push no trim has followed (`Waiting`); a push adds to both sides, a trim that comes empties the second set. For finitely many requests: the bound counts them |
| `ApiService_proofs`: `AuditIsTrue` | `ServiceInv` (types, and that nothing is served unless the process is up) and `RowsInv`: a request has no row before its end, that of an answer is there before the response is made, and one that is forbidden has no token or not the scope of its route, which a later change of role or key cannot alter |
| `TablesAreKnown` | `Loading`: the tables are those populated, those this start left and those it has yet to look at, each in one part (`LoadInv`); when it is up there are none of the last |
| `AccessIsFresh` | `YoungInv`: what a token has left and the time since its user was last issued tokens for that role under that key add up to at most the life it was issued with. So a token that is still good was issued, or its session renewed, that recently |

The assumptions are those named in the modules: positive thresholds, limits and
windows, a finite non-empty set of workers (`IngestAssumption`; WORKERS and
BATCH_SIZE are taken to be at least 1) and of handlers (`GatewayAssumption`), a sequence
of files or tables (`ServiceAssumption`, `StartUpAssumption`), natural bounds. TLC
evaluates each. Two theorems have a hypothesis of their own, Limit > 0 and
IsFiniteSet(Requests), as said above.

Where a proof needs induction over data, the schemata of the library cannot be used,
since they take an operator as a parameter. Two ways around that are used instead: a
set of naturals that is not empty has a least element, whose predecessor is no
counterexample; and that a loop over a list has a run is itself shown so, after which the
recursive function of the model is such a run (`Unrolled`, `LoopEnds` in
`ChatPath_proofs`).

Only model-checked are the liveness properties, because fairness and ENABLED are beyond
the prover: `Recovery`, `ReturnsOrHangs`, `RerunsConverge`, `RouteAnswers`, `Ends` and
`LowScoresAlerted`. Each inductive invariant was checked by TLC on its run's instance
before it was proved.

## 6. Abstractions, and what is not modelled

Metrics, logging, headers, health endpoints and shutdown of the gateway are left out, and
so is go-redis sending a broken pipeline once more, which counts its request twice.
`realIP` is an opaque key. A snapshot of Redis is modelled for the limiter's keys only:
elsewhere a restart of Redis loses what it held or nothing. A CSV row is valid or not. A failed COUNT
query counts as an empty table, as in the code. In `ChatPath` the tool events are
treated like words, `/internal/query` may start a run only once, and Python's own
401 and 429 stand for all its answers below 500, the 422 for a question of more than 2048
characters among them. In `QueryHistory` neither clock is set back, and
questions are told apart, so that two askings of the same text in one millisecond are
not confused.

In `AgentLoop` an answer of white space is an empty one, prices and prompts are left
out, and the evaluation at the end of a run is `Evaluation`'s. In `TextToSql` SQL is its
statements' types, tables and words. In `Documents` one retrieval runs, get_rag's race
for the instance is left out, and scores are in percent. What RAGAS and Phoenix compute
is a score in `Evaluation`. In `StartUp` the CSV files arrive all at once and have rows;
in `Tokens` a client holds at most MaxTokens tokens, and a signature is its key.

Not modelled:

* the frontend's session: cookies, middleware and login page over a mock store. Its one
  effect on other parts, a token that is good or not, is an input of `ChatPath` and
  `ApiService`;
* few-shot examples, prompt registry and Phoenix's start, which fill prompts or
  dashboards and whose failures are swallowed;
* `pii_scrubber.py`, the patterns of `input_validator.py`, the text of SQL and prompts:
  functions of text without state;
* tracing, Langfuse, token cost and logging: output no other part reads;
* `tools/dispatch.py`, `load_all_pdfs` and the tables of `models.py`, which nothing calls;
* data generators and `compile_dspy`: sequential scripts run by hand;
* pages and components: rendering;
* compose files, migrations and other configuration, but for the foreign keys of
  `init.sql` in `MCIngestService`;
* `rls_context.py`, which is not Python that runs.

## 7. Plan

Done in this order: breaker and limiter, the gateway that composes them,
`ingestFile` with `BulkLoad`, the loader, the chat path, the history; then the agent with
`Dialogue`, documents, evaluation, start-up with tokens and protected routes; then the
proofs of all safety properties.

Left:

1. `ChatPath`'s run as an instance of `AgentLoop`'s end.
2. `Session`: the two cookies over several tabs, against `Tokens`.
3. Two requests in `service`, once the state space allows; `AuditIsTrue` and
   `AccessIsFresh` hold for any number already.
4. Theorems about the model rather than a run: that a batch of `IngestService` is what
   `BulkLoad` adds, so that main rests on `ingestFile` as proved.
