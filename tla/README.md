# Verification of chatgpt2api's core

chatgpt2api turns a pool of ChatGPT (and Grok, fomimage) accounts into an
OpenAI-compatible API for images and text. It is a threaded Python service: an
asyncio front end hands each request to a worker thread, background threads
refresh tokens, consume a task queue and clean up, and several worker processes
may share files and Redis. This directory holds TLA+ models of the parts where
threads, processes, failures and restarts meet, the TLC runs that check them,
and TLAPS proofs. `PROJECT.json` is the index: which definition models which
lines, what each run checks, which mutation breaks which property, and the hazards
the properties are aimed at.

Paths below are relative to `src/`.

## The system

| Component | State it keeps | Operations | Meets |
|---|---|---|---|
| Account pool, `services/account_service.py` | accounts by token, token aliases, image slots in flight, egress holds | acquire and release a slot, verify an account, book a result, rotate a token, delete, import, remove invalid | image requests, breakers, proxy nodes, administrators |
| Account lifecycle, the same file and `api/support.py` | status, counts and back-off of invalid tokens, refresh locks, progress of logins | refresh, ask the upstream, mark, heal, log in again, replace, the watcher's round | every request, administrators, the upstream |
| Image requests, `services/protocol/conversation.py`, `services/openai_backend_api.py` | one thread per image with its account, conversation and retry counts | acquire, check, stream, poll, resolve, retry, give up | account pool, breakers, the upstream's documents |
| Text requests, `services/protocol/*` | raw and shown text, what was sent | pick an account, apply edits, clean, send in one of four formats | account pool, breakers, clients |
| Completion cache, `services/protocol/chat_completion_cache.py` | entries with expiry, calls in flight | hit, join, own, store, drop, replay | request threads, the generator's threads |
| Circuit breaker, `services/circuit_breaker.py` | state and failure counter per token, in a local or Redis store | `allow_request`, `record_success`, `record_failure`, `remove` | every request, several processes |
| Task queue, `services/task_queue.py` | a deque per priority, task table, permits, consumer | enqueue, cancel, dequeue, run, put back, clean up, start and stop | image tasks, backups, revival |
| Image tasks, `services/image_task_service.py` | task table, `image_tasks.json`, deduplication window | submit, list, run, finish, resume polling, load after a restart | clients, task queue, file |
| Session pool, `services/session_pool.py` | sessions per key, borrowed marks, adaptive limit | get, release, remove, invalidate, close, clean up | every upstream call, the cleaner |
| Rate limiter, `api/rate_limit.py`, `services/shared_state.py` | counts per process, or per slot of the clock in Redis | check, fall back to counting locally | every request, several processes |
| API keys, `services/auth_service.py` | the list of keys in memory and storage | create, change, delete, authenticate, save the last use | requests, administrators, several processes |
| Request log and usage counters, `services/log_service.py`, `services/usage_agg.py` | a file per day, counters with an offset | append, delete, trim, roll over, clean up, count | every request, the watcher |
| Backups, `services/backup_service.py` | objects in R2, a state file | run, verify, rotate, delete | scheduler threads, administrators |
| Image storage, `services/image_storage_service.py` | local files, WebDAV, R2, an index and its cache | save, find, list, delete, clean up, switch modes | image requests, administrators |
| Imports, `services/cpa_service.py`, `services/sub2api_service.py` | a job record in the source's settings | start, fetch, add, finish, change the source | administrators, account pool |
| Proxy pool, provider scheduling, event bus and alerts, healing and diagnosis, configuration, registration, storage back ends, HTTP API, web console | `PROJECT.json`, "components", has each with its reason | | |

What is hard about it: check-then-act on shared state outside locks (verification
of an account, session health checks, Redis reads and writes, records that are read
and written back under two holds of a lock), counters that must be paired across a
token's rotation, generators that leave a lock held while another thread resumes
them, clients that leave in mid-stream, retries that repeat what was already done,
answers of the upstream that arrive after the account was deleted, saves that fail
half-way, a shared store that stops answering and whose failures are passed over, and
restarts between two steps. The "hazards" of `PROJECT.json` list
each place.

What makes the components correct:

- pool: an account never runs more images than allowed, no slot is lost or
  left behind, every request ends;
- lifecycle: a refresh token the upstream has consumed is sent again only if its answer
  was lost, a dead account leaves service, a working one comes back, a deleted one stays
  deleted, a login's progress ends;
- image request: slots follow the attempts (unless one is marked twice), what was drawn is
  delivered, a timed-out conversation can still be polled (unless its image went to a sibling);
- text request: the deltas make up the answer, blocks are well formed, a client that
  streams is told what one that does not is told (and the beginning of a first tool tag
  that came in parts);
- cache: one call per key, whole answers only, nobody waits for ever;
- breaker: a trip is lost only by a store that does not answer, an open breaker is probed;
- queue: every task is somewhere exactly once, permits add up, outcomes stand,
  equal priorities start in order, everything is settled;
- image tasks: one job per task, unfinished tasks have a worker, success is final,
  a resumable task survives a restart, one run per prompt and window;
- sessions: never another account's session, none forgotten;
- limiter: the limit holds in every window (twice the limit by slots of the clock),
  and only a full window refuses;
- keys: a key is what its administrator was told; log: a rewrite keeps what it does not
  remove, nothing that has an identifier is counted twice; backups: the last verified one stays; images: what
  was saved is found until deleted; imports: the record adds up.

## Modules

| Module | Models | Atomic step |
|---|---|---|
| `CircuitBreaker` | one key of the registry, workers that share the store | one operation on the store (dict or counter), answered or not |
| `AccountPool` | slots and egress, the life of image requests, rotation, deletion, import | one section under `_lock`, or one answer of the upstream |
| `AccountLifecycle` | refresh, upstream checks, back-off, relogin, replacement, the watcher | one section under `_lock`, one step under `_token_refresh_lock`, one answer |
| `ImageRequest` | a request for N images: attempts, stream, poll, resolve, retries, its response | one event of the stream, one round of the poll, one handler |
| `TextRequest` | one text request in four formats, as a sequence of tokens | one event of the upstream and all that it makes the program send |
| `ChatCompletionCache` | entries, calls in flight, locks by thread, generators | a section under a lock, or the code up to a yield |
| `JobQueue` | what the queue promises: submit, cancel, start, end, drop | abstract |
| `TaskQueue` | deques, consumers, permits, workers | one section under the queue's lock, one semaphore operation |
| `ImageTasks` | task table, file, jobs, restarts; `JobQueue` as its queue | one section under the service's lock |
| `SessionPool` | entries in order of age, sessions, users, cleaner | one section under the lock, or a check outside it |
| `RateLimiter` | windows of each process, slots in Redis, clients' addresses | one check |
| `ApiKeys` | memory of each process, storage, calls in two steps | reload and change, or save |
| `LogBook` | files by day, the watcher's offset | an append, one step of a rewrite |
| `Backups` | bucket, runs, state file | one call of the bucket |
| `ImageStore` | places, index, cache, readers | a section under the index's lock, or one step of a reader |
| `ImportJobs` | job record, threads that read and write it back | one hold of the lock |
| `SharedStateProofs` | theorems of `CircuitBreaker` and of `RateLimiter` | |
| `AccountPoolProofs`, `AccountLifecycleProofs`, `TaskQueueProofs`, `ImageTasksProofs`, `SessionPoolProofs` | theorems of the module named | |
| `RequestProofs` | theorems of `ChatCompletionCache` and of `ImageRequest` | |
| `ServiceProofs` | theorems of `ApiKeys`, `Backups`, `ImportJobs`, `ImageStore`, `LogBook` and `TextRequest` | |
| `MC*` | model values and small sets for TLC | |

`TaskQueue` implements `JobQueue` (checked and proved), and `ImageTasks` is built on
`JobQueue`, so the detail of the queue need not be explored again there. `AccountPool`
has breakers as a set of open tokens: that they open and cool is `CircuitBreaker`'s.
`ImageRequest` has its accounts as a set: that their slots are bounded is `AccountPool`'s.
Parts that share no state are checked in one run: in `MCServices` and `MCRequests` a
behaviour is of one part, chosen at the start, while the others rest in their initial
state. Their state spaces add up and do not multiply.

### How state corresponds

- **AccountPool.** `status`, `quota` are `_accounts` (a token with status "absent" is no
  key); `alias` is `_token_aliases`; `inflight` is `_image_inflight`; `holds` is
  `_egress_holds`; `node` is the egress counter of one node that all accounts share.
  `pc` is where a request stands between `get_available_access_token` and its last
  `mark_image_result`. `Resolve` is the alias chain, stated as the fixed point of
  `Hop` so that no recursion is needed. Scheduler modes rank candidates; the model
  takes any. `MaxRetries` stands for the several retry counters. The loop over 20
  attempts of `get_available_access_token` is not bounded in the model, because with
  fewer tokens than that the excluded set ends it first.
- **AccountLifecycle.** `db` is `_accounts` by account, aliases resolved; `up` is what the
  upstream thinks of the account's current token and password; `th` has the threads in
  `refresh_access_token` or `fetch_remote_info` and the token each holds; `relog` the
  threads of `_password_re_login_thread`; `watch` the watcher of `api/support.py`; `job`
  is `_relogin_progress`. Back-off times are booleans ("is set", "is over"); the
  administrator's options are chosen at the start. `Worth` is what a refresh token is worth
  upstream: "live", "spent" (consumed, its successor sent), "unanswered" (consumed, but the
  answer never reached the service) or "revoked". `OauthLost` may leave the token unanswered:
  `services/account_service.py:708-721` reports the failure and keeps the token stored, and
  every later refresh sends it again (802-808).
- **ImageRequest.** `run` is `_generate_single_image` per image: its stage, conversation, what
  it found, its retry counts; `doc` is the upstream's document of each conversation.
  Budgets of time run out at any wait. An image whose conversation was missed looks it up by
  its prompt (`Finds`), and is told any conversation the account has (`Listed`), since the best title
  or else the latest wins (`services/openai_backend_api.py:1266-1332`): its own, that of an image
  at work beside it, or `Other`, which stands for those of earlier attempts and of other requests
  and may show anything. An image that saw progress and ends with neither result nor message
  (`openai_backend_api.py:1152-1154`) is marked in the attempt and again by the handler of
  "no image generated" (`services/protocol/conversation.py:1649`, `:1665`, `:1776-1780`): the second mark takes a
  slot from whichever image holds one.
- **TextRequest.** `reply` is the answer as the upstream holds it, `echo` the history index,
  `raw` and `text` the program's copies, `got` the deltas, `sent` what of them was passed on,
  `out` the events of the format. What cleaning shows is defined as a selection of the
  text's places, so that no recursion is needed. Words,
  spaces, full stops, citations and tool calls are what the cleaning code tells apart.
  A tag is a token, but the first one of an answer may come in parts: `streamable_text`
  knows complete names only (`services/protocol/anthropic_v1_messages.py:181-184`), so the beginning of the tag, alone at the
  end of what has come, is sent as text. Then `cut` is set, and what is sent ends in `<`. The rest
  of the tag comes before anything else and changes nothing that is sent, so it is no step.
- **CircuitBreaker.** `store` is the state dict, `cooled` that `recovery_timeout` has
  passed since `opened_at`; `fails` is the counter key; `snap` is what a worker read.
  The counter saturates at the threshold: larger values decide nothing. `reachable` says whether
  the store's backend answers. `SharedBreakerStateStore` passes over every exception
  (`services/circuit_breaker.py:119-161`): without an answer a read is of a missing key, a write or a reset was done or
  was not, a failure is counted or not and the count is taken to be 1. `unsure` is history:
  the last count, reset or trip had no answer.
- **TaskQueue.** A task is pending in a deque, in a consumer's hand, with a worker, or
  settled. `JobState` maps it to the abstract queue: a task cleaned up is dropped.
- **ImageTasks.** A task is a record of the fields that decide something; "fresh" is
  the deduplication window, "old" the retention; `disk` is the file. `asked` is a
  history variable.
- **ChatCompletionCache.** `lock` gives each lock's thread and depth; `on` is the thread that
  executes a request, nobody between two chunks.
- **SessionPool.** `order` lists keys by age, `old` and `worn` are expired entries and
  connections, `pooled` the marks of a session, `live` whether it is open.
- **RateLimiter.** `records` is the deque of each `SlidingWindow` as counts by age, `limiters` the
  keys of `_per_ip`, `shared` the slot's counter in Redis, `own` that of a `LocalBackend`.
- **ApiKeys.** `mem`, `disk` are `_items` and the storage; `told` and `doubt` are history: what the
  administrator was last told, and what failed calls asked for since.
- **LogBook.** `file` maps (day, number) to entries; `edit` is what a rewrite has read;
  `offset` and `counted` are the watcher's. `withId` is chosen at the start: with `LOG_FORMAT=json`
  entries are logged without an identifier (`services/log_service.py:120-135`), and a deletion writes each line it keeps with
  one (`:85`, `:327`). Such a line is `long`: it counts as two in the length of
  a file and in the offset. **Backups.** `run` is `run_backup` of each process.
  **ImageStore.** `index` maps an image to its remote places, `cache` is a set of at most one index.
  **ImportJobs.** `held` is the job as a thread read it, `saved` the file.

## Runs

All runs use a handful of values: two or three threads, two or three tokens,
tasks or sessions. Each bound is named in the cfg. They suffice for what the
hazards need: two actors in each other's way and a third for what a second
release or a replaced value does to a bystander.

| Run | Checks | Bounds | Distinct states |
|---|---|---|---|
| `breaker` | `NoLostTrip`, `OpenIsProbed` | 2 workers, threshold 2, 2 half-open calls, a store that stops answering and comes back at any time; fair | 367,842 |
| `pool` | `SlotsCounted`, `EventuallyQuiet` | 3 tokens (1 account, 2 rotations), 2 requests, 1 slot, 1 retry, refused tokens, removal of limited accounts; fair | 232,387 |
| `pool_all` | `SlotBound`, `NoStrandedSlot` | 2 tokens, 2 requests, 1 slot, 1 retry, a node of limit 1, deletion, import, removal of invalid tokens, breakers, progress-only streams | 1,191,481 |
| `queue` | `TaskIsSomewhere`, `PermitsMatchWorkers`, `ImplementsJobQueue`, `StartsInOrder`, `EventuallySettled` | 3 tasks, 2 priorities, workers and consumers, stop and start; fair | 72,288 |
| `tasks` | `OneWorker`, `UnfinishedHasWorker`, `SuccessIsFinal`, `ResumableSurvivesRestart` | 2 keys, 3 jobs, 2 workers, 1 restart, saves of updates may fail | 862,802 |
| `tasks_live` | `OncePerWindow`, `EventuallyTerminal` | the same without restart and failing saves; fair | 333,104 |
| `sessions` | `SessionsMatchKeys`, `NoneForgotten` | 2 keys, 3 sessions, 3 users, pool of 1, the cleaner | 1,307,956 |
| `lifecycle` | `OnlyUnansweredResent`, `DeadIsMarked`, `WorkingIsRecovered`, `GoneStaysGone`, `ReloginReports` | 1 account, the watcher, 1 other thread, 1 login, 2 events of the world, every option; fair | 141,385 |
| `requests` | `CallsAreShared`, `AnswersAreWhole`, `SlotsFollowAttempts`, `ResultsAreDelivered`, `TimeoutKeepsConversation` | 4 streams of text on 2 keys, or 2 images side by side on 1 account and 1 file; the first image is retried once, the second not and it draws no files (`ImagesBound`) | 1,245,252 |
| `services` | `LimitsHold`, `DeltasAddUp`, `BlocksWellFormed`, `SameAsWhole`, `KeysAreAsTold`, `RewritesKeepTheRest`, `CountedOnce`, `VerifiedStays`, `KeptIsFound`, `FinishedAddsUp` | the small services, each with 2 or 3 of everything; logs of 4 entries in 3 days, rolled over by size 3 in 2, without identifiers in 1 day (`LogBound`) | 571,777 |
| `pool_double` | `LimitRespected`, violated | 1 token, 3 requests, 1 slot | |
| `text_repeats` | `DeltasAddUp`, violated | 2 accounts, answers of 4 tokens | |

Type invariants (`TypeOK` in each module) are checked when a module is changed, or
proved; no run repeats them. Deadlock checking is off where the system comes to
rest: requests that are over, tasks that are settled, clients that left.

### Where the code and what is said of it part

Two runs expect a violation; `PROJECT.json`, "findings", has the lines.

- `pool_double`: a stream that ends without an image releases its slot twice.
- `text_repeats`: cleaning removes a space that was already sent, so that the text is no
  longer an extension of what the client has and all of it is sent again.

Further configurations state what a comment or a document says of the program
and are violated as well (`tlc -config X.cfg M`, some seconds each). They are kept beside
the runs because whoever changes these lines will want them:

| Configuration | Property violated | What happens, against what is said |
|---|---|---|
| `MCCircuitBreakerOpen` | `OpenOnlyCoolsDown` | a late success overwrites an OPEN another worker stored, since read and write are separate; `services/circuit_breaker.py:304` comments the transition as safe |
| `MCAccountPoolLeak` | `EventuallyServed` | an open breaker keeps the slot of the request it turns away; once all are gone requests wait until the limit of attempts; `docs/api/error-codes.md:64` |
| `MCAccountPoolEgress` | `EgressBalanced` | a rotation between reservation and release leaks the node's egress; `services/account_service.py:1614` and `:1632` ask for one release per reservation |
| `MCImageTasksTwice` | `OncePerWindow` | a restart forgets prompts and with them the window; `services/image_task_service.py:25` |
| `MCImageTasksStuck` | `UnfinishedHasWorker` | a submission whose save fails stays queued for ever; `CHANGELOG.md:704` says a failing save does not block |
| `MCChatCompletionCacheReplay` | `ReplayCompletes` | a replay yields under the lock; resumed on another thread it fails to release it; `docs/feature-status.en.md:39` |
| `MCChatCompletionCacheStuck` | `EventuallyOver` | after such a failed replay the lock stays with a thread that does not know it |
| `MCSessionPoolDead` | `PooledIsOpen` | a session closed while borrowed returns to the pool; `services/session_pool.py:374` |
| `MCSessionPoolPoll` | `PollingStaysOpen` | a session is lent to several users and closed under a long poll; `services/openai_backend_api.py:2320` |
| `MCImageRequestLimit` | `RateLimitTriesAnother` | an account that is limited ends the image, though others are left; `services/openai_backend_api.py:53` |
| `MCImageRequestReply` | `ReplyIsNoViolation` | a reply in words is reported as a violation of policy; `services/protocol/conversation.py:110` |

In the same way, an ingredient of the composed runs, most often selected by a constant, breaks a
property. It is off in the run, or the property names it:

| Constant | Breaks | Because |
|---|---|---|
| `Worker = {w1, w2}` | `KeysAreAsTold` | each process trusts its memory and saves the whole list (`services/config.py:909`, `main.py:74`) |
| `Runner = {w1, w2}`, `ReadFails = TRUE` | `VerifiedStays` | two rotations count each other's objects; a new object that cannot be read back yet counts as kept |
| `SlowReader = TRUE` | `KeptIsFound` | a reader puts into the cache what a writer has replaced |
| `Overlap = TRUE` | `FinishedAddsUp` | a second import takes over the record of the first (`services/cpa_service.py:116`, `services/sub2api_service.py:137`) |
| `Loose = TRUE` | `SameAsWhole`, `BlocksWellFormed` | text after a tool call, and a call left open, are sent as text by one path only |
| `Rewrites = TRUE` | all three of text requests | what the upstream takes back has been sent, and a text that does not continue it is sent again |
| `" "` and `"<"` in `Tokens` | `SameAsWhole` | a client that streams gets spaces that the whole text is stripped of |
| words of `History` in `Tokens` | `DeltasAddUp` | an answer that repeats the history is taken for an echo of it (`strip_history`) |
| `strategy = "size"` | `CountedOnce` without its condition | the counters read a rolled file from its start again |
| `withId = FALSE` | `CountedOnce` without its condition | a deletion makes the lines it keeps longer, so the file need not get shorter than the offset (`services/usage_agg.py:133-136`), and lines that were counted lie behind it |
| `part` in `Say` | `SameAsWhole` without `cut` | the beginning of a tag is sent before the tag is known to be one, and stripped of the whole text |
| an end without a word | `SlotsFollowAttempts` without `MarkedTwice` | the account is marked twice for one attempt |
| a conversation looked up by its prompt | `TimeoutKeepsConversation` without `DeliveredFrom` | the image is told a sibling's conversation, which is removed once its image is delivered (`services/protocol/conversation.py:1644`) |
| `OauthLost` with a token consumed | no resending at all | the token stays stored and is sent again at every refresh |
| `Outage` | `NoLostTrip` without `unsure` | the write of OPEN fails unseen while the counter stays at the threshold, until the next failure trips again |

Other differences met while reading, that no property states: `PROJECT.json` has those
that are hazards; besides, `account_service.py:3353` speaks of a status "replaced" that is
normalised to "normal", `fetch_remote_info` overwrites a status set meanwhile, a stream that ends
without `[DONE]` is reported as "stop", `LoggedCall.stream` logs a client's leaving as success, an image's
index entry goes although a remote deletion failed, `auto_healer.py:116` awaits a dict, a failure
that a shared store cannot count is taken for the first in each of its processes
(`services/circuit_breaker.py:152`), and the log is cut into lines by `splitlines`, which also cuts at U+2028, a character that
`ensure_ascii=False` leaves as it is: such an entry cannot be read, before a rewrite or after.

So the passing runs leave out, and say so, exactly the ingredient that breaks a
property elsewhere: `pool` has no progress-only streams, open breakers or deletion, `tasks` no
failing submission, `tasks_live` no restart. Where a property can name the ingredient
instead, it does: `NoneForgotten` excuses sessions the cleaner swept (`swept`), `NoStrandedSlot` the
removal of rate limited accounts, `NoLostTrip` a store that did not answer (`unsure`),
`OnlyUnansweredResent` a lost answer, `SlotsFollowAttempts` a second mark (`MarkedTwice`),
`TimeoutKeepsConversation` an image delivered from a sibling's conversation (`DeliveredFrom`),
`SameAsWhole` a tag in parts (`cut`), `CountedOnce` files rolled over by size and entries
without identifiers (`withId`). These happen in the runs; the properties say that nothing else goes wrong.

## Fairness

- Threads run: weak fairness of each thread's next step (`Step(r)`, `Step(p)`, a
  consumer's loop, the steps of a refresh). A thread waiting on a condition or a
  semaphore has no enabled step, so that weak fairness promises it nothing more than
  the code does.
- In `AccountLifecycle`, entering the refresh lock is strongly fair: it is free again and again,
  and Python's locks do not starve a waiter for ever.
- The upstream answers: every call of the client has a timeout.
- Breakers cool: `recovery_timeout` is a clock. `OpenIsProbed` is about a store that answers from
  some time on (`<>[]reachable`); that it does is not assumed of any run.
- In `ImageTasks`, jobs start: `TaskQueue`'s `EventuallySettled` shows that the queue
  settles what it is given. There is a bounded number of jobs, so weak fairness is enough.
- `EventuallySettled` assumes that a consumer keeps on (`<>[]Consuming`): a stopped queue settles nothing.
- No fairness for clients, administrators, restarts, disconnects or the cleaner.

## Proofs

Each proof module states an inductive invariant, shows that `Init` implies it and that every
action keeps it (one lemma per action or family), and concludes with temporal logic.
The theorems hold for all values of the constants that satisfy the modules' named
assumptions.

- `SharedStateProofs`: of the breaker `TypeCorrect`, `TripNotLost`. A worker between counting and
  tripping is what the invariant has to remember: with the count at the threshold, some
  worker is at "trip", or one will reset, or the breaker tripped, or the last of these
  operations had no answer (`unsure`). An answered one makes up for it: a count trips
  again, since a trip leaves the counter where it is. Of the limiter
  `LimitsAreKept`: in a slot that is `phase` ticks old, what passed in the last `phase` ticks is
  what the counter says, unless Redis counted without telling (`SlotsCounted`), and a deque holds exactly
  what its process let pass of its own accord (`OwnCounted`). Sums over a window of any
  length are reasoned about by their least counterexample.
- `AccountPoolProofs`: `TypeCorrect`, `SlotsBounded`, `SlotsNotStranded`, `SlotsAreCounted`.
  `TypeOK` needs that a request with a refused token still has a retry left
  (`RefusalsBounded`); the bound on slots needs that a token the upstream has not issued
  has no slots (`FreshIsIdle`), because rotation adds the old count to the new one's.
  `SlotsAreCounted` is about the chain of aliases: every token's chain has one end (`Resolved`),
  `Resolve` finds it, a rotation moves it on, and a request finds the same account by the
  token it took its slot with and by the one it has now (`SameAccount`). Its hypothesis
  (`CountSetting`): nothing is deleted and imported again, and no stream ends after mere
  progress. Both break it; the second is what the run `pool_double` shows.
- `AccountLifecycleProofs`: `TypeCorrect`, `AnsweredTokensUsedOnce`, `GoneForGood`, `ProgressAddsUp`. A stored refresh token
  whose use the upstream has answered is in the hand of the thread that has the lock and is about to
  replace it (`SpentIsInHand`); stored without being in hand is at most one whose answer was lost. And
  a thread between sending and storing has the lock
  (`LockIsHeld`). The steps of logins, checks, warm-up and the administrator are shown to
  leave no account with a token that was used and answered (`Harmless`). `ProgressAddsUp` counts the threads that a
  request started and that have not reported (`JobInvariant`): there are as many as accounts
  neither skipped nor reported, because a request starts one thread for each.
- `TaskQueueProofs`: `TypeCorrect`, `PermitsAccounted`, `OutcomesStand`, `Refinement`, `NoTaskIsLost`,
  `StartedInOrder`. `QueueInvariant` says that only one consumer dispatches, that what it has
  in hand is still unsettled, and that permits, workers and hands add up; with it every step
  is one of `JobQueue` or a stutter. `PlacesInvariant` adds that deques repeat nothing, so that
  taking from one of them and putting back at its head can neither lose a task nor
  double it; `OrderInvariant` that a deque is in the order of arrival and that what the
  consumer has in hand comes before all that is left.
- `ImageTasksProofs`: `TypeCorrect`, `OneThreadPerTask`, `SuccessStands`, `ResumableStands`, `NoTaskStuck`,
  `PromptsPaidOnce`. `WorkerInvariant` ties a thread to its task: while it is at work its
  task cannot be resumed, cleaned away or taken for new. `NoTaskStuck` assumes that
  the saves of submissions succeed (`MCImageTasksStuck` shows why), `PromptsPaidOnce` speaks of the
  time up to the first restart (`MCImageTasksTwice`).
- `SessionPoolProofs`: `AccountsDoNotMix`, `NoSessionForgotten`. Of every open session the
  invariant says who answers for it (`Answered`): the pool while it has the marks of the pool,
  or the user who has just made it or took it out.
- `RequestProofs`: of the cache `CallsShared` and `WholeAnswers`. The map of calls names the
  request that computes (`CallersAreNamed`), nothing is cached and in flight at once, and what is
  stored was whole when it was put there. Of a request for images `TypeCorrect`, `SlotsHeld`,
  and, if images are made side by side (`Parallel`), `DrawnIsDelivered`, and, unless
  conversations are always removed (`RemoveAlways`), `TimeoutCanComeBack`. `SlotsHeld`: an account never has more
  slots taken than images that hold one, and as many until an image is marked twice; each
  mark takes one slot if there is one, each attempt one more. `TimeoutCanComeBack`: a conversation is removed
  only for the image that was delivered from it (`KeptOrDelivered`), which need not be the image that opened it.
- `ServiceProofs`: `RevokedStaysRevoked` for one process, `VerifiedIsKept` for one process and a
  readable bucket, `RecordsAddUp` for imports that do not overlap, `SavedIsFound` for modes of one kind
  and no slow reader. The hypotheses are the ingredients of the table above, and each is
  needed. `EntriesStayUntilRemoved` and `EntriesCountedOnce` are about the log: an entry is one line of
  one file (`OncePlaced`), what the holder of the lock is about to write is what it read, less what it
  drops and what was appended since (`EditFits`), and since a rewrite of lines that
  have identifiers moves lines only up, what is behind the watcher's offset has not been counted (`CountsFit`).

  `TextDeltasAddUp`, `TextBlocksWellFormed` and `TextSameAsWhole` are about text requests, for answers
  of any length over any tokens. Of any upstream, `TextEventsFit` says that the events are what
  `streamed_text` says and no less than comes before a tool call (`TextSound`). If the upstream
  takes nothing back, every text is one that the next continues: `AnswerFits` says
  that `raw` is the answer, `text` what can be shown of it and the deltas that text. For
  this the proof compares the places that cleaning selects of an answer and of its
  beginning: those of the beginning are the first of the others (`Rank` numbers them), but for a space
  before an annotation, which a later full stop takes away; so answers have no spaces or no
  full stops (`NoHugs`; with both, `text_repeats` is violated).
  Blocks follow each other step by step (`Follows`), and a sequence added to the events keeps
  that if its first event follows the last of them (`Chain`). `WordsSent` says where a stream stops
  passing text on: at the first call, to the token, if there are no spaces to trim before it, or just behind the beginning of its tag
  if that came alone (`cut`; `TagIsLast` says that the tag is then the last that has come).
  The hypotheses are the rows of the table above for these properties.

Left to TLC: liveness, because the prover has no fairness: `OpenIsProbed`, `EventuallyQuiet`,
`EventuallySettled`, `EventuallyTerminal`, `DeadIsMarked`, `WorkingIsRecovered`, `ReloginReports`. Every
safety property of a passing run is proved.

## Not modelled, and why

- In the pool: `_generate_fomimage_image` books credits through `mark_image_credits_result`, a path
  parallel to the one modelled; text tokens, which take no slots; health scores.
- In the lifecycle: the revival workflow, registration of replacements, persistence of accounts.
- In image requests: the codex and fomimage back ends, uploads of reference images.
- In the queue: `enqueue` of an id in use (callers draw fresh ones); `cleanup` is modelled
  although nothing calls it.
- In the image tasks: `cancel` of a queued job, which no production code calls.
- In the session pool: with the default limits growth keeps eviction out of
  reach; the model starts from small limits to reach it.
- In the keys: quotas, whose checks have no callers. In the log: `archive`, which has none.
- In the circuit breakers: those per provider, which no code trips.
- Whole components: see "components" in `PROJECT.json`, each with its reason. They are for the most
  part request handlers that translate a body and call a component above, calls of third-party
  services, and pages of statistics.

## Plan

Done: the modules above, and the proofs above.

Next, in this order:

1. `ProxyPool`: the health loop against selection; an UNHEALTHY proxy that never returns.
2. Clearance of a proxy (`services/proxy_service.py`): one solver per key, waiters, expiry.
3. Sessions of logins (`services/otp_login_service.py`, `services/oauth_login_service.py`).
4. Configuration and its watcher; event bus and alerts.
5. Breakers inside the pool: compose `CircuitBreaker` and `AccountPool`.

No safety property of a passing run is left to be proved. A next theorem would be about
text requests whose answers have spaces: what a stream passes on differs from the whole text by the
spaces around it, and no property says that yet.
