# Verification of yandex-alice-openai

TLA+ models of the deferred-reply protocol, of the calls to the language model,
of what a conversation leaves on record, of the deployment around it and of the
text functions, checked with TLC on small instances, and proofs about them for every
value of the constants, checked with TLAPS. Paths such as `conversation.py:60`
are relative to the file of that name under `src/yandex_alice_openai/`.

## The system

A webhook process (FastAPI, many calls at once on one event loop) and any number
of worker processes share a Redis. An utterance that is not a "continue" is put
to OpenAI with about two seconds to answer. If that fails, the call writes a
PROCESSING record under the conversation's pending key, queues a job, and says
"I am preparing an answer, say: continue". A worker takes the job from a Redis
stream, asks OpenAI with twenty seconds and growing allowances, and turns the
record READY or FAILED. "Continue" tells the READY text, then its tail if the
answer was long, and clears the record; an answer may also end with an offer of
more that "continue" accepts, which queues a new job.

| component | state | operations | hard behaviour |
|---|---|---|---|
| conversation service (`services/conversation.py`) | none of its own | handle, deferral, process and fail a job | many Redis commands per call, any of which may fail; calls overlap |
| pending reply store (`infra/redis/stores.py`) | one record per conversation, with a TTL | start_pending, mark_ready, mark_failed, mark_delivered, clear_pending | GET and SET are two commands; an absent key may be written |
| idempotency store (same file) | a response per request key, with a TTL | look up, store | stored only when the call ends |
| history store (same file) | the last turns of a conversation, with a TTL | read, append | appended by calls and workers with separate commands |
| analytics (`infra/db/analytics.py`) | tables of turns and of job results | persist turns, persist a job's result | errors are swallowed, and with one write those behind it |
| job queue (`infra/queue/redis_streams.py`) | stream, group cursor, entries pending | add, read, reclaim, acknowledge | at-least-once delivery, reclaim after exactly the job timeout |
| deferred worker (`workers/deferred_worker.py`) | the job in hand | the loop | crash or error at each step |
| OpenAI adapter (`infra/llm/openai_adapter.py`) | circuit breaker, one per process | generate_reply | shared by concurrent calls; retries inside a deadline |
| webhook route (`api/routes/alice.py`) | none | secret, rate limit, apology | an exception anywhere becomes an apology |
| intent, sanitising (`services/prompting.py`) | none | is_continue_intent | "yes" continues only when a record is there |
| rate limiter (`infra/security/rate_limit.py`) | a counter per bucket and window | check | burst around the window's end |
| composition root (`main.py`, `application/bootstrap.py`) | none | start and stop of a process | the consumer group is created at start only |
| text of an answer (`openai_adapter.py:215-332`, `services/renderer.py`) | none | markers, unfinished end, split, clip | positions at every edge |
| schemas, identity, configuration, logging, health | none | | |

What makes them correct: a promised answer is queued; a queued job ends, and is
acknowledged only with its outcome known; each part of an answer is told once,
the first part first; an answer that is ready is not dropped; duplicates are
answered alike; a call ends by its deadline; the breaker refuses only with
cause and not for ever; history and job results agree with what was told; no
job is passed over, and no user locked out; an answer loses nothing when it is cut.

## The modules

| module | what it is |
|---|---|
| `PendingReply` | the pending record, the replies and responses, and the pure decisions on them (`HandleContinue` is `_handle_continue`, `HandleQuestion` is `_handle_active_pending`) |
| `Conversation` | EXTENDS it: one conversation, its webhook calls, the workers, Redis |
| `ReplyLifecycle` | the abstract specification: what a pending reply promises, without store, queue or worker |
| `ConversationInvariants` | what has been said, cached, promised and told, as inductive invariants of `Conversation` |
| `ConversationProofs`, `ConversationSpeechProofs`, `ConversationTurnProofs`, `ConversationOutcomeProofs` | theorems about `Conversation`: stream and record; parts of answers and duplicates; calls in turn; what the user is owed, and the refinement |
| `OpenAIAdapter` | the breaker, the deadline budget, the retries and the escalation, in ticks of time |
| `OpenAIAdapterProofs` | theorems about `OpenAIAdapter` |
| `ConversationRecords` | EXTENDS `Conversation`: history, its mirror in PostgreSQL, the job results, and the writes each process owes them |
| `ConversationRecordsInvariants`, `ConversationRecordsProofs` | its inductive invariants and the theorems about it, on top of those about `Conversation` |
| `RateLimiter`, `JobQueue` | one bucket of the limiter in seconds; the consumer group: when it exists, what it is given |
| `Service` | composes the two: API process, workers, a Redis that may come back empty |
| `ServiceProofs` | theorems about `Service` |
| `ReplyText` | the repair of an unfinished end, the split and the clip over any text |
| `FollowupMarker` | the extraction of follow-up markers |
| `Intent` | `is_continue_intent` and what `PendingReply` makes of it |
| `ReplyTextProofs` | theorems about these three |
| `MCConversation`, `MCConversationRecords`, `MCOpenAIAdapter`, `MCVoice` | instances for TLC; `MCVoice` grows one input at a time for the last three |

**Conversation.** A step is one Redis command, with the code up to the next
await. `slot` is the value of `<prefix>:pending:<conversation>`, `idem` the
idempotency keys, `log`, `cursor` and `pel` the stream, the group's last
delivered entry and its pending entries list. `pc` says at which await each
call and worker is. The store calls that read before they write are a step that
reads, checks the owner and computes the payload (`ReadThenWrite`), and
`Commit`, the SET or DEL. The job_id is named by the call that creates it: a
call creates at most one. Text is abstracted to which part of an answer it is,
or the empty string, since the code branches on emptiness. `KeyOf` gives the
request key of each delivery, so a repeat is a delivery that shares a key.
`seen` and `resp` keep what the call has read and decided; `settled` is a
history variable. "Duplicate" deliveries repeat the same utterance.

What may go wrong is a constant, `Hazards`, so that each run says what it needs:
`overlap` (calls of the conversation run concurrently), `early_reclaim` (an
entry is reclaimed from a live worker: the idle time is the job timeout,
`bootstrap.py:61`, so a worker that is at its deadline still has commands to
send), `failure` (a process dies or a call raises between two steps),
`lost_reply` (a command takes effect and raises). `Expire` is the TTL of the
pending key.

**OpenAIAdapter.** `Callers` calls of one process share the breaker. The webhook
process is many callers with `Steps = 1`, the worker one caller with four steps
(256 to 2048 tokens). All clocks count down; `Tick` is enabled when nothing is
due, so code between awaits takes no time. A client timeout may come at any
moment of a request, and at the deadline at the latest. `tenacity` swallows the
exception inside `with attempt`, so the `except TimeoutError` at lines 146-150
is never entered; the check that ends a call is the one at line 131, before the
next attempt. With the timeout of each attempt equal to what is left of the
deadline, an attempt that runs into it leaves nothing for a second one; only a
client that raises TimeoutError before that is retried. The client is external,
and the model lets it do either.

**ConversationRecords.** Steps of `Conversation` stay as they are; some of them
leave the process with writes to do (`OwedByCall`, `OwedByWorker`), which come
before its next step, one command or commit each, interleaved with everybody
else's. RPUSH, LTRIM and EXPIRE are one transaction (`stores.py:95`). A failed
write is swallowed with the rest of its try block (`AfterFailure`): the two
appends are one block, both analytics writes another. A job's row is unique; a
second one is an error, swallowed. `lost` names the exchanges the history need not
have: an append of theirs failed, their process died, or the session expired; a
failure of the analytics excuses nothing. The two
TTLs (a day, half an hour) run out when nothing is in progress (`Quiet`), since
calls and jobs end within seconds; the runs of `Conversation` do not assume
this of the pending key.

**Service.** The counter of one bucket, with the calls let through in each of
the last spans of seconds as history (`recent`), and the entries of the stream, by number.
Both processes call `ensure_group` when they start (`bootstrap.py:43-45`) and
never again. `RedisRestarts` is a Redis that comes back empty; `docker-compose.yml`
gives it no volume. Then XREADGROUP raises NOGROUP, which
`worker_loop` does not catch: the worker exits, docker starts it, and the group
is there again, created at the end of the stream. What was queued in between is
in `lost`. A call is counted when it is let through and ends with a job or
without; what it says is in `Conversation`.

**ReplyText, FollowupMarker, Intent.** Functions of one input, which a variable
grows. A text is the sequence of the classes of its characters, an output a
sequence of marker brackets and words, an utterance a sequence of kinds of
words; positions are counted from 1, and 0 is the -1 of `rfind`. The two marker
patterns are one scan from left to right, whose state (`scan`) a token advances. Every entry of
`CONTINUE_MARKERS` holds a word of `_CONTINUE_TOKENS` and only allowed ones, so
the list adds nothing to the rules below it. A marker that opens inside another
is part of its request, as the pattern matches from the first opening to the
first closing. Whether the offer is made is decided later: a long answer drops it
for its tail (`openai_adapter.py:237-246`, the modes of `Replies`).

**ReplyLifecycle.** none, preparing, ready, told, failed: one reply at a time,
opened by a request still being served, settled once, told part by part,
forgotten only when told or failed, or taken back when it could not be queued.
`ImplementsLifecycle` maps the pending record to it (`Phase`).

## The runs

| run | instance | what it shows |
|---|---|---|
| `Concurrent` | 2 calls, 2 workers, all hazards, 2 faults, 1 expiry | `StreamInv` (the inductive invariant of the proofs), `NoAckWhileProcessing`, `OrphanOnlyByFailure` |
| `Crossing` | 3 overlapping calls, 1 worker, all hazards, 1 fault | `TailFollowsHead` |
| `Serial` | 4 calls in turn, 2 workers, 1 failure | `ToldOnce`, `PromiseIsQueued`, `AckedJobIsSettled`, `ReadyLeavesTold`, refinement of `ReplyLifecycle` |
| `Retry` | a request delivered twice and another, 1 worker, 1 failure, fair | `DuplicatesAgree`, and the liveness `QueuedJobEnds`, `EntryIsAcked` |
| `Webhook` | 3 callers, 2 attempts, threshold 3, deadline 4, reset 5 | `DeadlineKept`, `RefusedForCause`, `OpenIsBounded`, `BreakerInv` (inductive) |
| `WorkerCalls` | 1 caller, 4 steps, deadline 6 = reset 6 | `DeadlineKept`, `EscalationNotRefused` |
| `Records` | 3 calls in turn, 2 workers, 1 failure, 2 expiries, a history of 4 turns | `ExchangesStayTogether`, `ToldIsRemembered`, `FailedRowNeverTold`, `AnsweredRowHasTurns`, `SettledJobAddsNothing`, `RecordsInv` (inductive) |
| `Service` | 2 workers, limit 2 in 3 s, 3 jobs, 1 stop, 1 loss of Redis, fair | `BurstBounded`, `RefusalIsEarned`, `SkippedOnlyByLoss`, `QueueInv` (inductive), the liveness `QueuedIsRead`, `LossHeals` |
| `Voice` | texts of 8 characters, outputs of 7 tokens, utterances of 6 words | `HeadFits`, `NothingSkipped`, `OneWordDropped`, `ToldFits`; `MarkersUntold`, `LastRequestOffered`; `QuestionsAreAsked` |
| `DroppedQuestion` | 2 overlapping calls, no faults | violates `PromiseIsQueued` |
| `LostJob` | 2 overlapping calls, no faults | violates `AckedJobIsSettled` |
| `BlankReply` | 2 calls in turn, no hazard | violates `ContinueTellsReady` |

Bounds. Two calls and two workers are what a race over the key needs when the
key is absent at first: one that reads, one that writes between, and `Concurrent`
lets it be absent again by a failure or an expiry. The races of `clear_pending`
against the next job, and of a job queued without a record, take a third call
(one clears and creates what the other takes for the old one); only `Crossing`
has three that overlap, for the tail. Three calls are needed for a tail (ask,
continue, continue), four for an offer that is accepted and then continued.
Two faults let a recovery fail in its turn. The third caller of `Webhook` is
the one in flight when the other two open the breaker with an earlier failure;
its deadline is shorter than the reset time, as in the settings (2.2 s, 20 s),
and the worker's is equal to it (20 s, 20 s).
`Retry` uses "yes" where the other runs use "continue": it is the utterance
whose meaning depends on whether a record is there, so that a second attempt may
be taken for something else than the first.
A history of 4 turns (24 in the settings) holds two exchanges, so that the third
is the one that trims. The limits of `Voice` are scaled down in the order they
have in the code (headroom below limit, dots and hint within headroom, limit not
above the field) so that texts of eight characters take every branch; the
proofs are for all limits. One loss of Redis and one stop meet every stage of a
job's way; three jobs are one before, one during and one after.
`CHECK_DEADLOCK FALSE` in the runs of `Conversation`: the user may stop talking;
in `Voice` the input has reached its length.

`ExchangesStayTogether` is claimed for any number of expiries as long as nothing
fails, and for one failure without an expiry (`Calm`). `FailedRowNeverTold` is
checked and proved with one failure. Beyond that, `mark_failed` of a job whose record
has been cleared or has expired, which the code accepts
(`stores.py:179`), comes late and turns the record of the next job to FAILED,
and a new question is let in while that job's worker still appends; a redelivered
job whose first read fails puts "error" on record for an answer that was told,
if the write of its "ok" had failed as well. Neither contradicts a document.
`BurstBounded` is tight: one call of the first window may fall in the first
second and the others in the last. A loss of Redis adds the limit once more.

Three properties hold for calls that come in turn and not for calls that
overlap; the passing run `Serial` and a violation run together say so.
Alice sends the next utterance after the last answer, so turns are the rule,
but a call it has given up on after three seconds goes on running.

The findings:
- `DroppedQuestion`: two questions whose fast paths fail together; the one that
  loses the SET NX is promised an answer and queued nowhere.
- `LostJob`: a fast answer leaves a tail or an offer. Its `mark_ready` finds the
  key absent; before it writes, another call's fast path fails, and that call
  creates its PROCESSING record and queues its job. The write replaces the
  record, and the worker skips the job, whose record is another's, and
  acknowledges it. With a third call `clear_pending` does the same: two
  calls read a FAILED or DELIVERED record, the first clears it and starts its
  job, and the DEL of the second takes that job's record away.
- `BlankReply`: a reply that is only a marker or markup cleans up to the empty
  string. It is stored READY, `continue` answers "not yet" until the TTL, and a
  new question is blocked by "the previous answer is ready".

Fairness. In `Retry` the event loop runs every call it has received and
each worker polls for ever (`worker_loop` is an endless loop), so weak fairness
of each call's and each worker's steps. Arrivals, failures and expiries are not
fair. The language-model call ends because it has a deadline. In `Service`
docker restarts a worker that exits (`restart: unless-stopped` in
docker-compose.yml), a worker polls, and its poll raises when there is no group:
weak fairness of `StartWorker`, `Read` and `NoGroup` for each worker. Calls,
stops, losses and the clock are not fair, nor is the start of the API process.

## The proofs

Every theorem is about all sets of calls and workers, every `KeyOf` and all
bounds; the hypotheses below are the only others, and TLC finds a counterexample
without each of them. What a theorem needs beyond its property is an inductive
invariant, which TLC has checked on the instances of the runs before it was proved.

**The stream** (`ConversationProofs`; all hazards). `TypeOK`,
`NoAckWhileProcessing` and `OrphanOnlyByFailure` are invariants. Neither of the
last two is inductive. A worker acknowledges at "ack", so one needs
`ReadyToAck`: the record of a worker at "ack" is not PROCESSING. Someone might
write PROCESSING again later; only SET NX does (`OnlyStartWritesProcessing`),
for a job that has not been streamed, since a job enters the stream when its
call is at its end (`StreamedJobIsStarted`), and a call whose XADD raised,
streamed all the same perhaps, only takes its record back (`FailedCallEnds`).
`HeldEntryIsGiven` ties a worker to an entry of the stream. `StreamInv` is the
conjunction. A step that touches neither the stream nor the record is one lemma
(`HandlerMove`, `WorkerMove`), and the steps that do have one each.

**Parts of answers** (`ConversationSpeechProofs`; all hazards). `TailCorrect`
proves `TailFollowsHead` from `SpeechInv`: a tail on the record, in a call's hand
or in a command about to be sent has a call that told its head, or failed
telling it, and a head in anyone's hand is followed by its own tail. It follows
the tail through the stale copies that `early_reclaim` and `overlap` leave
about. `DuplicatesCorrect` proves `DuplicatesAgree`, from `CacheInv`, when calls
do not overlap: of two deliveries at once both are executed.

**In turn** (`ConversationTurnProofs`, `ConversationOutcomeProofs`). `InTurn` is
calls one after the other, no entry reclaimed early, no reply lost, one failure at
most and no expiry of the key; workers still run beside the calls and each
other. `TurnInv` says what the record is while each call and each worker is at
each of its steps: whose job it is, who alone may write it, and what has been
said of it. Its parts say how far they hold after a failure or an expiry, so
that its lemmas serve the records as well, whose key may expire. From it
come `PromiseIsQueued`, `AckedJobIsSettled`, `ReadyLeavesTold` (an action
property: a READY part, an offer's text as well, leaves the key by the
`mark_delivered` of a call about to answer with it, and in no other way) and, with `ToldInv`, `ToldOnce`. `LifecycleCorrect` proves that
`Conversation` implements `ReplyLifecycle`: `Init` maps to its `Init`, and each
step of a call, a worker or Redis to a step of it or to a stutter. With a second
fault, an expiry, or any other hazard, TLC finds `PromiseIsQueued`,
`AckedJobIsSettled`, `ReadyLeavesTold` and the refinement violated: a redelivered
job can then fail over its own answer, and a late worker can write over the
next record.

**The records** (`ConversationRecordsProofs`). `RecordsCorrect` proves
`RecordsInv`: at which `pc` a process owes which writes (`OwedInOrder`), so an
"ok" is owed only behind the turns. `RecordsKeepStream` shows that the writes in
between do not disturb the invariants of `Conversation`, whose lemmas it cites,
since every step of `RecordsSpec` is a step of `Conversation` or leaves its
state alone. Then:
- `RememberedCorrect` (all hazards): `ToldIsRemembered`, from `MemoryInv`. An
  answer is not on the record, in a response or in a command before its turn
  has been appended, is about to be, or is excused.
- `SettledAddsNothing` (no `early_reclaim`): `SettledJobAddsNothing`, from
  `SettledInv`. The worker of a job is the only one that has it.
- `FailedRowCorrect` (no `early_reclaim`, no `lost_reply`, one fault at most):
  `FailedRowNeverTold`, from `FailureInv`. Each of the three is needed.
- `ExchangesCorrect` (calls in turn, no `early_reclaim`, no `lost_reply`; for
  any bounds on failures and expiries, but the property speaks of a behaviour
  only while it is `Calm`: nothing failed, however often the keys expired, or
  one thing failed and none expired): `ExchangesStayTogether`, from `TogetherInv`. A call appends only while there
  is no record, a worker only while its job is PROCESSING (`TurnInv`), so one
  process at a time does, and who has an answer to append has just appended its
  question.

**The adapter** (`OpenAIAdapterProofs`). `DeadlineKept`, `RefusedForCause` and
`OpenIsBounded` for any number of callers, steps, attempts and any clocks, from
`BreakerInv`: every await ends within its call's deadline, what is awaited was
let through no earlier than the call began, so a failure that (re)opens the
breaker comes at most a deadline and a pause after the last admission, and the
counted failures are in a row. `EscalationCorrect` is about a single caller, as a
worker is: beside another call a later step is refused.

**The deployment** (`ServiceProofs`). `QueueInv` and `SkippedOnlyByLoss` for any
number of workers, jobs, stops and losses. What makes it inductive is
`GroupIsThere`: an API process that serves calls has created the group, so an
entry added without one was added after a loss; and while there is no group,
every entry not given is lost already, so that the new group may begin at the
end. `BurstBounded` and `RefusalIsEarned` for every limit and window, from
`BucketInv`, which bounds `recent` at every span, not at `Window` alone: the window
of the bucket has let min(count, limit) calls through since it began, and its
first call is in no span that does not reach back to it. A second shifts the
spans by one, a call adds one to each.

**The text functions** (`ReplyTextProofs`), for inputs of any length.
`HeadFits`, `NothingSkipped` and `ToldFits` for all limits that satisfy
`TextAssumption`, `OneWordDropped` for a `MinStable` of at least 2 (40 in the
code; with 1 a text of three characters may lose more than half). Greatest and
least elements of bounded sets are shown to exist from the well-foundedness of
the naturals; the rest says what `rfind`, `rstrip` and `lstrip` return, that the
prepared text ends in no space, and goes through the three cuts of the split and
of the clip. `MarkersUntold` and `LastRequestOffered` from `ScanInv`: the scan is
inside a marker exactly if the output is, by the definition of `Inside` over
positions, and holds what came since the one that opened last. `QuestionsAreAsked`
for every utterance.

The assumptions are the named ASSUMEs of the modules: the identities of calls,
workers and the missing job are distinct, the bounds are natural numbers, the
retry budget is shorter than the deadline, dots and hint fit in the headroom.

Model-checked only: the liveness properties `QueuedJobEnds`, `EntryIsAcked`,
`QueuedIsRead` and `LossHeals`, since liveness under fairness is out of the
prover's reach. `ToldOnce` is proved in turn; TLC finds it violated only by
calls that overlap and entries reclaimed early. The properties of the three
violation runs hold under the hypotheses above or, `ContinueTellsReady`, not at all.

## Not modelled, and why

- The route's own lookup of the cached response, just before the service's:
  it only decides whether the rate limit is asked. The secret ends a call before
  it touches anything.
- The TTL of the idempotency key: a repeat after it is a new request.
- The prompt: it takes the last eight turns of the history
  (`openai_adapter.py:167`), instructions and the clock; wording.
- The clean-up of markup, links and punctuation by regular expressions, in the
  adapter and in the renderer, `sanitize_user_text`, buttons, notices: wording.
  A text of `ReplyText` is what is left after it.
- A Redis that comes back from an old snapshot instead of empty, with acknowledged
  entries and told replies in it again: `Conversation` has reprocessed entries,
  but nothing that goes back in time.
- Schemas and identity: their result is the constant `KeyOf`. Configuration:
  its values are constants. Health, logging, request ids, the engine and tables
  of the database: no state that a property speaks of.
- Latency of the event loop: a timer fires when it is due.

## Plan

Done: all modules above, and a theorem for each safety property that a passing
run checks. Left, in this order:

1. `ToldOnce` for more failures and expiries than one, from a `ToldInv` that does
   not rest on `TurnInv`.
2. Composition of `Conversation` with the outcomes of `OpenAIAdapter`, as a
   refinement of its generate step.
3. A TTL of the idempotency key, with the limiter's bypass at its end.
