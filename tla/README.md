# MultiAgent DataSpider: a TLA+ verification project

DataSpider crawls web targets with a pipeline of agents that hand messages on
through Redis Streams. This directory holds TLA+ modules translated from that
code, TLC configurations that check them on small instances, and TLAPS proofs that
the pipeline, stage by stage and end to end, the missions, the election and the scoring are
safe in every instance.

    tlc -config MCCrawler.cfg MCCrawler.tla      # one run; the table below lists all
    tlapm CrawlerProofs.tla                      # the proofs of a module

## The system

| Component | State | Operations | Hard behaviour |
|---|---|---|---|
| Redis streams (`shared/redis_client.py`) | four work streams with one consumer group each, `dead_letters`, pending entries and their idle time | XADD, XREADGROUP, XAUTOCLAIM, XACK | redelivery to another worker after 60 s, whoever still works on the entry |
| Worker loop (`run()` of four `worker.py`) | the batch in hand, the entry being processed | claim, read, process | crashes, cancellation, errors between any two awaits |
| Crawler (`crawler/`) | the envelope's retry count, the attempt loop | fetch, publish, requeue, dead-letter | at-least-once with two nested retry loops |
| Circuit breaker (`shared/redis_client.py`) | a hash per domain with a TTL | open, check, expire | two commands to open, shared by all crawlers |
| Processor (`processor/`) | the mission's dedup set with a TTL, `raw_events` | check, persist, mark, forward | check-then-act, crash between mark and forward |
| Validator (`validator/`) | none | accept, reject | duplicates |
| Store (`store/`) | `scraped_data`, counters `job_done` and `job_failed` | two transactions, acknowledge, progress event | ambiguous commits, redelivery after a commit |
| Extraction and confidence (`_extract_fields`, `_compute_confidence`) | none: two loops over the fields of a page | resolve a path, weigh a field, judge | subscripts, wrong types, a score that is not monotone |
| Missions API (`api_gateway/routers/missions.py`) | mission status and totals | create (enqueues the targets), cancel | races with the completion loop |
| Coordinator (`coordinator/`) | `coordinator:leader` lock, `_is_leader` | election, renewal, completion check (and a scheduler that nothing feeds) | two leaders, stale checks |
| Agent monitoring | `agent:*` hashes with a TTL | heartbeat, republish | none that a stage depends on |
| Console gateway and client (`api_gateway/main.py`, `frontend/src/hooks`, `store`, `components/mission`) | connected sockets, client stores, timers | snapshot, broadcast, reconnect, create form, poll of the list | events overtaking the snapshot, late answers to requests, timers after unmount |
| Data API, pages, schema, deployment | | | read-only, rendering or configuration |

The gateway adds job envelopes to `crawl_jobs`; crawlers turn
them into `raw_data`, processors into `clean_data`, validators into
`validated_data`, and store workers into rows. Workers of a stage share its
consumer group. The coordinator reads the mission counters the store writes.

What makes each part correct: **streams and workers** lose no message and work on
every one; **crawler**: every job is published or dead-lettered, and is
dead-lettered as failed only after all its retries; **circuit**: it closes by
itself; **processor**: what is dropped is a duplicate of something that was
forwarded; **extraction and confidence**: documented paths find what JSONPath says, and
a record that holds data is accepted; **store**: a job is counted once; **missions**: a mission whose jobs
are finished is completed, a cancelled one stays cancelled; **coordinator**: one
leader at a time as long as its rounds are on time, and soon another one after a crash; **console**:
the list of missions converges to the database, or there is a known reason.

## Modules

| Module | Models |
|---|---|
| `RedisStreams` | a stream with its consumer group, as operators |
| `StreamWorker` | the loop the four workers share, faults and idle times included |
| `Crawler` | `crawler/worker.py`, the strategies' attempt loops, the circuit breaker |
| `Processor`, `Validator`, `Store` | the handlers of the other stages |
| `Pipeline` | the four stages composed, each an INSTANCE of its module with its own loop variables; they share the streams, `dead` and `faults` |
| `AtLeastOnce` | at-least-once delivery of items: abstract specification, implemented by `Crawler` for jobs and by `Pipeline` for targets |
| `Missions` | a mission's row: create, cancel, completion check, counters |
| `LeaderElection` | `coordinator/coordinator.py`: the lock, its renewal, and the loops that act on the flag |
| `Records` | from a page to its fields, confidence and verdict (`processor/worker.py`, `validator/worker.py`) |
| `Console` | mission events through `api_gateway/main.py` to `useWebSocket.ts` and `missionStore.ts`, and the answers that `MissionForm.tsx` and `MissionList.tsx` store there |
| `MC*` | constants and symmetry of the TLC instances |
| `StreamWorkerProofs`, `CrawlerProofs`, `ProcessorProofs`, `MissionsProofs`, `LeaderElectionProofs`, `RecordsProofs`, `PipelineProofs`, `ConsoleProofs` | lemmas and theorems |

### How the models correspond to the code

A worker is a coroutine, so other actors can run only where it awaits. A worker's
program counter `pc[w]` names the await it is about to make, and an action is that
await with the straight-line code up to the next one. `"claim"` and `"read"` are the
two awaits of `run()`; the labels of `HandlerLabels` are those of
`_process_message`. `batch[w]` is what the `for` loop has left, `cur[w]` the entry
in `_process_message`, `after[w]` where the loop goes when the batch is empty. The
end of a handler starts the next entry in the same step, as the code does.

A stream is its log (nothing trims the work streams), the group's last delivered
id, the pending entries and those idle for `CLAIM_TIMEOUT_MS`. The owner of a
pending entry is left out: XAUTOCLAIM ignores it and the code never reads it.

Faults are actions, bounded together by `MaxFaults`:

- `LoseBatch` (in each stage's `Abort`): a crash and restart, a SIGTERM that
  cancels the task, or an exception that leaves `_process_message` and restarts the
  loop. The entries in hand stay pending. A lost answer to XREADGROUP is `Read`
  followed by it.
- `ClaimError`: `xclaim_pending` returns `[]` for every exception, whether Redis ran the
  command or not.
- `HeldGoesIdle`: a worker slower than the claim timeout; its entry can then be
  claimed by another worker (or, later, by itself).
- `PublishFails`, `AckOkFails` (crawler), `PersistFails` (processor), `StoreFails`,
  `CountFailedFails` (store): errors the handler itself catches, with the command executed or
  not.

HTTP outcomes are not faults: any fetch may succeed, fail or be rate limited.

Abstractions of the data: an envelope is its job and retry count; the domain, URL
and mission are functions of the job; a content is a model value, its first 2000
characters (all that `_content_hash` looks at) a function `HeadOf` of it; extraction and
validation are functions of the content, so `clean_data` carries the content and
`Acceptable` says which contents pass. `dead_letters` has no reader and is a set of
job and reason. A circuit is closed, open with a TTL, or open without one; its
failure count is never read for a decision. Heartbeats and live events leave the
pipeline's state alone. A malformed envelope
cannot come from the producers in the repository and has no action.

`Missions` stands beside the pipeline. `create[m]`, `cancel[r]` and `todo[c]` are what
the create request of m, cancel request r and the completion check of coordinator c still have
to do, each action being one query or commit of theirs. The completion check works from
the rows its query returned (`expire_on_commit=False`), so `todo[c]` is all it
knows. An update and its commit are one step: the row is locked between them. A
request or check may abort between two steps (`Abort*`). What becomes of a job is the pipeline's
affair; here a job in flight ends as stored, as not stored (a database
error), or uncounted (`JobUncounted`: dead-lettered before the store, or a duplicate), and may be
counted more than once (`JobCountedTwice`: a redelivery after the store's commit). `raced` is a
history variable. Any number of coordinators may take themselves for the leader,
as `LeaderElection` shows they may.

`LeaderElection` counts time. Each of SET, GET and EXPIRE is an action; `Tick` lets a
unit pass for the key's TTL and the loops' sleeps (10 seconds in the code, where
`LEADER_TTL` is 3 and `ELECTION_INTERVAL` 1). A round that is due is made before time passes,
or the time counts as `lost`; a round that raises (`RoundFails`) loses an interval, whether
Redis ran its command or not, and leaves `_is_leader` alone, as `_election_loop` does.
`busy[c]` stands for the three loops that look at the flag once and then work. `since` and
`waiting` are history variables.

`Records` follows one page. `ResolvePart` is one iteration of `_resolve_json_path`, `WeighField` one
of `_compute_confidence`. A path is parsed data (`$`, a dot or none, parts with
subscripts), a string its stripped length; `"match"` extractions (CSS, regular expressions) find nothing or a
text of any length. Scores are integers in ten-thousandths, `round` being exact; binary
floating point is left out. An unknown extraction type counts as `json_path`: its "best effort"
never falls back to CSS, because `_extract_json_path` returns `{}` for text that is
not JSON and raises nothing.

`Console` has the services' writes and the events that follow them, the push loop, one handler and one
socket for each visit of the page, and the store that all visits of a tab share. `outgoing`
is a broadcast under way. A handler ends as soon as its client's end closes, rather than at
its next send; messages it would still send are lost in both cases. A socket is
silent, and closed by the browser's 15 second heartbeat, when its link is cut or the push loop has ended: the
handler's own keepalive comes only after 30 seconds. `excused` is a history variable.

Besides snapshots and events, two requests of the page write the same list. `form[m]` is the
request that creates m: it waits from `Insert` until the start is published (or the gateway
stops, or Redis refuses), and its answer, by which the mission is running, is put on the list at any later time
(`Upsert`). The poll of the mission list (`StoreAnswer`) stores what `list_missions` sends, at
any time after a page was first opened, also when that page is gone. This is an
object with the missions as its `items` (`missions.py:129`), not the array that `client.ts:24`
declares. `missions.map` then throws (`MissionList.tsx:142`), no error boundary catches it, and React
removes the whole application: `rendered` is false, the hook's cleanup has run (`Cleanup`), no
page is mounted any more, and the view is `"garbled"` until a snapshot on an abandoned socket replaces it. So what
`StaleForAReason` says, it says of the console for as long as no poll has been answered; `IndInv` (`ListInv`) says what holds
afterwards.

A definition called a faulty variant is the one that follows it with a plausible
mistake in it. No specification uses these variants; they are there to see that the
properties notice.

## Runs

| Run | Instance | Checks |
|---|---|---|
| `crawler` | 2 crawlers, 2 jobs of one domain, 1 retry, 2 attempts, 1 fault | `TypeOK`, `NoJobLost`, `RetriesExhausted`, `OneOutcomeWithoutFaults`, `TTLOwedWithoutFaults`, `IndInv`, `SafeDelivery` |
| `crawler_live` | 2 crawlers, 1 job, the real 3 retries and 3 attempts, 1 fault | `Delivery`: implements `AtLeastOnce` with its fairness |
| `circuit_ttl` | 1 crawler, 1 fault | violated: `CircuitAutoCloses` |
| `processor` | 2 processors, 3 arrivals of 2 contents, 1 fault, 1 expiry | `TypeOK`, `OnlyTornContentLost`, `DedupBound`, `RawEventsWithoutFaults`, `IndInv`, `EventuallyDrained` |
| `processor_lost` | 2 processors, 1 arrival, 1 fault | violated: `NoContentLost` |
| `pipeline` | 4 stages of 1 worker, 2 jobs of one mission, 1 fault | `JobAccounted`, `OvercountBoundedByFaults`, `OneOutcomeWithoutFaults`, `IndInv` (with the types), `SafeDelivery` |
| `missions` | 2 missions of 2 targets and 1, 1 cancel request, 2 coordinators, 2 faults | `TypeOK`, `EndedMissionsAreFinished`, `IndInv`, `OnlyRacesOverwrite`, `EveryMissionSettles` |
| `leader` | 2 coordinators, TTL 5, interval 2, up to 4 units lost, 1 crash | `TypeOK`, `FreshLeaderOwnsKey`, `OverlapNeedsLostTime`, `GapIsBounded`, `IndInv`, `OneLeaderInTheEnd` |
| `records` | 4 pages, every sequence of up to 2 of 25 paths; up to 7 fields of 0, 1 or 100 characters or null | `DocumentedPathsResolve`, `RootSubscriptsAreLost`, `ASixthIsAccepted`, `OneMoreFieldCostsLittle`, `IndInv` (with the types) |
| `console` | 1 mission, 1 visit, 2 retries, 2 faults | `IndInv` (with the types), `StaleForAReason`, `CleanUnmount`, `ReconnectsMakeUpForThePush`, `SocketsComeBack` |
| `missions_overwritten` | 1 mission of 2 targets, 1 cancel request, no fault | violated: `FinalStatusIsKept` |
| `pipeline_uncounted` | 4 stages of 1 worker, 1 job, no fault | violated: `DrainedMissionsAreCounted` |

What the properties say:

- `NoJobLost`: whatever crashes, a job is in `raw_data`, in `dead_letters`, or has an entry to
  process.
- `RetriesExhausted`: a job dead-lettered as failed was fetched with every retry count.
- `OneOutcomeWithoutFaults`: duplicates and double outcomes need a fault (in `Crawler`
  for a stage, in `Pipeline` end to end).
- `SafeDelivery` of `Crawler`: the last entry of a job is acknowledged only when the job has an
  outcome, and outcomes are stable. `Delivery`: besides, every job gets one. The crawlers lose no job
  (`lost <- {}`).
- `SafeDelivery` of `Pipeline`: the same end to end, for targets (a mission and a URL), because
  the dedup set treats the jobs of one target as one. A target is open while a job of it has an unacknowledged
  entry in any of the four streams, or a processor carries its content (between SADD and XADD, when a second
  processor may acknowledge the entry as a duplicate); it is settled by a row or a dead letter, and lost
  when a processor that carried it stopped. So no step of any stage, retry or redelivery ends the
  work on a target that has neither an outcome nor such a loss, only a target that is open is lost, and
  an outcome comes only to a target that is open, settled or lost.
- `OnlyTornContentLost`: a content that is acknowledged and not forwarded was marked by a
  worker that then stopped before forwarding; there is no other way to lose one.
- `DedupBound`: the check-then-act race forwards a content at most once per worker and
  per life of the dedup set.
- `JobAccounted`: across all stages, a job (or one it duplicates) is in flight, dead-lettered
  or stored, but for the torn contents.
- `OvercountBoundedByFaults`: what a mission has counted and its jobs still to be counted
  exceed its jobs by at most the faults; a mission whose counters have reached the total, which
  the coordinator completes, has at most one job for each fault still under way.
- `EndedMissionsAreFinished`: a mission that the coordinator ended has all its targets
  enqueued and at most one job in flight for each fault; the same bound holds for what a
  failed mission has stored or in flight.
- `OnlyRacesOverwrite`: a final status is overwritten only by a handler that was already
  under way when it was written.
- `EveryMissionSettles`: a mission ends or is cancelled for good, unless its create request was
  cut short or one of its jobs ended uncounted.
- `FreshLeaderOwnsKey`, `OverlapNeedsLostTime`: a coordinator that leads without owning
  the key has had no renewal for a whole TTL, and that takes late or failed rounds worth
  `LEADER_TTL - ELECTION_INTERVAL`: with 30 and 10 seconds two failed rounds in a row. After a
  crash less is enough, because a restarted container has the same `instance_id` and may find
  its old key with little TTL left.
- `GapIsBounded`: nobody leads for less than `LEADER_TTL + ELECTION_INTERVAL`.
- `OneLeaderInTheEnd`: when starts and stops end, exactly one coordinator leads.
- `DocumentedPathsResolve`: the paths of `_extract_json_path`'s docstring find what JSONPath
  says. Outside them the resolver differs: an inner `[*]` ends the path, `$..b` means `$.b`.
- `RootSubscriptsAreLost`: a path that subscripts the root (`$[*]`, `$[0].a`) finds nothing. Another
  character right behind `$` is cut as the dot would be: `$a[0]` means `$.[0]`, `$title` means `$.itle`.
- `ASixthIsAccepted`: a sixth of the fields is always enough to be accepted, nothing but
  blanks never is, although `_validate` calls blanks "ok".
- `OneMoreFieldCostsLittle`: one more field that holds something may lower the confidence
  in records of more than three fields, by less than 0.198 - 0.6 / fields.
- `StaleForAReason`: once messages have arrived, a listed mission shows its status, unless
  since its last right snapshot it was cancelled (the store ignores that event), an event
  of it was published late (after the row had changed again), was lost, or overtook a snapshot, or
  the answer to its create form came after the row had changed again; or a page was
  left, or taken down, with a live socket. TLC finds a stale list when any one of these is struck out.
- `CleanUnmount`: a page left while its hook waits to reconnect leaves no timer. One left with a live socket does.
- `ReconnectsMakeUpForThePush`: a push loop that ended is made up for by the snapshots of
  reconnects, which its silence causes, in every hook that has not given up.
- `SocketsComeBack`: a hook gets its socket and snapshot back again and again, or has spent
  its retries, for which something must have failed.

### Bounds

Two workers per stage are enough for every race in the code, which are all between
a worker and one other that has the same entry or the same hash; two jobs let one
job's 429 meet the other; one retry separates "requeued" from "exhausted" (the
liveness run has the real limits). Three equal arrivals are one more than two
workers can forward without the dedup set; different contents with one hash are covered by the
proofs, where `HeadOf` is any function. One fault makes each crash point
and each ambiguous reply happen, and the redelivery that follows. In `pipeline` one worker per
stage suffices, since the stages' own races are checked stage by stage and a worker
whose entry went idle can still meet its own redelivery; `MaxRetries = 0`
and `MaxExpiries = 0` keep the
instance small, requeueing having been checked in the crawler's runs and expiry of the dedup set in the
processor's; the proofs have any of both. The two jobs have different targets; with both of
one target, where the second content is a duplicate of the first, the properties hold as well (183,607 states). In `missions` the mission of two
targets has an enqueueing that others can interleave with, the second mission gives a check
two rows to update, and two faults are enough to count both jobs of a mission
twice or to fail them both. Counters grow only with
the bounded arrivals, faults and expiries (`MaxArrivals`, `MaxFaults`, `MaxExpiries`).
In `leader` two rounds fall into
a TTL, as with the real values unless three are exactly on time, and four units of lost time are one more than
`OverlapNeedsLostTime` asks for: overlaps happen. In `records` seven fields are enough to be
below a sixth filled, and 0, 1 and 100 characters are the ends of each range of quality. In `console`
two faults can end the push loop and cut the link, or fail two handlers; two retries separate
"again" from "gave up". A second visit is behind the clause about pages left with a
live socket: with two visits, one retry and no fault (7.6 million states) the safety properties hold as
well; with a fault, too many states for TLC but not for the proofs, two sockets leave a stale list as soon as that clause is gone.

Deadlock is checked in every run where the program polls for ever; a page in `records` is
finished, and in `console` every mission may be settled and the page left.

### Fairness

`Loop(w) \/ Handler(w)` is weakly fair for each worker: asyncio resumes a ready
coroutine, every request has a timeout, and `docker-compose.yml` restarts containers
(`restart: unless-stopped`). An orphaned entry becomes idle and a key with a TTL expires, since
Redis' clock runs. No fault, enqueue or fetch outcome is forced. Liveness therefore
says: when faults stop, the work gets done. It does not cover a message that kills
its worker each time it is delivered: redeliveries are not counted by the code, and
such a message goes round for ever. In `Missions`, a create or cancel request that was
begun goes on, a leading coordinator checks every 10 seconds, and the pipeline ends
each job, as `Delivery` and `EventuallyDrained` say of its stages; nobody has to cancel.

In `LeaderElection` time passes, rounds are made (redis-py raises on a dead connection) and work that was begun ends;
starting, stopping and crashing are free, so `OneLeaderInTheEnd` assumes that they stop. In
`Console` the coroutines of the gateway, the browser's timers and
callbacks and the container's restart are fair; missions, visits, faults and the answers to the page's
requests are not.

## Disagreements between code and documents

1. `processor_lost`: SADD comes before XADD (`processor/worker.py:239`). A processor that
   stops between them makes its redelivered entry a duplicate of itself. `AGENT_SWARM_PROPOSAL.md:1407`
   promises that no message is lost.
2. `circuit_ttl`: HSET and EXPIRE are separate (`shared/redis_client.py:214`). A crawler
   that stops between them leaves the circuit open with no TTL; every later job of the
   domain is dead-lettered before it could open the circuit again. `README.md:242` of the
   repository says circuits close after 5 minutes.
3. `pipeline_uncounted`: only the store counts jobs. A job that a crawler or a validator
   dead-letters leaves its mission short of its total, so the coordinator's completion loop
   (`coordinator.py:150`) never ends it.
4. `missions_overwritten`: `create_mission` ends with an unconditional update to RUNNING
   (`missions.py:88`). A mission cancelled while its targets are being enqueued runs
   again, although `cancel_mission` refuses a final status (`missions.py:157`,
   `tests/backend/test_missions_api.py:238`). `OnlyRacesOverwrite` says that such races are the
   only way; a completion check or another cancel request loses the same race.

Properties that hold show further ones:

5. `RootSubscriptsAreLost`: the example mission of the repository's `README.md:105` extracts
   `"story_ids": "$[*]"`. `path[2:]` (`processor/worker.py:65`) cuts the bracket away, the field
   is null, and the validator dead-letters every page (`all_nulls`).
6. `OneMoreFieldCostsLittle`: "More non-null fields = higher confidence" (`validator/worker.py:41`)
   and "All filled = 1.0" (line 43) are not so: a short text lowers the average quality.
7. `GapIsBounded`: `BUGS_AND_FEEDBACK.md:15` puts the gap after a crash at 30 seconds at most; the next round of
   another coordinator may come up to 10 seconds after the key has expired.
8. `OverlapNeedsLostTime`: `coordinator.py` says that only the elected leader schedules, yet a
   leader cut off from Redis goes on, and EXPIRE may renew a key that is another's by then.
9. `StaleForAReason`: "On connect you receive a `snapshot`" and "thereafter" events
   (`README.md:170`) may come in the other order: the socket is registered first
   (`api_gateway/main.py:251`).
10. `ListInv`, in `IndInv` of `Console`: `client.ts:24` declares the answer to `GET /api/missions` as an array, and
   `MissionList.tsx:110` stores it as one. The gateway sends an object (`missions.py:129`,
   `tests/backend/test_missions_api.py:131`): the monitor page goes down with the first answer.

## Proofs

For every number of workers, jobs, domains, retries, attempts, batch sizes and
faults, from `LoopAssumption` and `CrawlerAssumption` only, `CrawlerProofs` proves:

| Theorem | Statement |
|---|---|
| `Invariance` | `Spec => []IndInv` |
| `TypeCorrect` | `Spec => []TypeOK` |
| `CrawlerLosesNothing` | `Spec => []NoJobLost` |
| `DeadOnlyAfterRetries` | `Spec => []RetriesExhausted` |
| `CircuitGetsTTL` | `Spec => []TTLOwedWithoutFaults` |
| `OneOutcome` | `Spec => []OneOutcomeWithoutFaults` |
| `DeliversAtLeastOnce` | `Spec => SafeDelivery`, the safety part of `AtLeastOnce` |

`NoJobLost` is not inductive: it does not say that the entry a worker is about to
acknowledge has been dealt with, nor that a requeued entry is a later one. `IndInv` adds

- `WorkInv`: workers hold delivered entries only, and a handler has one;
- `EntryInv`: an entry that is acknowledged, or whose worker is about to acknowledge it, is
  *handed on*: its job has an outcome, or an entry with the next retry count;
- `TryInv`: an entry's job was fetched with every smaller retry count, and with the
  entry's own once its handler is past the fetch;
- `OutcomeInv`: a job's outcomes, and how often it can still be handed on, are together at
  most one plus the faults; likewise its entries of each retry count (`OneOutcome` below).

`NoJobLost` then follows from the entry of a job with the highest retry count
(`LastEntry`, by well-foundedness of `<` on Nat): it cannot have been handed on to a next one, so the job
has an outcome or the entry is unacknowledged. `DeliversAtLeastOnce` needs nothing more: an outcome
written by a worker whose entry another one has acknowledged meanwhile settles a job that, by
`NoJobLost`, is open or settled already (`PromiseStep`). `RetriesExhausted` is
inductive with `TryInv`; `TTLOwedWithoutFaults` with the type invariant. There is one
lemma per action. Steps that only move a worker share `PlainStep`; those of the loop
and the clock rest on the lemmas of `StreamWorkerProofs` (what a batch, a claim, a read
and an acknowledgement do to the loop's variables, and first what each command does to a
stream). They do not mention the crawler, and the proofs of the other stages use them as well.

`OneOutcome` counts tokens. `Live(M, Spent)` (module `StreamWorker`) is how often the messages M can
still be handed on if nothing goes wrong: one for each entry that waits for a worker
(not delivered, idle, or pending with nobody at it), and one for each worker that has it in its batch or in its
handler, unless the handler is at a label of `Spent`, where it has done its part. Two
workers at one entry are two tokens; it takes a fault (a claim while a slow
worker holds it, a lost answer) to make two of one, so `Live` never grows but by new entries and faults.
A handler that publishes, buries or requeues spends its token. `OutcomeInv` bounds what came of a
job plus its tokens, and those of its enqueueing to come, by `1 + faults`.

For every number of processors, missions, URLs and contents, whichever contents begin alike, and any
arrivals, faults and expiries, from `LoopAssumption` and `ProcessorAssumption`, `ProcessorProofs` proves
`Invariance`, `TypeCorrect`, `OnlyTornLost` (`OnlyTornContentLost`), `RawEventsMatch`
(`RawEventsWithoutFaults`) and `DedupHolds` (`DedupBound`). `IndInv` adds what the entries' states alone do not say: a hash in the
dedup set, and a worker about to acknowledge, stand for a content that is forwarded, carried or torn
(`AccountInv`); and a worker past the insert has its raw event, one past the XADD its forwarded
content (`EventInv`). `DedupInv` gives `DedupBound`: once a content is marked, its copies, its
carriers and the workers that had found it new are together at most one per worker and life, because
nobody finds it new any more; before, the earlier lives pay for all copies. What was accounted for stays so (`AccountedStable`) because streams only grow and a
carried content is forwarded or torn when it is let go (`CarriedOn`).

For every number of missions, targets, cancel requests, coordinators and faults,
from `MissionsAssumption` only, `MissionsProofs` proves `Invariance` (`Spec => []IndInv`),
`TypeCorrect`, `EndedAreFinished` (`Spec => []EndedMissionsAreFinished`) and
`FinalUnlessRaced` (`Spec => OnlyRacesOverwrite`). `IndInv` relates the create request to what
is enqueued (`CreateInv`), bounds the counters by the jobs and the faults (`CountInv`), keeps
what justified an end, from the moment the check has read it (`EndInv`), and has no
handler about to overwrite an unraced final status (`RaceInv`). Each part has a lemma with
a case for each action.

For every set of coordinators, every TTL and shorter interval and any bounds on lost time and
crashes, from `ElectionAssumption` and `NoneAssumption`, `LeaderElectionProofs` proves `Invariance`, `TypeCorrect`,
`FreshLeadersOwn` (`FreshLeaderOwnsKey`), `OverlapIsPaidFor` (`OverlapNeedsLostTime`) and `GapsAreShort`
(`GapIsBounded`). `IndInv` measures how much of the TTL an owner has used: `KeyInv` by the time since
its renewal, `LeaseInv` by its sleep and what was lost; `LapseInv` says who has paid for leading
without the key, `GapInv` how the wait of an unled coordinator is spread over the key's TTL and
its own sleep.

For all JSON values, keys, pages, rules and lengths, from `RecordsAssumption` and `KeysAssumption`, `RecordsProofs` proves `Invariance`,
`TypeCorrect`, `SixthAccepted` (`ASixthIsAccepted`), `RootLost` (`RootSubscriptsAreLost`), `OneMoreField`
(`OneMoreFieldCostsLittle`) and `PathsResolve` (`DocumentedPathsResolve`). `IndInv` has the counters count what they should (`CountInv`), what the
others are worth without any one field (`OneOutInv`) and a lost path end in null (`LostInv`); the
bounds of the scores are lemmas on `Score` (`SixthScores`, `ScoreBounds`, `DropBound`). `ResolveInv` says of the loop
of `_resolve_path` what `DocumentedPathsResolve` says of its result: after each part of a documented path it
stands at the node that JSONPath selects with the parts so far, or at null where JSONPath selects none. JSONPath's
selection goes by the path (`Selected`, a recursive function on its length, which exists by the
well-foundedness of `<`: `SelectedDef`); on the documented forms a part selects at most one node
(`AtMostOne`), and each part is matched, name by name, with the code's steps (`PartSelects`, `PathStep`).

For every number of workers of each stage, of jobs, missions with finitely many jobs each, contents,
retries, faults and expiries, from `PipelineAssumption` only, `PipelineProofs` proves:

| Theorem | Statement |
|---|---|
| `Invariance` | `Spec => []IndInv` |
| `TypeCorrect` | `Spec => []TypeOK` |
| `JobsAccounted` | `Spec => []JobAccounted` |
| `OvercountBounded` | `Spec => []OvercountBoundedByFaults` |
| `OneOutcome` | `Spec => []OneOutcomeWithoutFaults` |
| `DeliversAtLeastOnce` | `Spec => SafeDelivery`, the safety part of `AtLeastOnce` for the four stages together |

The proof is compositional. A step of the pipeline is a step of one stage, which preserves that
stage's `CoreInv`: for the crawlers and processors by the lemmas of their own proof modules, which
`PipelineProofs` instantiates (`CP`, `PP`), for the validators and store workers by lemmas of this module
over the loop's (`VL`, `SL`). The other stages see such a step as `Elsewhere`: an entry may be added
to their input, a stream they write may have its entries read or acknowledged, dead letters and faults may grow.
Each stage's `CoreInv` is shown to survive that too (`ElsewhereStep`, `ValidatorElsewhereStep`,
`StoreElsewhereStep`). The lemmas called `Same...` say that a definition means the same through either instance.

`JobAccounted` then follows from the stages' invariants alone, one behind the other: a job
whose entries are all acknowledged was published (`NoJobLost`), what is acknowledged in `raw_data` is
forwarded, carried or torn (`AccountInv`), and what is acknowledged in `clean_data` and
`validated_data` is in the next stage or dead (`EntryInv`).

`DeliversAtLeastOnce` maps every step of the pipeline to a step of `AtLeastOnce` or to a stutter. By the
lemmas `Moves` (of `CrawlerProofs` and `ProcessorProofs`; `ValidateDelivery` and `StoreDelivery` have the like for
their stages) a step does at most one thing that the mapping shows, to one job: a stream gets an entry of
it, an entry of it is acknowledged, it is stored or buried, or a processor takes up, forwards or
loses its content. `TargetStep` says which abstract step each of these is. What it needs besides is the
abstract guard: a target may be closed, or settled, only when it is known, that is, open, settled or lost.
`EntriesKnown` gives it for every job with an entry in a stream, acknowledged or not, and follows from the stages' invariants
as `JobAccounted` does; where an acknowledgement closes a target, it is used in the state after the step.

The two counting properties are not inductive: they do not say how often the messages under way
can still be counted. `CountInv` and `OutcomeInv` add it: `Debt(J, Spent)` is the number of jobs of J not yet
enqueued plus the `Live` tokens of J in all four stages, and what came of J plus its debt is at
most `Cardinality(J) + faults`. A step upstream of the store moves a token to the next stage, into
`dead_letters`, or drops it, and makes one more only with a fault (`Flow`, `CrawlFlow`, `ProcessFlow`,
`ValidatorStep`); a store worker spends its token when it counts the job (`StoreCounts`, where
`Spent` begins at `"bury"`) or when the row or the dead letter is written (`StoreOutcomes`,
where it begins at `"ack"`). The same bound serves both, for J the jobs of a mission and for a single job.

`OvercountBoundedByFaults` speaks of jobs, not of tokens: a job is owed when its own debt is
positive. `OwedPlace` finds an owed job among those not enqueued or those with a message that some
stage can still hand on (`LiveJobs`, of `StreamWorkerProofs`), of which each stage has at most as many
as tokens (`LiveJobsBound`, `OwedParts`); so the owed jobs of a mission are no more than its debt
(`OwedBound`). `Missions` has a counter in flight in place of the four stages, and its
`CountInv` is this bound with the targets not yet enqueued taken off both sides.

For every number of missions, visits, reconnects and faults, from `ConsoleAssumption` only,
`ConsoleProofs` proves `Invariance`, `TypeCorrect`, `ViewIsRight` (`StaleForAReason`) and `UnmountIsClean`
(`CleanUnmount`). `StaleForAReason` speaks of states at rest only; `IndInv` says of every state what is still
to come. For a mission that is not excused, the last event in the unsent ones, the channel and the
broadcast announces the row's status (`LastEventInv`); and unless an event is still due to the open
socket, what it ends with is right: the handler is still to read the rows, has read the right one, or the last message
about the mission in the inbox says so, or the view itself (`ViewInv`). Each step hands that on: a write makes its
own event due, the push loop takes an event to every registered socket (`TakenIsDue`), a broadcast
behind a snapshot is the new last word (`BroadcastAwaited`) and one before it excuses the mission, and
a message that is received leaves the view right or a later message to make it so (`RightReceived`).
The answer to a form is right about its mission, or excuses it (`UpsertAwaited`); that to a poll leaves no page with an
open socket but abandoned ones (`AnswerCloses`), and before it there is a list (`ListInv`).
`EventInv` and `RowInv` keep events and rows of missions that do not exist yet out of it, and
`SocketInv` and `CleanUnmount` give that no second socket feeds the store (`OneOpenSocket`).

Model-checked only: liveness (`Delivery`, `EventuallyDrained`, `EveryMissionSettles`,
`OneLeaderInTheEnd`, `ReconnectsMakeUpForThePush`, `SocketsComeBack`), which needs fairness
and ENABLED.

## Not modelled, and the plan

- The scheduler: `register_mission` has no caller, so `scheduled_missions` is
  always empty and `tick` finds nothing due; interval missions run once.
- Agent monitoring: the hashes are written by every worker, republished and displayed, and
  read by nobody who acts on them. (Their HSET and EXPIRE are two commands, as the circuit's
  are: an agent that stops between them is listed for ever.)
- The console's agents, stream depths and circuits: each message carries the whole value and
  replaces the last one, as the mission list does with snapshots. `circuit_update` and
  `job_done` events have no publisher. The limit of 50 missions.
- A slow socket, which delays the broadcast to the others: `Broadcast` takes any order
  and any time.
- The data API (read-only), the pages (rendering), schema and deployment (configuration), the
  regular expressions behind CSS and regex extraction (library calls).

Worth doing next: the counters of `Pipeline` as the jobs of `Missions`. Their bounds agree
(`OvercountBoundedByFaults`, `CountInv`), but a refinement mapping has to say of each step whether it stores,
loses or recounts a job, which the bounds do not tell apart.
