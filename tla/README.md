# TLA+ models of the RAG platform

The repository is a retrieval-augmented-generation platform: a FastAPI backend
(`src/`), Celery workers, a resident outbox relay, PostgreSQL, Redis, Milvus, an
external permission service and a Next.js frontend.  This directory holds models of
its concurrent core, the TLC configurations that check them on small instances,
and proofs, checked by TLAPS, that hold for instances of every size.

Paths below are relative to the repository root.

## 1. Inventory

### Processes (docker-compose.app.yml)

| process | code | concurrency |
|---|---|---|
| API (uvicorn) | `src/main.py`, `src/api/*` | many requests; blocking parts run in threads |
| retrieval worker | `src/chat/service.py`, `src/retrieve/*` | Celery, 4 processes |
| ingestion worker | `src/ingest/service.py` | Celery, 2 processes |
| stamping worker | `src/ingest/service.py` (`stamp_channel_task`) | Celery, 4 processes |
| outbox relay | `src/platform/task/outbox_relay.py` | one resident process |
| visibility subscriber | `src/permission/visibility_events.py` | one resident process |
| embedding service | `src/services/embedding_service.py` | one process with a GPU |
| Celery beat | `src/platform/task/celery_app.py` | not in the compose file; only `make dev-beat` starts it |

No file that deploys the system (compose files, `scripts/start.sh`, `scripts/deploy.sh`)
starts beat, nor the resident loop of `src/platform/task/reconciliation.py`.  That loop,
were it started, would never come to the sweep for stale executions: its check compares
with a timestamp that it has just set (`:330-333`).  The models contain the
reconciliation and assume nothing of it; the two properties that need it say so.

Every database connection is an asyncpg connection in autocommit mode; unless a
transaction is opened explicitly each statement is a transaction of its own.  The
Celery application sets `acks_late` and `reject_on_worker_lost`, so messages are
delivered at least once.

### Components, their state, and what makes them correct

* **Parse requests** (`src/doc/service.py`, `src/api/kb_routes.py`,
  `src/api/dir_routes.py`).  State: rows of `document_kb_mounts`,
  `ingest_executions` (status and epoch) and `outbox`.  Operations: upload with
  automatic parse, trigger-parse, batch parse, unmount with a cleanup in a thread,
  configuration updates.  Correct when a requested parse is carried out, when a
  removed document leaves nothing behind, and when rows stay consistent however the
  statements of two calls interleave.
* **Outbox relay**.  State: the state of outbox rows.  Reads the status and the
  epoch of the execution, dispatches a Celery task.  Correct when every event is
  acted upon, and a repeated or late one does no harm.
* **Ingestion worker**.  State: execution status, chunks in Milvus.  Three fences
  compare the message's epoch with the row's.  Correct when a completed document has
  the chunks of exactly one parse and a removed one has none.
* **Stamping worker and visibility events**.  State: the `allow_stamps`,
  `deny_stamps` and `vis_version` of each chunk.  Correct when stamps end up at what
  the permission service says, and never go back to an older version.
* **Reconciliation** (`src/platform/task/reconciliation.py`).  Sweeps for stale
  executions, missing mirrors and missing stamps.  Correct when it repairs what
  crashes leave behind and never disturbs what is at work.
* **Query stream** (`src/chat/service.py`, `src/api/routes.py`).  State: a Redis
  stream per query, conversation turns in PostgreSQL.  Correct when every token
  reaches the client in order, the stream ends, and turns are numbered uniquely.
* **Mounts** (`src/doc/service.py`, `src/api/kb_routes.py`).  State: documents, their
  mounts, knowledge bases, files, and the same once more in the permission service.
  Correct when tables and service agree, a removal takes what was asked and no more, and
  the reconciliation closes what gaps failures leave.
* **Sessions** (`src/api/auth.py`, `frontend/lib/api.ts`,
  `frontend/stores/useAuthStore.ts`).  State: the token in the browser's storage, its copy
  in each tab.  Correct when a tab and its requests belong to one session.
* **Permission client** (`src/permission/*`).  State: one circuit breaker per function.
  Correct when an unavailable service means no access, and when the breaker closes once
  the service is back.
* **Retrieval pipeline** (`src/retrieve/*`).  Hybrid search, fusion, merging of
  hierarchical chunks, oversampling with a recheck.  Correct when what is shown passed the
  filter and the recheck, and merging loses no hit and mixes no documents.
* **Model registry and settings** (`src/platform/model/registry.py`,
  `src/api/settings_routes.py`).  State: the default model of each type, the active
  prompt, the model that retrieval settings name.  Correct when exactly one is active
  outside a switch, and a model in use is there.
* **Embedding service**, **object store**, **audit, logging, metrics and tracing**,
  **start-up scripts**, **web frontend**: input and output around the above.

### What is hard

Interleavings of autocommitted statements; messages delivered twice or lost with
their worker; a relay that reads in two steps what a request writes in two steps;
whole-row upserts; retries of tasks that had already written; cleanup that runs
beside the task it cleans up after; and repair jobs racing with what they repair.
`PROJECT.json` lists each at the line where it bites, with the properties that
cover it.

## 2. The ingest path (modelled)

One *slot*, that is one (document, knowledge base) pair, is modelled: every chunk
operation of the code selects by `document_id` and `kb_id`, so two slots meet only
in the queue of the workers, where one delays the other.

| module | models | state |
|---|---|---|
| `IngestTables` | the shared stores and their statements | `mount`, `status`, `epoch`, `outbox`, `chunks`, `stamped`, the Celery messages `job`, ... |
| `ParseRequests` | API calls: trigger-parse, batch parse, upload, unmount with its cleanup, configuration update, API crash | `req` |
| `OutboxRelay` | the relay's handlers, its failures and restarts | `relay` |
| `IngestWorker` | `ingest_document_task` | `job` |
| `StampWorker` | `stamp_channel_task` | `stamper` |
| `StaleSweep` | `reconcile_stale_ingest` | `sweep` |
| `IngestSystem` | their composition, fairness, the properties | |
| `MCIngest` | symmetry and the start from an indexed document | |
| `IngestClaims` | the docstring that it refutes | |
| `IngestSystem_proofs` | the proofs | |

Each autocommitted statement, each Celery publication and each Milvus call is a step.
`req[r].pc` and `job[j].pc` name the next statement of a call or of a task.  The
history variables (`outrun`, `revived`, `twice`) are read by no guard.

* A *generation* of chunks is a mount and a configuration: chunk ids are hashes of
  content and metadata, mount id included, so a write with the same two produces the
  same ids.  The writer calls `insert`, which does not look for rows of the same id: if they
  are still there the generation is there twice (`twice`).
* A task deletes the old chunks, reads the chunking configuration, and then writes
  (`CleanSlot`, `ReadConfiguration`, `WriteChunks`), each a step of its own.
* Batch parse (`BeginBatchParse`) upserts the row and inserts the event whatever is pending;
  only the upload with automatic parse looks for an event that is there already.
* Messages start in the order they were published (one Redis list); retries wait for
  a countdown and may start at any time.
* A failure is of one of the kinds in `FaultKinds`, and at most `MaxFaults` happen.
  `api`, `relay` and `worker` stop a process; `raise` is an exception of a task;
  `database`, `milvus` and `broker` are the refused calls that the code swallows;
  `stamp` is a failure of the stamping task.
* The relay calls `cleanup_mount_chunks` from inside its event loop.  The function's
  status updates use `asyncio.run`, which raises there and is swallowed, so only the
  deletion of chunks takes effect.
* The poll in `cleanup_mount_chunks` ends as soon as it reads the status that the
  function has itself just written, or no row.  It therefore guards nothing, and is
  no step of the model.

### Properties

| property | says |
|---|---|
| `OrphanHasCleaner` | without failures, a chunk of a removed mount has somebody about to delete it |
| `OrphansGo` | and it disappears |
| `CompletedIsIndexed` | without failures and removals, a completed document is never left without chunks |
| `CompletedHasOneGeneration` | calls made one at a time, with failures: a completed document has the chunks of one parse, each once |
| `JobEpochIssued` | no message carries an epoch nobody installed |
| `SupersededStaysOut` | a task overtaken before its second fence never writes, through retries and redeliveries |
| `SweptParsesSettle` | if the sweep is run again and again, an execution does not stay queued or processing for ever |
| `TasksAreCancelled` | when a removal deletes the chunks of a mount, a task of it that still runs has been told (violated) |

Two exceptions are part of `OrphanHasCleaner` and `OrphansGo`, because the code has
them: rows that the stamping worker's upsert puts back (`revived`), and a removal
that is refused because a newer mount already has a row (`outrun`).

### Runs

| run | question | instance |
|---|---|---|
| `IngestOverlap` | do overlapping calls leave chunks without an owner, or an execution that the sweep does not end? | 2 calls of any kind, 2 mounts, 3 messages, stamping, the sweep, one refused call of three kinds, fairness |
| `IngestReparse` | may overlapping parses empty or mislabel a document? | 3 calls, 2 mounts, 2 configurations, one failure of four kinds |
| `IngestSerial` | does retry and redelivery leave duplicates? | 3 calls of any kind one after another, 2 mounts, 2 configurations, three failures |
| `ClaimCancelled` | does a removal stop the tasks of its mount before it deletes their chunks? (no) | 2 calls, no failure |

Two calls on a document that is indexed (`IndexedInit`, a state that one undisturbed upload
leaves) are a removal and the upload or parse that it meets; overlapping parses need the
third, to be overtaken twice.  Two mounts let an old and a new mount meet; two configurations
make two generations distinguishable; two workers are the deployment's.  `MaxRetries = 1`
stands for 3: retries differ only in their number.  A run may stop because the calls, mounts or
messages of its bound are used up, hence `CHECK_DEADLOCK FALSE`.

**Fairness.**  A call in progress, the resident processes and the messages are weakly
fair: uvicorn finishes a request it has begun, docker restarts the relay and the
workers, Celery delivers.  New calls and failures are not fair, and neither is the sweep,
which no deployment starts.  `SweptParsesSettle` therefore has the fairness of the sweep as its
premise.  Without it an execution may stay queued for good, and no failure is needed: one
trigger-parse whose event the relay handles before its row is written is enough.

### Disagreements between code and comments

* `cleanup_mount_chunks` sets `cancelling`, so that running tasks exit, and `removed` when the
  chunks are gone, "in this order" (`src/ingest/service.py:791-795`, and `5-6`, `79`).  The
  removal has deleted the row before it starts the cleanup (`src/doc/service.py:344`), so
  neither update touches a row, and the chunks are deleted while tasks of the mount go on
  (`ClaimCancelled`; theorem `NeverCancelling`).  What stops such a task is that its row is
  gone, and what it writes in between it deletes itself (`OrphanHasCleaner`).
* The relay reads the epoch of an event because "trigger_parse has already written
  ingest_execution" (`src/platform/task/outbox_relay.py:82`).  `trigger_parse` inserts the
  event first (`kb_routes.py:720`) and upserts the row after it (`728`), so the task may
  carry the epoch that is about to be replaced, stop at its first fence, and leave the
  parse queued.
* A task whose row is gone purges, as "nobody will write chunks of this KB again"
  (`src/ingest/service.py:77`).  What it deletes may be the chunks of the mount that
  replaced its own.
* "The event is written in the same transaction" (`src/doc/service.py:235`, and the
  docstring of `trigger_parse`).  No transaction is opened: row and event are two
  autocommitted statements, and a process that stops between them leaves one of them.
* Stamping is said to update three fields only (`src/ingest/service.py:512`).  It upserts
  whole rows, and so inserts again what was deleted since they were read (`revived`).

Other disagreements visible in the model: a
superseded task sets `processing` before its epoch is checked, which makes the relay
skip the event of the newer parse; two events of one mount may become two concurrent
tasks with one epoch, which both pass the fences, and whose insertions, if they clean one
after the other and then write, put each row there twice (`twice`); the check for an existing event is not atomic with its
insertion; the sweep's UPDATE repeats the status but not the age, so it may fail a
task delivered again in between.

## 3. The query stream (modelled)

`QueryStream` models the questions asked in one conversation: `POST
/conversations/query` in the API, `retrieve_and_generate_task` in a retrieval worker,
the Redis stream of each turn, `query_stream`, the SSE reader in the API, and the rows of
`conversation_turns`.  `QueryClaims` holds the comment it refutes,
`QueryStream_proofs` the proofs (section 9).

| variable | stands for |
|---|---|
| `turns` | rows of `conversation_turns`: index, question, answer |
| `stream`, `ttl` | the key `query-stream:<conversation>:<turn>` and its time to live |
| `ask` | calls of `query`, with the turn index each was given |
| `task` | the Celery messages; `todo` are the events still to be published |
| `reader` | SSE connections: position, and in `view` what the client was handed |
| `loop` | the reader that keeps the API's event loop |
| `patient`, `renewed` | history: did every question wait for the ones before to be saved; was the key removed before |
| `failed` | what has failed |

* An answer is a sequence of pieces, each of which names the question it answers.  The
  apology, and what `check_verbatim_ratio` makes of an answer, are one piece that
  replaces it (`Instead`).
* `XADD` with `EXPIRE` is one step, which a loss of the worker or a refusal may cut in
  two.  `EXISTS` and `XREAD` with `$` are two.
* The synchronous `XREAD` runs in the event loop, and between two of them without events
  the generator does not await: no call and no other reader takes a step meanwhile.
* A model may answer nothing (`Silent` names the questions of a run for which it may).  Such an
  answer is not published as a piece, and a saved turn without one is not replayed.
* A call of Redis that is refused ends the reader without a word (`ReaderFails`).
* A key expires 120 seconds after its last event, and a reader gives up after 60 seconds
  without one.  So a key does not expire under a reader, unless a client that takes nothing off
  its connection holds the reader up between two reads: `Slow` names the questions of a run
  whose client may, and only their keys expire at any time (`Expire`).
* The stream keys of two turns are independent; two questions with one index share one.

| property | says |
|---|---|
| `NothingSkipped` | after its first event, a reader hands on every entry of the stream in order |
| `ShownIsSaved` | without failures, what was shown from the first event to `done` is what the history keeps |
| `OwnAnswer` | if every question waited for the ones before to be saved, no client is handed text of another question |
| `EveryTurnKept` | and every finished question is in the history, unless the database refused it |
| `NoHoles` | turns are numbered without holes, however questions overlap |
| `StreamEnds` | a stream that is read ends, with `done` or a timeout |
| `StreamsGo` | a stream key does not stay in Redis |

| run | question | instance |
|---|---|---|
| `QueryOverlap` | do overlapping questions, redelivery and refused saves disturb numbering, history or what is shown? | 2 questions, one of them watched, 1 piece or none, a lost worker or a refused save |
| `QueryEnds` | does every stream end and every key go, and what is shown agree, also with a slow client? | 1 question, 2 pieces or none, a slow client, one failure of five kinds, fairness |
| `ClaimReplay` | is a replayed answer the answer to the client's question? (no) | 2 questions, no failure |

Two questions are what a shared index needs, and it does not matter which of them is
watched, as either may be asked first.  Two pieces let a failure or a deletion fall
between them.

**Fairness.**  A worker that is lost is restarted and the message delivered again; the
event loop runs; a key with a time to live expires.  The timeout is strongly fair: a
reader that finds nothing over and over has found nothing for sixty seconds at some
time.  Questions, connections, departures and failures are not fair.  A run stops when
its questions are over, hence `CHECK_DEADLOCK FALSE`.

**Disagreements.**  `done` is published before the turn is saved, and indices count saved
turns: a question asked in between gets the index of the one before, its client is
shown that one's answer and its own turn is refused by the UNIQUE constraint
(`ClaimReplay`).  A reader that waits at `$` may miss the first events, although the comment
at `src/api/routes.py:367` says that it drains the stream first; `ShownIsSaved` therefore
speaks of readers that saw the first event.  A streamed answer that is replaced
afterwards stays on the client's screen (`ShownIsSaved`, last disjunct).  `StreamsGo`
leaves out a refused `EXPIRE`, and a redelivered task that raises: neither sets the time
to live again.

## 4. Visibility events and stamping (modelled)

`Stamping` models the stamping workers on the chunks of one document in one knowledge
base; `VisibilityEvents` extends it with the permission service, the two threads of the
subscriber process and their composition; `VisibilityEvents_proofs` holds the proofs
(section 9).  The chunks exist throughout: how stamping meets chunks that are cleaned or
not yet written is the matter of `StampWorker` in the ingest path.

| variable | stands for |
|---|---|
| `perm` | what the permission service answers: the version, and whether the pair is mounted |
| `vis` | `vis_version` of each chunk; 0 for empty stamps |
| `queued` | messages of `stamping_queue`; they differ in nothing, so a number is enough |
| `worker` | the task in each worker process: answer to be written, rows still to be written |
| `delivered`, `pending`, `stranded` | the consumer group: last delivered entry, the consumer's pending entries, those of consumers with an earlier host name |
| `reader`, `listener`, `inbox` | the stream thread, the Pub/Sub thread, what is published and not yet heard |
| `seen` | `_processed_event_ids`, which both threads use |
| `requested`, `raced` | history: events a task was requested for; did a write fall between another task's comparison and its end |
| `failed` | what has failed |

* The stamps of one answer are named by the version of the answer.  An answer for a pair
  that is not mounted empties the stamps and sets version 0, without a comparison.
* `_is_duplicate`, the request, the emptying of the set, the addition and `XACK` are steps of
  their own in each thread, so the threads interleave between them, and the set may come to
  hold one event more than its maximum (theorem `SeenIsBounded`).  The test of its size goes
  with the request before it, which touches nothing that the other thread reads.
* An event concerns one knowledge base in which the document is mounted and enabled.  For one
  that names none the code looks the knowledge bases up; that this fails, and is
  swallowed, is the same to all the rest as a refused request.
* The subscriber's polling is left out.  It is called with `last_check_time` 0.0 every
  time, and with that value runs no query.
* Eight things may go wrong or be refused, each where the code decides what then
  happens: `stamp` (a task fails or its process is lost, between any two calls), `milvus` (the
  query of the version), `request` (the dispatch of a task, or the lookup before it), `ack` (`XACK`), `reply` (the
  answer of `XREADGROUP` is lost), `pubsub` (the connection of the Pub/Sub thread), `crash`
  and `redeploy` (the process ends; comes back under the same or another name).

| property | says |
|---|---|
| `NothingForgotten` | unless a request failed, an event that was read is pending, or a task was requested for it |
| `NeverLeftTorn` | rows with different versions are about to be written again, unless two tasks mixed their batches |
| `NeverGoesBack` | the stamps of a row do not go back to an older version, whatever the order in which tasks finish, unless a write fell between another task's comparison and its end |
| `RowsCatchUp` | in the end the rows have the stamps of the last change, if all that failed is something the code makes up for (`MadeUpFor`) |

| run | question | instance |
|---|---|---|
| `VisibilityFlow` | does every change arrive at every chunk, whatever fails, and do versions order the writes? | 2 chunks in batches of one, 2 workers, 2 changes, queue of 1, one fault of eight kinds |

Two changes are what an old answer needs to meet a new one, two rows in two batches a
torn document, `MaxSeen = 1` makes the set of processed events overflow at the second
event.  Two tasks at work and one in the queue are more than there are changes.  A run stops when
the changes are used up, hence `CHECK_DEADLOCK FALSE`.

**Fairness.**  Each thread of the subscriber and each worker is weakly fair, and a process
that ended is started again (`restart: unless-stopped` in the compose file).  Changes,
sweeps and faults are not fair.  `reconcile_stamps` is not either, so that `RowsCatchUp`
cannot rest on Celery beat, which the compose file does not start.

**Disagreements.**  The properties name them as exceptions.  Each exception is needed:
TLC finds the property violated without it.

* `stamp_channel_task` claims that versions are monotone (`src/ingest/service.py:367`).  The
  comparison and the writes are separate calls, so a task with an older answer may
  write after one with a newer answer, and batches of two tasks may mix (`raced`).
* A removal sets version 0, and a row with version 0 is not compared: an older answer still
  on its way brings the stamps back.
* `_process_stream_message` says that a failed message is not acknowledged and is tried
  again.  `on_visibility_changed` swallows a refused dispatch, `_lookup_doc_kbs` a failed
  lookup, and `_process_visibility_event` whatever else is raised, so the event is
  acknowledged all the same.
* The set of processed events is said to keep 10000 at most
  (`src/permission/visibility_events.py:253`); it may keep one more.
* The docstring of `reconcile_stamps` says that rows behind the permission service are
  stamped again; the code only counts them.
* A broken connection ends the Pub/Sub thread for good; a lost reply of `XREADGROUP` leaves
  its messages pending until the next start; and a container created anew has another
  consumer name and never recovers what the former one had pending.

## 5. Retrieval (modelled)

`Retrieval` models one call of `retrieve()` in a retrieval worker; `FilterItems`, which it
extends, the re-check of the results by the permission service; `Recheck` what such a
re-check promises, without batches or a service; `MCRetrieval` a store of four rows;
`Retrieval_proofs` the proofs (section 9).

| variable | stands for |
|---|---|
| `granted`, `up` | the permission service: what it grants, and whether it answers |
| `step`, `question`, `todo`, `kept` | a call of `filter_items`: its items, those not sent yet, those allowed |
| `ever`, `always` | history: items granted at some moment, and at every moment, since the call began |
| `store` | what Milvus holds of each row: presence and stamps |
| `call` | the retrieval: settings, knowledge bases left to search, hits, results, round |
| `passed` | history: rows that passed the filter at some moment of the call |

* A search returns any of the rows that pass, in any order: the index is approximate, and
  scores are not part of the model.  Ranking is any order, with a score above or below the
  threshold.  A text is a name, its beginning another; rows have one level.
* `Rank`, `Merge` and each search are steps of their own, and rows come, go and are stamped
  between them.  A failure of the ranker or of a search is a search that finds nothing; one
  of the merger leaves the hits as they are; one of the embedding or of the credential ends
  the call.

| property | says |
|---|---|
| `StrictShown` | a result of a strict search was granted at some moment since its last search |
| `OneDocument` | merging neighbours never puts text of one document into a result of another |
| `FilterHeld` | no result is the hit of a row that failed the filter throughout the call |
| `MergeKeepsHits` | the text of a ranked hit is part of some result, also when its row is gone |
| `RecheckPromise` | the batched re-check implements `Recheck`: what is answered lies between what was always and what was ever granted |
| `RetrievalEnds` | a search ends |

| run | question | instance |
|---|---|---|
| `Retrieval` | do the three layers keep their promises while the world changes? | 4 rows of 2 documents in 2 knowledge bases, 3 settings, 2 hits per search, 1 repetition, batches of one, 2 changes |

The rows are chosen so that two begin alike, two have one text in different knowledge
bases, and one of these is refused to the user: what the second reading of the store and
the look-up by text may confuse.  Two batches are what a change between them needs.

**Fairness.**  The worker goes on: every request it makes has a timeout.  Changes are not
fair, and neither is the return of the service.

**Notes.**  The query for neighbours selects by document alone, so the text of a neighbour
in another knowledge base, or one that is not retrievable, may be part of a result; a
comment in the merger argues that parents and children share knowledge base and stamp.
`OneDocument` is what remains true.  `L3` compares documents, not pairs: a document allowed
through one knowledge base is kept for the other.  Results are put together in the order
of the knowledge bases, and the cut to `top_k` does not compare their scores.  A single hit
is not ranked, and so passes any threshold.

## 6. Mounts (modelled)

`Mounts` models documents and knowledge bases as the API creates and removes them, one step
per call of the permission service, the object store and the database, and
`reconcile_mount_mirror` beside them.  What happens to a mount's events and chunks is the
matter of section 2.

| variable | stands for |
|---|---|
| `documents`, `mounts`, `executions`, `kbs` | rows of the tables |
| `objects` | files in the object store |
| `registered`, `linked` | the permission service: resources, and pairs of document and knowledge base |
| `job` | the request each thread serves |
| `mirror` | the reconciliation: rows read and not yet looked at, gaps not yet closed |
| `asked`, `mark`, `fileMark`, `disturbed` | history: pairs whose removal was asked for; from which mount on a document must be linked, or keep its file; resources that a failure or an overlap touched |

* A call of the service or a statement may fail, and a call may be carried out although its
  reply is lost.  The service answers 404 for pairs and resources that it does not have.
* The reconciliation asks with the credential of a developer's login, and returns without one
  (`src/platform/task/reconciliation.py:52-63`): such a run changes nothing and is no step.  It
  links a pair that is denied for a reason with the word `unknown` in it (`:120`); a pair
  denied for another reason is passed over.
* The idempotency keys of the client are constants per operation; they are taken not to
  suppress a second, different call.  The local client of the development mode passes
  other parameters, but gives the tables the same meaning.
* The audit of a purge waits for its connection and falls back to another; it changes
  nothing the model has.

| property | says |
|---|---|
| `UnlinkedOnRequest` | a mount that the service lacks was removed or purged on request, or inserted after its document had been counted as unmounted |
| `MountKeepsFile` | a mounted document has its file, unless a purge in progress did not see the mount |
| `TablesAgree` | at rest, tables and service agree about what nothing failed on and no removal overlapped |
| `GapsClose` | where the reconciliation runs, it links what is mounted, if the service answers again and again |

| run | question | instance |
|---|---|---|
| `Mounts` | do tables, store and service agree, whatever overlaps and fails? | 2 threads, 1 content, 2 documents, 3 mounts, 3 knowledge bases (2 at first), 3 requests |

One content is what lets uploads meet: documents of different contents share nothing but
knowledge bases.  Three requests are an upload, a removal and whatever overlaps them.  With
four requests TLC found 6.4 million states and no violation; the run in the project keeps
three.

**Fairness.**  None: requests may stop, and no deployment starts the reconciliation.
`GapsClose` has what it needs as its premise, `ReconciliationRuns`: that it is started again
and again with a credential and goes on, and that the service does not for ever fail it or
deny for another reason.  Where it is not run, gaps stay.

**Disagreements.**  The removal of a document's last mount leaves its file in the store.
The purge of a document that was ever parsed fails on the foreign key of its execution
after the service has retired it, and leaves it retired.  The count of mounts and the
retirement are separate: a document may be retired that has just been mounted elsewhere.
The reconciliation links the pairs it read, some of which have been removed since, and
the second direction that its docstring describes (what the service has and the tables do
not) is not there.  When the retirement answers 404, the handler reads a name that only an
earlier 404 binds.  Of two uploads of one content the loser leaves a document that is
registered and stored and has no row.

## 7. Models, prompts and settings (modelled)

`ModelSettings` models the settings API, one step per autocommitted statement, and those who
read what it writes: an answer (`resolve_prompt`, `resolve_retrieval_config`,
`resolve_model`), a reranking without a model, and the start of the embedding service.  An
answer reads the settings of its tenant and of its knowledge base in two statements.  A
statement of a reader may be refused (`ReadFails`): settings are then those in the code, and
so is a default, a model that cannot be read is not used, and an answer without its prompt
fails.
`MCSettings` gives it two rerankers, and
`ModelSettings_proofs` holds the proofs (section 9).

| variable | stands for |
|---|---|
| `models` | rows of `model_registry`: id, type, whether the default |
| `active` | the active versions of the prompt |
| `settings` | `rerank_model_id` of each row of `retrieval_configs` |
| `req`, `reader` | the request of each thread; what each reader has read |
| `had`, `lost`, `crossed`, `loose`, `excused` | history: types that had a default; of which a failure, an update or a deletion took it; whose switches met; scopes whose model was not there when it was set; readers that looked during a switch |

| property | says |
|---|---|
| `OneDefault` | outside a switch a type that had a default has one, and only one, up to the named overlaps |
| `DefaultsServed` | a reader falls back to what the code has built in only if it looked during a switch, the database refused it, or a failure took what it looks for |
| `ReferenceServed` | a model that settings name is found by the answer that read them, whatever is deleted meanwhile |

| run | question | instance |
|---|---|---|
| `Settings` | do two-statement switches and checks before deletions hold when they overlap? | 2 threads, 3 requests, 1 reader, 2 models, 2 types, 2 prompt versions, 1 knowledge base and its tenant |

Two threads overlap, and the third request is what a switch needs to meet what two others
left.  The second type is the former name of rerankers, which requests may use as well.
Nothing is fair, as nothing is claimed to happen.  A run stops when the requests are used
up, hence `CHECK_DEADLOCK FALSE`.

**Disagreements.**  Two switches that overlap leave two defaults, of which readers take
any (`crossed`); one that stops halfway leaves none.  An id is unique per type only, but
every statement selects by id alone: a switch makes the other type's model a default as
well, and a deletion takes both.  A model id that settings name and the registry does not
have resolves to the language model of the environment, so that the connection test's
404 for it never happens.  The settings of a knowledge base hide the tenant's field by
field, and each field of its row has a value from the start.  An embedding service that
starts between the two UPDATEs keeps the built-in model until it is started again.

## 8. Sessions and permissions (modelled)

`Sessions` models a browser with several tabs, the API with its middleware and its decisions,
the breaker in front of `mint_ctx_token`, and the worker that takes a query from its queue.
`Sessions_proofs` holds the proofs (section 9).

| variable | stands for |
|---|---|
| `now` | lifetimes of tokens that have passed: a token has its tenant and its time |
| `storage`, `tabs` | the `access_token` of localStorage; the token of each tab's store |
| `leaving` | tabs that were told to go to another page and are still there |
| `req` | requests from the click to the answer, logins among them |
| `service` | the permission service: whether it answers, bans, memberships and grants of each tenant |
| `breaker` | failures in a row, and whether the recovery time is over |
| `seen`, `overtaken` | history: what was true at some moment of a request; tabs whose session another tab replaced or ended |

* A request carries the token of the storage, not that of the tab that sends it.
* The identity provider is not part of the model: its refusals change nothing.
* A page that is told to go elsewhere (`window.location.href`) is there until the next one is
  loaded: its store keeps its token, and answers go on to arrive (`leaving`, `Load`).
* A change of a conversation or a directory asks for no permission: a valid token of a user who
  is not banned is enough (`Admit`).  Outside production `/refresh` signs a token for a
  developer's tenant, whoever asks (`Refresh`).
* A healthy service may reject a credential that has expired and a banned user, which the
  breaker counts as a failure (`MintCtxToken`); in the half-open state it counts on beyond its
  threshold (`CountFailure`, bounded by `MaxFailures`).
* Three bounds keep the instance small: at most `MaxCalls` requests are in progress that are not
  for a tab's token, a tab on its way to another page asks for no new token, and tabs outside
  `Askers` only sign on and out.
* One API process is modelled; each further one has a breaker of its own.
* A query that is given up or left goes on and has nobody to answer to.

| property | says |
|---|---|
| `AnswersWereEarned` | what is done was allowed at some moment of the request: token and ban, a grant where one is asked for, membership where the service answers; for a query once more after it was queued |
| `TabShowsStored` | what a tab shows and what its requests carry are one session, however late answers come, unless another tab replaced or ended it or the tab is leaving |
| `ServedAgain` | once the service answers for good, queries are answered again, whatever opened the breaker before |

| run | question | instance |
|---|---|---|
| `Sessions` | do late answers, expiry and failures mix sessions, let pass what was never allowed, or keep out what is? | 2 tabs of which one only signs on and out, 2 requests in progress, of which 1 for no token, 2 tenants, one a developer's, a threshold of 2, 1 expiry, 1 event |

A second tab is what replaces a session or ends it, and signing on and out is enough for that.  A login or a switch overlaps
a call, and calls one after the other reach the threshold.  The proofs of section 9 cover
all sizes.

**Fairness.**  Requests are worked off (uvicorn and Celery), and the breaker's timer fires.
That the user keeps asking with a valid token is an antecedent of `ServedAgain`, not
fairness.

**Notes.**  The clients of `check`, `check_batch`, `filter_items` and `get_prefilter` catch
every exception themselves, so that their breakers never count, although the comments in
`authz.py` re-raise for that purpose; those of `mint_ctx_token`, `get_visibility` and the
life cycle do, and count every 404 of a healthy service too.  The 401 interceptor removes
the token that is stored by then: a late 401 ends the newer login of another tab, which
goes on showing it (`overtaken`).  A session ends an hour after the last click or key, which
`Header.tsx:80-88` records, or with its token.  The check of membership is passed over when the service does not
answer.  The hash of a refresh token is stored with `asyncio.run` inside the running event
loop, which raises and is swallowed: none is ever stored, `/refresh` with a token always
answers 400, and the frontend never asks for it.  Rotation is therefore not modelled, and
of `/refresh` only what it does without a token.

## 9. Proofs

### Ingest path

`IngestSystem_proofs` proves, for every number of calls, mounts, messages, workers and
failures:

* `TypeCorrect`: `Spec => []TypeOK`;
* `NeverCancelling`: `Spec => []CancellingNeverReached`;
* `OrphansHaveCleaners`: `Spec => []OrphanHasCleaner`;
* `OvertakenTasksStop`: `Spec => []SupersededStaysOut`;
* `EpochsAreIssued`: without removals, `Spec => []JobEpochIssued`, which is how the runs
  check it;
* `CompletedHasChunks`: `Spec => []CompletedIsIndexed`;
* `CompletedHasOneParse`: where calls do not overlap and the relay, the database and Milvus
  do not fail, `Spec => []CompletedHasOneGeneration`.

They rest on the assumptions named in `IngestTables` (positive bounds) only.
The first invariant of the path is that an execution row belongs to the mount that the slot
has (`RowHasMount`), which the table's foreign key sees to, and that nobody holds an id with
which it could fail.  It is not inductive: the last UPDATE of a cleanup could touch the row of a
live mount, and an upsert of a call begun long ago the row of a mount made since.
`MountInv` excludes both: mount ids are minted in order, an id not yet inserted is
known to one call only (`FreshIsPrivate`), and a call that cleans up holds the id of a
mount that was deleted (`CallsHoldMinted`).  `OrphanHasCleaner` is inductive with
`MountInv`: a fence that finds a row has, by `RowHasMount`, found the row of the live
mount; one that does not find it purges; and a mount whose row is gone has a call
about to delete the mount.

`SupersededStaysOut` compares a task with the row of its mount, and an epoch is not
raised by a row alone: a purge takes the row away, and the next upsert begins at one.
`KeptInv` adds that the row of a live mount is removed only by a call that removes the mount
(`NothingRemoved`), so that a task whose mount is still linked meets epochs that only rise
(`EpochOfRow`).  `EpochInv` follows a message to the task: the epoch that a job carries was
read from a row (`RelayEpochIssued`), and the row's is not smaller since.
`CompletedIsIndexed` needs `IndexInv`: without removals a task that is past its first fence
has its row, so none comes to the purge (`RowsPastFences`), and what a cleaning task deletes
it is itself about to write (`WrittenIsIndexed`).

`CompletedHasOneGeneration` needs `SerialInv`.  That a call begins when nothing is in progress
says nothing yet of what it sets off: `TurnsInv` adds that one call leads to one event and one
event to one task, each handed over before the one before it ends (`CallFirst`,
`EventFirst`); `CallsFit` and `WorkFits` that all of them are about the mount that the slot has,
or, in a removal, that it has none; `StamperKnows` that a stamping task knows of the link.
Then `TasksFit` can follow the one task through the slot: empty before the insertion, its own
chunks after it, `completed` not before the end, whatever a stamping task puts back.  The
failures left out are those that break it: a relay that dies after publishing the message
publishes it again, and the second task empties the slot while the first completes; a
failed UPDATE leaves `completed` standing while a task cleans; a failed deletion leaves old
chunks.

Only model-checked: the liveness properties (`SweptParsesSettle`, `OrphansGo`), and the
violation of `TasksAreCancelled`.

### Query stream

`QueryStream_proofs` proves, for every finite set of questions, every number of pieces
per answer and every set and number of failures (`QueryAssumption` and nothing else):

* `TypeCorrect`: `Spec => []TypeOK`;
* `TurnsHaveNoHoles`: `Spec => []NoHoles`;
* `ClientsSeeTheirOwn` and `FinishedTurnsAreKept`: `Spec => []OwnAnswer` and
  `Spec => []EveryTurnKept`;
* `ReadersSkipNothing`: `Spec => NothingSkipped`, an action property;
* `ClientsSeeWhatIsKept`: `Spec => []ShownIsSaved`.

The inductive invariant is `TurnInv`.  Even `TypeOK` is not inductive by itself: a
call gets the largest saved index plus one, and that this is one of `Turns` needs a
count.  `Numbering` says that every index below a call's own was saved before it was
given out, `RowsOfCalls` that a row has the index of its question's call; so the saved
indexes `1 .. k` belong to `k` different questions, none of them the one that is about to
ask, and `k + 1` is at most the number of questions (`RoomForAnother`).  `NoHoles` follows
from the same two parts.  For `OwnAnswer` the invariant traces text from the task
(`TasksOfCalls`) into the stream (`StreamsOfCalls`: an entry came from some call with
the stream's index) and to the reader (`ReadersOfCalls`); with clients that wait, no two
calls share an index (`PatientAlone`), so that call is the reader's own.
`SavedWhenOver` is `EveryTurnKept` extended to tasks between the insert and their
end.  `NothingSkipped` rests on `HandedIsNext`: a read that stops at `done` or at the end of
the batch hands over exactly the stretch that the position then moves past.

For `ShownIsSaved`, `ShownInv` says what a client has been shown as a function of how far
it has read: the entries of one task tell its pieces in order, then the end (`Script`), a
stream holds a beginning of what its task tells (`Told`), and a client shows what the part it
has read amounts to (`Shows`).  What is saved is what the task told.  The pieces are joined
with `FlattenSeq`, a recursive function; `FlattenIs` gives the two equations about it that
the proof needs.

Only model-checked: the liveness properties `StreamEnds` and `StreamsGo`
(liveness under fairness is beyond the prover), and the violation of `ReplayIsOwn`.

### Visibility events and stamping

`VisibilityEvents_proofs` proves, for every finite set of chunks, workers and kinds of
faults, every batch size and every number of changes (`StampingAssumption`,
`EventsAssumption`):

* `TypeCorrect`: `Spec => []TypeOK`;
* `EventsAreNotForgotten`: `Spec => []NothingForgotten`;
* `SeenIsBounded`: `Spec => []SeenStaysSmall`, the set of processed events has at most one
  more than `MaxSeen`;
* `StampsNeverGoBack`: `Spec => NeverGoesBack`, an action property;
* `TornRowsAreMended`: `Spec => []NeverLeftTorn`.

`NothingForgotten` is not inductive, because an acknowledgement rests on what was
decided two steps before, perhaps because of what the other thread did.  `EventInv` adds
the two links of that chain: an event in the set of processed ones was requested
(`SeenIsRequested`), and so was the event that either thread is about to add to it or to
acknowledge (`BothAsked`), which has to be said of its own because the other thread may have
emptied the set in between.  `SeenIsBounded` counts instead: the events in the set, and one for
each thread that found room and has not yet added its own (`RoomForBoth`).  For `NeverGoesBack`, `WriteInv` says that, as long as nothing raced and no
task was cut off, stamped rows agree on their version unless somebody is writing
(`RowsAgree`), and what a task is about to write is not older than what the rows hold
(`WritesNewer`): comparing with any one row is then as good as comparing with all.

For `NeverLeftTorn`, `MendInv` says who will mend rows that disagree: a message in the
queue, a task that is writing, or one whose answer is not older than any row, so that it is
not going to throw it away.

Only model-checked: the liveness property `RowsCatchUp`.
`NaturalLemmas` holds the fact about least elements that this module and
`QueryStream_proofs` share.

### Retrieval

`Retrieval_proofs` proves, for every finite set of documents, every batch size and every
store, setting and number of repetitions and changes (`FilterAssumption`,
`RetrievalAssumption`):

* `TypeCorrect`: `Spec => []TypeOK`;
* `PromiseKept`: `Spec => []PromiseInv`, and `RecheckKeepsPromise`: `Spec => RecheckPromise`,
  the refinement;
* `StrictResultsWereGranted`: `Spec => []StrictShown`;
* `DocumentsStayApart`: `Spec => []OneDocument`;
* `ResultsPassedTheFilter`: `Spec => []FilterHeld`;
* `MergingKeepsHits`: `Spec => MergeKeepsHits`, an action property.

`PromiseInv` says what makes the last step of a re-check map to an answer of `Recheck`:
what was kept was granted at some moment, and what is granted at every moment is kept or
still to be sent.  It is about items, and the mapping about documents.

The results are built with folds, which the community modules define by a recursive
function.  The proofs use them through their history: a fold runs (`FoldRuns`), and there is
a sequence of intermediate values that begins with the base and takes one step per element
(`FoldHistory`).  From it come lemmas on what each fold of the pipeline gathers:
`ThoseIn` (a selection), `NewTextsIn` and `PartsIn` (a window of neighbours without
repetition), `ByDocumentIn`, `AddedIn` (a repeated search), and from these `MergeHitIn` and
`MergedIn`.  `CallInv` carries them through a call: a hit's texts are of one document and
its row is among those that passed (`Good`), and at the end of a strict call the results
are those whose document was kept.

`MergeKeepsHits` needs the assumption that a merged hit has room for two windows and
itself (`MaxTotal > 2 * Window + 1`): the merger cuts the parts to `max_total_chunks`, and
with less room it would cut off the hit that it was called for.  The pipelines
have 3 and 10 (`src/pipelines/query_v6.yaml:16`).  An attempt with one less failed in
the proof, where the run's few rows had hidden it.

Only model-checked: `RetrievalEnds`.

### Mounts

`Mounts_proofs` proves, for every number of documents, files, knowledge bases, calls and
failures (`MountsAssumption`):

* `TypeCorrect`: `Spec => []TypeOK`;
* `MountsAreUnlinkedOnRequest`: `Spec => []UnlinkedOnRequest`;
* `MountsKeepTheirFile`: `Spec => []MountKeepsFile`;
* `TablesAgreeAtRest`: `Spec => []TablesAgree`.

`UnlinkInv` says that the pair of a mount, also of one about to be inserted, is linked or its
absence explained, and that an unmount that is about to retire the document has no older mount
left to unlink.  `FileInv` says that a mount, or a number yet to come, has its file or is not
older than the mark that the deletion of the file left, and that the mounts a purge did not
see are those inserted since.  `TablesAgree` is about the
moments at which nobody is at work, and says nothing of the way there.  Its proof has layers,
each of which uses those before it: no two writers are in each other's way (`NoConflict`,
`AllCalm`); what a row refers to was there (`Referred`); numbers are given out in order
(`NumbersFit`, `Known`, `Fresh`); a removal finds nothing left (`DropsEmpty`); and what
is missing between the tables is what somebody has still to do, for a document (`DocsFit`) and
for a knowledge base (`BasesFit`).  At rest nobody has (`FittingAgrees`).

Only model-checked: `GapsClose`.

### Settings

`ModelSettings_proofs` proves, for every set of threads, readers, models, types, versions
and scopes and any number of requests (`ModelSettingsAssumption`: at first the rows are
unique, as the table's constraint says, and no type has two defaults):

* `TypeCorrect`: `Spec => []TypeOK`;
* `TypesKeepOneDefault`: `Spec => []OneDefault`;
* `ReadersFindDefaults`: `Spec => []DefaultsServed`;
* `AnswersFindTheirModel`: `Spec => []ReferenceServed`.

`OneDefault` is not inductive: the second statement of a switch makes a row the default
without looking, and is right only because the first has cleared the type and nothing has
come between.  `SwitchInv` says so: of a type whose switches did not meet, at most one
request is halfway, and while there is one the type has no default (`OneSource`); a type
that had a default has one or somebody who is halfway (`DefaultKept`); and an id has one row
of a type (`UniqueRows`), without which one statement would make two rows the default.
Every other step is `Harmless`: it leaves the rows alone, and a thread that stops being
halfway counts its type as lost.

A reader looks twice, and between the two a switch may begin and end.  `ReadInv` says why it
still answers: a prompt or model that it has a reference to is not deleted unless somebody
says so (`PromptKept`, `ReferenceKept`), and a reader that found no default is excused by a
switch that was halfway while it read (`ReadersExcused`).

### Sessions

`Sessions_proofs` proves, for every set of tabs, requests and tenants, every threshold and
any number of expiries and events (`SessionsAssumption`):

* `TypeCorrect`: `Spec => []TypeOK`;
* `EveryAnswerEarned`: `Spec => []AnswersWereEarned`;
* `TabsShowWhatIsStored`: `Spec => []TabShowsStored`.

For the second, `EarnedInv` adds that history has what is true now (so that a check that
looks at the service now has seen it) and that what a request is doing fits its kind
(`KindFits`): only a change reaches the check of a grant, and only a query the queue, where
what it has seen is forgotten.  The third is inductive over typed states because a step
changes the storage and at most one tab's token, and leaves that tab without a token or
with what is stored (`Together`).  Only model-checked: `ServedAgain`, which is about
fairness.

## 10. What is not modelled, and the plan

Simplifications of the ingest path: one slot; the document stays mounted in another
knowledge base, so `retire_resource` is not reached by a removal; redelivery by the
broker's visibility timeout (one hour) while the task still runs; one stamping message
of the slot at a time; the age conditions of the sweep, which selects a row when no
task of its mount runs.  Simplifications of the query stream: one conversation, whose
creation, renaming and deletion are left out; `thinking` events; the rewriting of
questions; the frontend's polling of the history.  Simplifications of stamping: chunks
exist throughout; one document in one knowledge base; the cut of the query at 10000
rows; retries that are used up; events that cannot be parsed.

Not modelled at all, and why:

* Refresh tokens: see section 8.
* `MountEnabledChanged`: the relay's handler upserts rows with two of thirteen columns,
  which Milvus refuses without partial updates, and swallows the error.  The flag changes
  in the table of mounts and nowhere else, against the comment at
  `src/platform/task/outbox_relay.py:126`; nothing that a model could follow comes of it.
* Directories (`src/api/dir_routes.py`), conversations' names, and the numbers and texts of
  settings: rows that one statement writes and no other part reads.
* Embedding, splitting, fusion weights and prompts: numerical or textual work without
  control state.  The locks of the embedding service serialise one model each and are
  never nested.
* The local client of the permission service (`src/permission/cerbos_client.py`), which only
  the development mode uses, and `check_batch`, which is one answer for a list.
* Logging, metrics, tracing, audit and deployment: they change nothing that the rest reads.

Plan, in this order:

1. An abstract specification of stamping, in which the stamps of a slot follow the
   permission service, with `Stamping` shown to implement it where nothing raced.
2. The calls to models: retries and streaming of `src/platform/model/registry.py`, and the
   batches of the embedding client.
