# Formal models of the Aegis monitor

TLA+ models of the monitor agent of this repository (`aegis-monitor/`), with
TLC configurations that check them on small instances and TLAPS proofs of the
properties that should hold for every size. Paths below are relative to
`aegis-monitor/src/aegis_monitor/` unless they start elsewhere.

The monitor is one Python process on one asyncio event loop, with PostgreSQL as
its only durable state. Its difficulty lies in what is cut by an `await`: a
watch set kept in memory and in a table, a WebSocket subscription that has to
follow it, flags that become visible at COMMIT and are streamed by several
tasks, rules that decide on bounded memories and on lookups that fail, and an
outbox that publishes what cannot be taken back.

## Inventory

| Component | State | Operations | Must hold |
|---|---|---|---|
| `address_manager.py`, `api/routes.py` | `monitored_addresses`, `_addrs`, `_lock`, `_change` | add, remove, load_from_db, wait_for_change | memory and table agree; every call returns |
| `mempool/alchemy.py`, `mempool/parser.py` | connection, filter, change task, backoff, queue | connect, subscribe, receive, re-subscribe, sleep | no change of the watch set is lost; the filter follows it; the queue is bounded |
| `main.py` consumer, `screening/engine.py`, `attestation/` | queue, open transaction | get, run rules, insert hits, COMMIT, broadcast | all hits of a transaction or none; nothing streamed before COMMIT |
| `api/flags.py` | `flags` | correct, list page by page, proof | chains lead back; a flagged transaction always shows; one correction per flag; pages miss nothing; a proof names the signer of its flag |
| `api/stream.py` | `_clients` | connect, disconnect, broadcast | a lost client harms nobody else |
| `arweave/writer.py`, `uploader.py` | `arweave_tx_id`, row locks, backoff | select, upload, update, COMMIT, back off | a receipt proves a copy; writers keep apart; everything is archived in the end |
| `main.py` lifespan | all of the above | start, stop | state is rebuilt from the table |
| `screening/rules/`, `interaction_state.py`, `bytecode.py`, `eth_call.py`, `erc20.py` | LRU memories, caches | evaluate, has_code, read | decision tables; no repeated or missed alert by eviction; no stale "no code" |
| `schemas.py`, `attestation/signer.py`, `api/identity.py`, `config.py`, `scripts/` | signer, identity file, secret | boot, sign, anchor, rotate | which keys the identity chain leads to, in whatever order they are used and anchored |
| `api/ready.py` | none | read | |
| `aegis-site/src/app/monitor/` | feed in the browser | stream hook, history, merge | the feed shows every stored flag once |
| `indexer/` | profile store in memory | backfill, stream | no block skipped or counted twice |
| `scripts/tier1_detector.py` (at the root of the repository) | none | screen | the verdict is the worst detection; worse facts are not judged milder |
| `agents/`, `infra/`, `.github/`, `docs/` | none | | |

How they interact: HTTP handlers call the address manager; its event wakes the
listener; the listener fills the queue that the consumer drains; consumer and
correction handler insert into `flags` and call the broadcaster; the outbox
polls the same table. A crash takes every in-memory part at once and leaves
the tables.

The behaviours that are hard to test are listed one by one, at their lines, in
`PROJECT.json` under `hazards`, each with the property that covers it or the
reason why none does.

## Modules

`AddressManager` (state machine `AMSpec`). `rows` is the table, `addrs` the set
`_addrs`, `change` the event, `req` the running handlers. A handler is cut at
its awaits: `Call`, `Acquire` (the lock), then one of `Commit`,
`ReturnNotWatched`, `TxnFails`, `CommitAnswerLost` (the body and the exit of
`session_scope`), then `Apply`, which is atomic in the code because nothing is
awaited between `_addrs.add`, `_change.set` and the release of the lock.
`AMCrash` and `AMRestart` are the end of the process and `load_from_db`.
`unsure` is a history variable: the addresses whose last COMMIT came back as an
error.

`PendingTxListener` extends it with the task of `_run` (`lpc`), the change task
(`waiter`), the filter at the provider, the socket and the queue, so the
composed specification is the two tasks over one watch set. Every path that
leaves `_subscribe_and_consume` ends in `EndTurn`, since all of them reach the
same sleep. `WaiterRuns` and `IdleEnds` are `wait_for_change` in its two
callers; both contain `TakeChange` of the address manager. The provider is
external: `ProviderSends`, and its choice between `Acknowledged`, `Refused` and
`Disconnect`.

`FlagBroadcaster` is `api/stream.py`: connections (`handler`, `peer`), the
registered set, and for each caster (a task in `broadcast`) its copy, the send
it awaits and the clients that raised. The lock of the broadcaster never spans
an await, so its critical sections are single steps. `stayed` is a history
variable: the clients that were registered and listening when a broadcast took
its copy, and have been ever since.

`FlagPipeline` extends it with the flags table and the two producers. `Insert`
is `insert_attestation`, whose flush draws an id; a row is in `table` from then
on and in `visible` from the COMMIT on. The consumer runs `Get`, `ScreenHits` or
`ScreenNothing`, `InsertHit` per hit, `CommitHits`, then broadcasts; a
correction request runs `CheckHead`, `InsertCorrection`, `CommitCorrection`,
then broadcasts. Statements read at READ COMMITTED. What the rules answer and
whether the sender is still watched are open choices, which is why the pipeline
needs no copy of the watch set. A transaction is assumed to come out of the
queue at most once: nothing in the code removes duplicates, so a second
delivery would be flagged a second time.

`AuditTrail` is the abstract specification of the outbox: record, publish,
confirm. `ArweaveOutbox` is `arweave/writer.py`: one action per statement of
`_drain_once`, the pauses of `run`, two ways for the COMMIT to end, crash and
restart, and `Sever`: the database drops a transaction with its locks while
the writer, which has an upload under way, does not know yet. `OutboxCopies`
follows the same steps with the history variable `dropped`: the rows that a
transaction uploaded, or goes on uploading without a connection, and for which
no receipt came of it.

`FlagTable` is what the table of flags promises its readers: ids are drawn in
order, rows become visible in any order or never, and stay. `FlagPipeline`
implements it (`KeepsFlagTable`), with the rows staged by all its tasks for
`open`; so what is shown about readers of `FlagTable` holds beside the
pipeline, without the pipeline in the same state space.

`FlagQueries` extends it with the two reads. `StartWalk` and `ListFlags` are a
client that follows `next_before_id`; `stood` remembers what was to be seen at
the start. `SignAndInsert` keeps with each row who signed which body;
`FlagProof` answers with the body, the signature and the address of the running
signer. That the body rebuilt from the columns is the signed one is taken as
given, see Observations.

`AgentIdentity` is the key behind it: the secret and the identity file, changed
by an operator, and the process that reads one and then the other when it boots
(`BootSigner`, `LoadIdentity`) and never again. The code puts the operator's
steps in no order, so the model does not either: `scripts/generate_keys.py`, the
checklist `docs/specs/arweave-flag-storage.md:303-304` and the rotation runbook
`docs/specs/phase-1a-deploy.md:206-233` all install the secret before its
statement is uploaded, and a restart may come in between. `--supersedes` of
`scripts/upload_agent_identity.py` is an option whose default is none, so an
upload may stand alone and cut the chain. A file that is missing, unreadable or
without a transaction id gives no anchor. `orphaned` is a history variable: the
keys a process was started with before they had a statement and those cut off by
an upload, until a process reads a file that names them.

`Screening` is `RuleRegistry.run_all` with the four rules of `main.py`, one
action per rule and awaited lookup: `ApproveToEoa` and `CodeAnswered`,
`TransferFrom`, `UnlimitedApproval`, `FreshApproval`. It extends
`InteractionState` and `BytecodeChecker`, the memories of the rules, which both
are bounded ordered dictionaries: `OrderedDict` keeps the order of use as an age
per key, and its `Touch` is an assignment, `move_to_end` and eviction. Between
two rules time passes (`Tick`), the wall clock is set back (`SetBack`), an
address gets its code (`Deployed`) or the process restarts. What the calldata
decodes to and what the token would answer are fields of the transaction, which
lookups fail is chosen by the step. `called`, `destsSince`, `addrsSince`,
`lastApproval`, `approvers` and `excuse` are histories: what a memory without
bounds would know.

`Tier1Detector` is the stand-alone script, ten rules and a verdict as operators
over records of facts, in integers.

The modules `*Proofs` hold the proofs, and `Extrema` two lemmas on the least and
the greatest element of a set of integers. `MC*` modules give TLC its instances.
In the state machine modules a definition introduced as a "mutant" is a wrong
variant of the one below it. It is part of no specification and is there to see
that each property does catch the mistake it is meant for.

## Runs

| Run | Instance | What it shows |
|---|---|---|
| `address_manager` | 2 addresses, 2 requests | memory and table agree except during an update or after a lost answer; no second handler comes between a COMMIT and its `Apply`; False is answered for a watched address only after a lost answer; every call returns |
| `listener` | 2 addresses, 1 request, queue 1, socket 1, MaxBackoff 2 | no lost wakeup; an address that stays watched is streamed again and again; one that stays unwatched leaves the filter for good |
| `flag_store` | 2 transactions, 2 rules, 2 corrections, 4 ids, no client | hits all or none and once; chains lead back; a flagged transaction always shows; a flag has no more corrections than requests that raced for it; rows are append-only; refines `FlagTable` |
| `flag_stream` | 1 transaction, 2 rules, 1 correction, 3 ids, 2 clients | streamed flags are queryable; nobody gets a flag twice; who stays is served, whoever else fails; the consumer returns to its queue |
| `arweave_outbox` | 3 rows, 2 writers, batch 2, MaxBackoff 2 | writers keep apart, and no lock outlives its transaction; receipts prove copies; a flag has a second copy only if a transaction that uploaded it came to nothing; all is archived once failures end; refines `AuditTrail` |
| `flag_queries` | 3 ids, 1 transaction, 1 rule, pages of 1 or 2, 3 keys | a walk misses nothing that stood at its start, returns no flag with its correction and no row twice, and ends; with two flags, three keys and the operator's steps in any order, a served identity chain misses only signers that were started with before they were anchored, or cut off |
| `screening` | 5 feeds over 2 addresses, 3 contracts, 2 spenders; memories of 1 address, 2 contracts, 1 code entry | every approval of an address without code is flagged, and a contract is mistaken for one only briefly; a flag rests on a read that has said no, also when the other read fails, and the rows of the decision tables are flagged when the reads answer; a first call after an approval is flagged, a repeat only after eviction |

Five more runs each refute one sentence of a docstring, comment or document:

| Run | Sentence | What happens |
|---|---|---|
| `remove_answer` | `remove`: "False if not watched" | after a COMMIT whose answer was lost, the retry says False and the address stays in memory and in the filter until a restart or another add and remove |
| `double_correction` | "not double-superseding - fail loudly" | two concurrent requests both pass the check; nothing in the schema stops the second row |
| `stream_order` | "UIs can swap the row in place" | the correction reaches a client before the flag does |
| `arweave_poison` | bounded retries, "then alert + park" | one refused flag keeps its whole batch from being archived and repeats the uploads before it; with the single writer of the lifespan nothing behind the batch is reached |
| `rotated_key` | `FlagProof`: the verifier "recovers the signer from `sig`, and compares against `signer_address`" | after a rotation the proof of an older flag names the address of the new key, and the comparison fails |

### Bounds

All are constants of the configurations or named in the modules.

- `Addr`, `Req`: handlers interact through one lock and one address at a time;
  an add and a remove of one address with a second address as bystander show
  every interaction of two. `listener` uses one request, because
  `address_manager` already checks the races and a sequence of single requests
  meets the listener at each of its awaits. The proofs cover any number.
- `QueueMax` stands for `_QUEUE_MAX` (10 000) and is 1, so that the blocked put
  occurs. `SocketMax` bounds what the model lets wait in the socket.
- `MaxBackoff` is 2. The listener's variable grows without bound in the code but
  only `min(backoff, cap)` is used, so the model stops doubling past the cap.
- `MaxId` bounds the ids of flags. A step that would need one more id is not
  taken; the transaction may still fail, so nobody is stuck. 4 ids allow two
  hits and a chain of two corrections, or two hits of each transaction.
- `Operator`: two corrections race; more would repeat the pair.
- `copies` stops at 2, which stands for "more than one".
- `Row`, `BatchSize`: with 3 rows and a batch of 2 a writer takes a full batch
  while the other finds a rest. `Tracked` is the row whose history `dropped`
  keeps: the middle one, which can be first or second in a batch. It only keeps
  the state space small; the proof takes any set of rows.

- `flag_queries` divides its behaviours into two studies (`MCNext`): one walks
  and does not replace keys, the other replaces keys and does not walk, since
  neither reads what the other changes. The second signs at most `SignedMax`, 2
  flags: one before and one after a rotation. 3 ids are two flags and a correction,
  or a chain of two; with pages of 1 a walk has three of them. 3 keys are two
  rotations in a row. `MaxId` bounds the ids here too, so the walk that ends
  "although rows keep arriving" meets at most 3; the argument for any number is
  that `before_id` falls with every page.
- `screening` chooses one of five feeds at the start, because the four rules
  share nothing but the transaction and the order they run in: approvals (the
  bytecode cache), calls of one address to three contracts, calls of two
  addresses (both for the memory of interactions), transfers and amounts (the
  reads of the token). The memories are one smaller than what is put into them,
  so that each bound is met: `MaxAddrs` 1, `MaxDests` 2, `MaxEntries` 1 for
  `max_addresses`, `max_destinations_per_addr` and `max_entries`. The clocks
  have three instants: a window of 1 can be met, missed and gone past, and a
  negative answer of 2 expires. `UintMax` 20 stands for 2^256 - 1.

The configurations check for deadlock: none of the systems can stop.

### Fairness

- A handler that holds the lock runs on and its transaction ends in one of four
  ways (weak fairness). `asyncio.Lock` serves its waiters in order, hence strong
  fairness of `Acquire`.
- Tasks of the event loop that can run do run (weak fairness).
- The provider accepts a connection and acknowledges a subscription now and
  then (strong fairness). The code has no timeout for the acknowledgement, so
  this is an assumption about the provider and the network, not a fact about the
  code.
- A send to a WebSocket client ends: the server's keepalive pings close a
  connection that stopped answering. `ConsumerKeepsGoing` rests on it; a client
  that answers pings and reads nothing is not covered, neither by it nor by
  `AddReachesProvider`, which needs the consumer to make room in the queue. Without
  it the docstring's "We never block the consumer loop on a slow client"
  (`api/stream.py:58`) would be false, since the consumer awaits each send.
- A crashed process is restarted (the ECS service). No fairness is assumed of
  crashes, failures, requests, clients or broken connections.
- The client that walks asks for its next page some time, also when restarts of
  the process come in between (strong fairness of `ListFlags`), and a process
  that boots comes up. Nothing else of `FlagQueries` is fair: writers may stop
  or go on.
- `Screening` states no fairness; it has safety and action properties only.
- In the outbox only `Progress` is fair. `HealthyFlagsAreArchived` has the
  premise `MishapsEnd`: from some point on there are no failures from outside.
  Up to that point there may be any number of them.

## Proofs

All by TLAPS, for every value of the constants, from `ListenerAssumption`,
`PipelineAssumption`, `OutboxAssumption`, `NoWriterAssumption`,
`QueriesAssumption`, `InteractionAssumption`, `BytecodeAssumption` and
`ScreeningAssumption`, all of them evaluated by TLC in the runs, with
`BroadcasterAssumption` (the value for "no client" is no client) and
`TrackedAssumption`.
`PipelineAssumption` asks for finitely many correction requests at a time,
which a server with finite memory has; nothing else bounds their number.

- `MemoryAgrees`: the invariant adds mutual exclusion to the property, and
  `CommittedRowStands`, which says that the row a handler has committed is still
  what it will write to memory. Without the second, `Apply` could write an
  answer that a later COMMIT has overtaken. `NobodySlipsIn` states it on its own.
  `FalseAnswersAreHonest` is what is left of the sentence `remove_answer`
  refutes: the handler that answers False holds the lock, so nobody is in
  flight, and a row that is not active can be in memory only if it is `unsure`.
- `NoChangeIsLost`: `ImplementsAddressManager` shows that the composition takes
  only steps of the address manager. The invariant adds that a listener without
  a connection has no filter and that the waiter exists only while it streams;
  so the steps that clear the event (`WaiterRuns`, `IdleEnds`) leave the
  listener either marked done or on its way to a fresh snapshot.
- `NothingIsStreamedEarly`, `ChainsLeadBack`, `FlagsAreAppendOnly`: the
  invariant says that every visible or staged id has been drawn, that a request
  past its check has a visible target of its transaction, and that a staged
  correction already points back. Ids grow, so a chain cannot loop.
- `FlaggedIsShown`: adds that no two tasks hold the same staged row and that
  only corrections supersede. The visible row of a transaction with the
  greatest id is superseded by nobody, because what supersedes has a greater id
  and the same transaction; `Extrema` supplies the greatest one.
- `RacesAreBounded`: the successors of a flag and the requests that have passed
  the check for it and not ended are together at most as many as there are
  requests. A request enters this sum only while the flag has no successor, and
  from then on each COMMIT moves one from the second group to the first; a
  request has one staged row at most. `OneAtATimeIsEnough` draws the conclusion
  for one request at a time: then the comment that `double_correction` refutes
  is true, so the race it shows is the only way to make it false.
- `StreamInvariant`, with `EachFlagOnce` and `WhoStaysIsServed`: each task
  broadcasts only what it has committed itself (`OwnFlags`), which no other task
  has; a flag has not been heard before its broadcast, and in it not by the
  clients still in the copy (`NotYetHeard`); a client that stays has heard the
  flag or is still in the copy (`ServedOrAhead`). The second sentence fails if
  two tasks could hold one flag, hence the first.
- `HitsStandTogether`: between its first insert and its COMMIT the consumer
  holds the rules already inserted and those still to insert, together the
  verdict of the rules, and its transaction has no visible flag of a rule;
  operators add corrections only. The COMMIT is one step, so the flags appear
  all at once.
- `ImplementsFlagTable`: a step of the pipeline draws one row, commits or gives
  up what one task has staged, gives up everything (a crash), or leaves the
  table alone.
- `PagesAreComplete`: what stood at the start and has an id at or above the
  cursor has been returned, or was superseded meanwhile. A full page leaves no
  gap above its last row and a short page is the last; both are lemmas about
  the cardinality of a page. `PagesAgree`: a returned row was current when
  its page was read, and its correction, if it came later, is above the cursor.
  `PagesDescend`: a page lies below the cursor, all that was returned lies at or
  above it, and a full page is not empty. This is the safety half of `WalkEnds`:
  a number that falls with every page cannot fall for ever.
- `ChainMissesOnlyOrphans`: the invariant is about the running signer and every
  row ever drawn, committed or not: its key is in the file or orphaned, and in
  the served anchor, if there is one, or orphaned. An upload moves what it cuts
  off from the file to `orphaned`, and nothing leaves `orphaned` but into an
  anchor. The property speaks of a chain only where there is one: a process
  without an identity file promises nothing.
- `ScreeningInvariant` and what follows from it: a "yes" of the bytecode cache
  is true; a "no" has an excuse (its address has no code, or has it only since,
  or a lookup failed) that lasts at least as long as the entry; and what each
  rule has decided of the transaction under way stands until it is handed over.
  `ContractIsKnownSoon` is the action property that rests on the second part,
  `FlagsHaveAnAnswer` and `DecisionTablesHold` on the third: each says what a
  hit of T1.3 or T1.4 presupposes of the reads that failed, and what is flagged
  when they do not.
- `MemoryInvariant`, with `RepeatsAreExcused` and `FirstTouchFires`: what the
  bounded memories still know. The age of a key is at most one more than the
  number of keys used since, so that a key can be evicted only after as many
  others were used as there are places; the youngest contract in the memory of
  an address dates the last use of that address. From both follows which calls
  and approvals must still be there, for any bounds, and that a repeat fires
  only when one of the two evictions happened.
- `VerdictIsTheWorst`, `ConfidenceFitsVerdict`, `RiskierIsNeverCalmer`: no
  state, so no induction: the verdict is the greatest flag of at most ten
  detections, and every rule grows with the facts that should alarm it.
  `AtLeastAsRisky` says in which direction that is, and shows where the code has
  none: more declared than before is not worse than less.
- `NoDoubleHands`, `ArchivedRowsRest`, `ReceiptsAreProofs`: a row is locked
  exactly by the writer that has it in hand and is not severed; whatever is
  noted has a copy.
  `OutboxKeepsAuditTrail` maps each step to a step of `AuditTrail` or a stutter
  under this invariant; a COMMIT, answered or not, is `Confirm` of its batch.
- `SecondCopiesAreRetries`: the copy of a row that nobody dropped belongs to the
  receipt or to the one writer that has uploaded it (`CopyHasOwner`), a writer
  without a connection has only dropped rows (`SeveredIsDropped`), and an
  uploaded row is out of the batch (`UploadedLeavesBatch`). So the row a writer
  uploads has no copy yet, or was dropped before.

Model-checked only: the liveness properties (`EveryCallReturns`,
`AddReachesProvider`, `RemoveReachesProvider`, `ConsumerKeepsGoing`,
`HealthyFlagsAreArchived`, `WalkEnds`), which the provers cannot treat, since
they rest on fairness and so on ENABLED. Every other property of a passing run
is a theorem. Their safety halves are among them: `NoChangeIsLost` for the two
of the listener, `NoDoubleHands` for the outbox, `PagesDescend` for the walk.

## Observations

Met while modelling, without a run of their own:

- "the chain of identity statements is the audit trail"
  (`docs/specs/arweave-flag-storage.md:345`) holds only with the exceptions of
  `ChainNamesEverySigner`. The documents' own order, secret first, opens a
  window in which a restart signs with a key without a statement; it closes
  when a process boots after the upload. An upload without `--supersedes`, the
  default of the script, cuts off every key before it for as long as that file
  or one linked to it is served.
- `scripts/upload_agent_identity.py:93` strips the prefix of the signature with
  `lstrip("0x")`, which also takes leading zeros of the signature. The
  statement of such a key is published and cannot be verified. In the model it
  establishes nothing for its own key.
- `load_identity_tx_id` promises null for a malformed file. One that is JSON but
  no object raises `AttributeError` (`data.get`) and stops the boot. The model
  takes the documented outcome.
- The body that was signed is not stored but rebuilt from the columns by three
  functions (`api/flags.py:171`, `api/flags.py:265`, `arweave/writer.py:112`).
  They were read against each other and agree today; no property compares them,
  since each copies the columns field by field. A float of 1e16 or more in
  `reason_structured` comes back from `JSONB` as an integer, so that the rebuilt
  body is not the signed one; no rule writes one, an operator's correction may.
- After a change of the watch set, `_run` sleeps the backoff like after a
  disconnect (`mempool/alchemy.py:88`): at least a second without a
  subscription, where the docstring (lines 8-10) has "a few hundred ms".
- "pages stay consistent" (`api/flags.py`) has two limits the properties leave
  out: a row with a lower id that commits after the cursor has passed is seen by
  the next walk only, and a flag that is corrected in mid-walk, before its page,
  is seen by this walk neither as the flag nor as its correction.
- "On `None` we treat the lookup as inconclusive and skip the rule"
  (`screening/rules/transfer_from.py:19-21`; `screening/erc20.py:6-8` says the
  same of all rules) is false of T1.3 when one of its two reads fails. It skips
  only if both are None (lines 84-105): it flags when the allowance is lost and
  `isApprovedForAll` says no, although the allowance may suffice, and when the
  allowance is short and `isApprovedForAll` is lost, although it may be true.
  `FlagsRestOnAnswers` says what is left of the sentence.
- "`amount > 10 x balanceOf(owner)`: medium" (`unlimited_approval.py:9`) is
  false for an owner with a balance of zero: the code lets it pass on purpose
  (lines 140-145), in the docstring it is not mentioned. `NothingMissed` excepts
  it.
- `CodeAnswered` takes the answer of the chain and keeps it in one step, while
  the code notes the expiry when the answer arrives (`bytecode.py:100-107`). A
  contract deployed while the answer travels is taken for an address without
  code for `negative_ttl_s` and that latency, so `ContractTakenForEoaBriefly` is
  exact up to the latency of one RPC.
- The docstring of `api/stream.py` says that, thanks to the lock, "we can't send
  to a client mid-disconnect and race its cleanup". The lock is released before
  the sends: `Unregister` and the end of another broadcast can take a client
  out of the set while a send to it is awaited. What does hold is that this
  harms nobody else (`EveryClientIsServed`).
- The docstring of T1-001 in `scripts/tier1_detector.py` escalates below five
  validators for any TVL; the code wants more than 50 million first.

## Not modelled

Wording, logging, hex patterns and lengths, the arithmetic of ECDSA and of
Ethereum's ABI; the filters of `GET /flags`, which only make the table smaller;
`/ready` and `/health`, which look whether two tasks have ended that never end
but by cancellation; a second instance beside the first, except for the outbox;
the web feed; the indexer, an early scaffold; the runtime agent, which prints
the answers of an API; infrastructure and documents. Reasons are in
`PROJECT.json` under `components`. Shutdown is treated as a crash: the steps
of `lifespan` after `yield` are a subset of what a crash may cut.

## Plan

1. `FlagFeed`: stream hook, reconnect, history, merge and cap on top of
   `FlagBroadcaster`; whether the feed ever shows a flag that was committed
   while it was disconnected.
2. `RollingDeploy`: two instances over one table of watched addresses.
