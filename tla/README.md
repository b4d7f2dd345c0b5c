# Formal models of the IMM message server

TLA+ models of the C++23 / Seastar / gRPC messaging server in `server/`, checked
with TLC on small instances, and theorems about them checked with TLAPS. The
models are translated from the code. Where a model takes something from outside
the repository (InnoDB, Redis, gRPC) it says so.

## The system

A client asks **Gate** (HTTP) for an account and a chat token. Gate asks
**State** which Gateway to use. The client then keeps one TCP connection to a
**Gateway**, which authenticates it, records a *lease* for the device in Redis
(which connection is the device's current session, under a generation number),
and forwards its commands over a bidirectional gRPC stream to a **Message** node.
Message executes a command in MySQL, answers on the stream it came by, and pushes
what others must see to their Gateways, found through the leases. **File** stores
uploaded bytes for Message.

Every process is sharded: a shard is one reactor thread, and coroutines of a
shard interleave only where they `co_await`. Everything between a shard and its
MySQL, Redis or gRPC backend goes through one bounded *operation queue*.

| Part | Source | State it owns | Module |
|---|---|---|---|
| operation queue | `common/include/IoQueue.h` | pending jobs, byte quota, consumers, promises | `IoQueue`, `OperationQueue`, `IoProofs` |
| sessions and leases | `gateway/transaction/service.cc`, `gateway/transport/`, `gateway/io/driver.cc` (bind, refresh, clear) | Redis lease, generation and device list; a connection's identity | `Session`, `SessionProofs` |
| command link | `gateway/io/driver.cc` (`grpc_control`, `_pending`), `gateway/io/message_link.cc`, `message/transport/server.cc` | pending commands, links, streams, the registered stream | `CommandLink`, `LinkProofs` |
| message acceptance and history | `message/io/mysql_store.cc`, `message/transaction/messages.cc` | rows, sequence numbers, row locks, a reader's cursor | `MessageStore`, `ConversationLog`, `MessageProofs` |
| reliable delivery to a client | `gateway/transport/connection.cc` | unacknowledged pushes, write queue, byte counts | `Delivery`, `DeliveryProofs` |
| friends | `message/transaction/friends.cc`, `mysql_store.cc` | applications, friendships and their conversations | `FriendStore`, `GroupProofs` |
| groups | `message/transaction/groups.cc`, `mysql_store.cc` | masters, members, applicants, conversation states | `GroupStore`, `GroupProofs` |
| receipts | `message/transaction/messages.cc`, `mysql_store.cc` | positions of users and devices, a message's status | `ReceiptStore`, `GroupProofs` |
| file transfer | `file/storage.cc`, `file/service.cc`, `message/transaction/files.cc` | partial and complete objects, ready rows | `FileTransfer`, `IoProofs` |
| accounts | `gate/transaction/handlers.cc`, `gate/io/driver.cc` | codes, attempts, accounts, passwords, tokens | `Accounts`, `AccountProofs` |
| gRPC on the reactor | `common/reactor/grpc_engine.cc`, `dns_resolver.cc` | tasks, timers, sockets, lookups, the counters a stop waits on | `GrpcEngine`, `EngineProofs` |
| State | `state/service.cc` | a fixed node list, a round-robin counter | only in its role in `CommandLink` and `Accounts` |

`PROJECT.json` holds the same inventory in full, the map from definitions to
source lines, and the list of hazards with the properties that cover them.

## The modules

### `IoQueue` and `OperationQueue`

`OperationQueue` is what the queue promises its users: jobs are refused at once
or accepted, accepted jobs start in order, at most `Concurrency` run at a time,
closing flushes what has not started, and the queue drains. `IoQueue` is
`IoQueue.h`: `start`, `submit` (accepted or refused), the consumers' loop with its
condition variable, `begin_stop` and `stop`, and the owner's `abort` of the
backend between them. A step is what a coroutine does between two suspension
points. `signal` readies one sleeping consumer but reserves nothing for it;
`pop` may find the queue emptied by another consumer.

### `Session`

One (uid, device). The three Lua scripts are atomic (`RunBind`, `RunRefresh`,
`RunClear`); the coroutine resumes in a later step with the reply, and either
half can be lost (`LoginFails`, `ClearFails`, `ForwardFails`). `Login`,
`CheckPassed`/`CheckRefused`, `Bind`, `ClosePrevious` and `Refreshed` are the
suspension points of `service::login`. `Forward` and its followers are a command:
Gateway's own refresh if the last is 20 s old, Message's check of the lease, the
execution and the answer. `Drop`, `LeaveLoop`, `Settle`, `RunClear` are the end of
`connection::run`. `Elapse` and `Expire` are time. `Lookup*` is Message's
`get_sessions` with its SREM of a device without a lease.

### `MessageStore` and `ConversationLog`

A send goes through the statements of `accept_direct_text` or
`accept_group_message`: `Open` (the first SELECT, which fixes the snapshot),
`Lock` (`FOR UPDATE`), `Lookup` (the duplicate check), `Write`, `Commit`. `Collide` is the
unique key's refusal; `Fail` drops the connection at any point and `Settle` lets
the server decide what became of an unanswered COMMIT. Transactions of different
shards interleave statement by statement. `PullOpen` and `PullRows` are the two
autocommitted statements of `sync_conversation`.

InnoDB is external: REPEATABLE READ, its default, as no code in the repository
sets another level.

`ConversationLog` is what the clients may rely on, without transactions, locks and
snapshots: a conversation is a log to which a command is appended at once and at
most once; its sender hears the number, a duplicate, a conflict, or nothing certain,
and then the message may still be appended later; a client that pulls has a segment
of the log. `MessageStore` ends with the refinement mapping: the log of a conversation
is its committed rows in the order of their numbers, and a client has what it pulled
up to its cursor.

### `CommandLink`

One shard of a Gateway and the Message nodes it talks to. A link and the stream at
its other end are one gRPC call and share a name. The Gateway half has the pending
table, `Execute` (select, budget, correlation check, enqueue), the link's reads
and writes, `OnDone`, the control loop (`Connect`, `Retire`, `Replace`),
`Cancel`, `Abort` and `stop`. The loop looks at `_stopping` only between its passes
over the topology: a pass that the abort finds waiting for a link to close goes on to
the nodes it has not come to (`left`). The Message half has `Accept`, registration with
replacement of an older stream, `Reply`, `Push`, `Drain` and the end of a stream.
`Break` cuts a call; each end hears of it in its own time.

### `Delivery`

The writing half of a shard's client connections: `Offer` and `Send` bring pushes
and responses, `SendNew` and `SendReplacing` are `send_reliable`, `Retry` its
timer, `Acknowledge` the client's answer, which may name any number, `StartWriter`, `Flushed` and
`WriteFails` the write loop, `Quit` and `Close` the end. The byte counts kept by
hand and the two budgets of the shard are separate variables.

### `FileTransfer`

One file id. `Enter` takes the file's lock and is `storage::upload` up to the
first write (`Inspect`); `WriteBlocks`, `Truncate` and `Publish` are the rest.
`SaveProgress`, `CheckOwner` and `UpsertRow` are the statements `files::upload`
executes afterwards, each committed by itself. `HandlerFails` fails an RPC, which
File may go on to execute (`detached`), or a statement; `DiskFault` ends a request
within storage. `fileUploads` is written and never read, so it has no variable. A
digest is the bytes it is of: SHA-256 is taken to be injective. A client asks
again from the offset it was given, as `tcp_message.proto` tells it to; clients
are external.

### `Requests`

What the requests of Message and Gate have in common: a request goes from `new` to
`done` one call at a time, and a call that fails ends it. The connection is then
dropped, and the request is *lost*: the server may still carry out the statement
that was on its way, or end the transaction. `Loads` are the sets of requests a
behaviour may consist of.

### `ConversationTables`, `FriendStore`, `GroupStore`, `ReceiptStore`

`ConversationTables` has what the three services share: the conversations and the
users' states in them, the locks on rows, and a shard's one MySQL connection
(`SlotFree`). On it:

- `FriendStore` stores an application as two rows in two autocommitted statements
  (`StoreApplication`, `StoreSecondCopy`), makes a friendship in a transaction, and
  then marks both copies one by one (`MarkFirstCopy`, `MarkSecondCopy`).
- `GroupStore` has `create`, `request`, `reply`, `quit` and `kick`. Each locks the
  group's row and decides (`Create`, `Apply`, `Reply`, `Quit`, `Kick`), then writes
  and commits (`CreateGroup`, `RequestJoin`, `AdmitMember`, `RejectApplicant`,
  `RemoveMember`, `DissolveGroup`) and notifies.
- `ReceiptStore` has `acknowledge_conversation_message`: the lock and the checks
  (`OpenReceipt`), then the `GREATEST` updates (`Advance`), the status of a direct
  message and the report to its sender (`CommitReceipt`). A send is one step here
  (`StoreMessage`); `MessageStore` has its statements.

`ConversationService` composes them on the same tables: the conversation that a
friendship or a group creates is the one that receipts are about, and leaving a
group takes the positions in it away.

### `Accounts`

A verification request issues a code (`Issue`), mails it (`Mail`) and takes it back
when the mail failed (`Clear`, which compares first). A Gate may be configured to put
the code in its answer instead, or besides; during the cooldown it then reads the one
that is stored (`GetCode`). One that does neither refuses (`Unavailable`). The options
belong to the Gate a request comes to (`Mailing`, `Exposing`). Sign-up and reset verify the
name and address, try and consume a code (`Accept`, `Miss`, `Missing`), and only
then write to MySQL (`Register`, `UpdatePassword`). A sign-in checks the password,
asks State for a Gateway (`PickGateway`) and stores a token. Redis, the mail server
and MySQL share no transaction; every key may expire between any two steps. A code
is identified by the request that issued it.

### `GrpcEngine`

The EventEngine that runs gRPC on one shard. A step is what the reactor does
between two suspensions of a coroutine. Connection attempts have a coroutine, a
timeout and `CancelConnect`; endpoints have reads and writes; there are a listener,
timers, tasks, and lookups over the shard's c-ares channel with its socket watch.
The stop releases the channels (`ReleaseChannels`), then waits for the counters
(`CloseEngine`, `CloseDns`, `Drain`). gRPC is external: while its channels live it
starts things; afterwards it destroys, cancels and runs tasks.

## What is checked

| Run | Instance | Shows |
|---|---|---|
| `io_queue` | 3 consumers, 4 jobs of weight 1, 1, 2, 3, 2 entries, 4 bytes | no wake-up is lost, a stop ends with nothing left or charged, and the queue implements `OperationQueue` with its fairness |
| `session` | four scenarios: a second login beside commands, a fault and a stop; two first logins and a fault; logins on two Gateways while a third session is up; logins of two Gateways and a lookup | the newest session keeps its lease; an older one on the same process is closed; no command is accepted once a newer login was answered; a lost lease is not revived; a session that is gone leaves no lease unless its bind or clear failed; one without its lease is closed by its next command |
| `messages` | three loads: a retried direct command and two group messages, one under the direct key, with a member who joins; two direct messages, one retried, with a reader; a retried group command with its reader; 1 fault | numbers are gapless, answers agree with the rows, only overlapping attempts fail on the unique key, pulling page by page skips nothing, every send ends, what is stored is pulled, and the store implements `ConversationLog` |
| `link_reconnect` | 2 calls to one node, a command and its retry, 1 break, a server that stops; a call to each of 2 nodes | no table points to what is gone, results are not mixed up, stop leaves nothing |
| `link_liveness` | budgets of 1: a command over 2 calls with a break; 2 connections, and a command and a push, with a server that stops; a call to each of 2 nodes | every command ends and `driver::stop` returns |
| `delivery` | 2 connections that share budgets, a message and its receipt under one number, a response | byte counts and budgets are exact and bounded, what is sent again is the newest body, unacknowledged and sent at most three times, every push leaves the table |
| `files` | an upload of 2 chunks with 2 faults; two uploads of one owner that differ in the last byte, and uploads of two owners, with 1 fault and 1 failure in storage | what a ready row names is the declared file; an upload that is alone is finished by asking again |
| `file_crash` | 1 upload, 1 failure in storage | **violation**: the offset to resume from counts padding |
| `conversations` | 2 users, 1 group, 3 messages (2 of them in one conversation), 2 devices, 2 shards, six loads of 4 to 8 requests, 1 fault | the tables of a group agree, an application is answered once, the copies of a friend application are split only by overlap, a read is reported once, positions only grow, every request ends |
| `friend_applications` | 1 application | **violation**: the list pulled by its users names the puller as the applicant |
| `accounts` | 2 addresses, 2 names, five loads of 4 to 6 requests, 2 attempts, 1 fault | a code ends for its own reasons and pays for one change; sign-up answers agree with the rows; a replaced password is over |
| `grpc_engine` | six loads of attempts, timers, tasks, lookups and the listener | no attempt, timer or listener is heard of twice, and each that is over is heard of, but for an attempt whose endpoint cannot be built; the stop ends, and nothing is left when it does |

Each property of a passing run has a mutant: a definition changed the way a plausible mistake in
that code would change it, under which the property fails in the same run.

The two violations are disagreements between the code and what it says of itself.

`file_crash`: `append` writes whole blocks, filled up with zeros, and truncates in a later step.
If the process dies or the truncate fails in between, the `.part` file stays
longer than the bytes received. A repeated chunk agrees with it and is answered
with the padded length as `next_offset`, although the comment above the truncate
(`file/storage.cc:95`) says that the resume offset must equal the actual number of
bytes. The upload can then not be completed by asking again (unless the file itself has
zeros there): nothing removes the padding, and `UploadEnds` is
therefore stated for uploads without such a failure.

`friend_applications`: `insert_friend_apply` stores an application under both
users, and `pull_applications` (`friends.cc`) answers with the rows whose `fromUid`
is the user who pulls. `tcp_message.proto` (lines 88, 194, 199) promises the
applications the user *received*, with `from` the user who *applied*. The recipient
gets the row with themself as `from`, and the applicant gets it too.

Seven things the models made precise, all of which the code permits:

- A direct message's duplicate check reads a snapshot older than the lock before
  it. A retry that overlaps its original is therefore not seen as a duplicate, is
  refused by the unique key and answered `MysqlFailed`, which is retryable.
  `OnlyOverlapCollides` says that this is the only way it happens, and
  `ImplementsLog` that it does no harm: no log has a key twice.
- A session superseded on another Gateway is closed only by its next command
  (`SupersededIsClosed`); `OneSessionPerGateway` is about one process.
- `upsert_ready_file` has no transaction around its `SELECT ... FOR UPDATE` and its
  `INSERT`. Two owners who complete the same file id at once leave a row with the
  owner of one and the digest of the other. `ReadyIsWhole` excepts exactly those
  rows (`Contested`); without the exception `files` fails. File ids are
  generated by clients and no document says what an id used twice is promised.
- An acknowledgement names only a number, so the one of a message also removes the
  receipt that has replaced it under that number, and one may come before the push.
- The two copies of a friend application are written, and later marked, by
  statements that commit one by one. Crossing applications or replies of two shards
  can leave them different; `SplitOnlyByOverlap` says that nothing else does.
- A receipt whose COMMIT loses its answer has marked the message read, and its
  sender is not told: the next receipt finds the status unchanged.
  `ReadReportedOnce` excepts exactly the messages turned by such a receipt (`silent`).
- `reactor_engine::connect` has moved the callback of an attempt out when it builds the
  endpoint, outside its `try`. If the constructor throws (the peer has gone, so that
  its address cannot be read), the callback is destroyed uncalled and gRPC never hears
  of the attempt (`LoseConnect`). `HeardOnce` excepts exactly those attempts; `accept`
  builds its endpoints within the `try`, and there it is a failed accept.

### Bounds

Jobs, connections, sends, links and requests are used once each, so their number
bounds the behaviour; a retry is another element with the same key. `MaxFaults`,
`MaxCalls` and `MaxAttempts` are bounds of their own. Where several cases need
different elements, a behaviour begins by choosing one: `Loads` are the sets of
elements that take part, and `Scenarios` say besides how many faults, breaks,
pushes, lookups and stops there are. The state spaces then add up and do not
multiply. The proofs hold for all of them.

The instances are the smallest with the case in question: three consumers so that
one can be woken, one busy and one asleep; jobs that fit by entries and not by
bytes and the other way round; three logins so that two race for the place of the
third; a key used by two attempts and by a third command elsewhere; a page of one
row, so that the `LIMIT count + 1` boundary is at every row; two calls to one node,
so that a new stream meets the old one; a response and two bodies of different size
under one number, with budgets that hold either and not both; chunks that end
within a block, and as many requests as the faults can cost; requests of one group
on two shards, so that transactions overlap, and a member removed and admitted
again while a receipt is under way; two messages of one conversation, so that the
receipt of the older can come last; two codes of one address and an attempt limit
of two, so that attempts of the first code could count for the second; an attempt
whose timeout, completion and cancellation meet the stop. Symmetry is not used: the
elements have different roles.

All runs switch deadlock off, as every one of these systems may come to rest: the
queue, the link and the shard when they have stopped, the others when all
connections have ended or all requests are answered. Each cfg says which. That
nothing waits for ever is what `StopTerminates`, `SendsEnd`, `RequestsEnd`,
`CommandsEnd`, `StopEnds` and `DrainEnds` say.

### Fairness

- A reactor runs what is ready: weak fairness on coroutine resumptions and
  callbacks.
- A Redis call ends with a reply or a timeout. A MySQL call has no deadline in
  `mysql_connection.cc`: it is assumed to end only once it is aborted (`IoQueue`'s
  `Complete`). `MessageStore` assumes that MySQL executes statements and notices a
  closed connection.
- In `Session` only a forwarded command goes on: its refresh and its origin check in
  Redis end, and a denial of Message comes back. Nothing is assumed of logins, of
  accepted commands or of the end of a connection, and `SupersededIsClosed` holds
  without.
- gRPC completes the operations of a call; Message answers each command.
- A connection's retry timer fires and its writer is started; that a frame is ever
  flushed is not assumed.
- File requests and their statements end.
- In `ConversationService`, while some statement can return or some closed
  connection's transaction can be ended, one of them is. This is weaker than
  fairness of each request.
- In `GrpcEngine` the reactor runs its tasks, the loops of the stop look again every
  millisecond, gRPC destroys its objects once its channels are released, and I/O on
  a descriptor that was shut down completes. A peer that answers is not assumed.
- `Accounts` has no liveness property.
- Nothing is assumed of clients, networks or operators, except that a reader
  keeps pulling in `StoredIsPulled` and an uploader keeps asking in `UploadEnds`.

## What is proved

The theorems hold for every value of the constants that meets the named
assumptions, which TLC evaluates in the runs.

### `IoProofs`

Of `IoQueue`, for every set of jobs, every finite nonempty set of consumers and all positive
limits (`LimitsPositive`, which the constructor enforces):

- `TypeCorrect`, `OneKeeperAlways`, `NoLostWakeupAlways`, `QuotaIsPendingAlways`,
  `CleanWhenStoppedAlways`: the invariants of that name;
- `ResolvedOnceAlways`: a resolved promise never changes;
- `ImplementsPromise`: `IoQueue` implements the safety part of `OperationQueue`.

All rest on one inductive invariant: the type, `OneKeeper`, `QuotaIsPending`,
`NoLostWakeup`, and `Lifecycle`, which ties the owner's progress to the
consumers: accepting exactly while running; once closed, the queue is empty and
nobody sleeps; before start and after stop there are no consumers. `OneKeeper`
alone is not inductive because a consumer that finds the queue closed must not
hold a job, and `CleanWhenStopped` needs to know that no consumer sleeps when
`stop` joins them. `NoLostWakeup` counts: a submit adds one job and readies one
sleeper; a consumer that pops takes one of each. The refinement needs, besides,
that a ready consumer leaves room below `Concurrency`: the jobs that run are the
image of the busy consumers, which are fewer than all (`IdleMeansRoom`).

Of `FileTransfer`, from `FileConstants`: `ReadyIsWholeAlways`, and `PublishedStays`,
that a published file is never written again. A request is alone in the storage of
its owner, and there only until the file is published (`Alone`); `Stores` says that
what a request reports as complete is published with the content it declared, and
`Row` that the row comes from requests that recorded it.

### `SessionProofs`

`NewestKeepsLeaseAlways`, `AcceptedIsNewestAlways`, `NoOrphanLeaseAlways`,
`NoRevivalAlways` and `OneSessionPerGatewayAlways`, from `SessionConstants`, for any
number of connections, Gateways, commands and failures. The heart is `Current`: a
lease that exists carries the current generation, and no answered login has a later
one. So a command that Message accepts is of the current generation. The rest says
for each connection what it may rely on (`LoginSound`, `CommandSound`): it has no
generation until its bind returns; if it binds, is recent or has a confirmed refresh
under the current generation, the lease is its own; a lease it does not know of was
lost with a call. For one session per process `ReplacedInv` adds that a connection
with a generation has its lease, or is closed, or a login of its own process holds
its old lease in the reply and is about to close it, or nobody was told.

### `MessageProofs`

`GaplessAlways`, `StoredOnceAlways`, `AnswersAgreeAlways`,
`OnlyOverlapCollidesAlways` and `PullSkipsNothingAlways`, from `StoreConstants`.
The invariant says of each send (`Sound`) that it holds the conversation's row from
the lock to the end of its transaction, so that the number it read is still the
latest, and that what its duplicate check found is stored. The check itself may read
an older snapshot: that a key is stored once rests on the unique key alone
(`OneInsertPerKey`). `OverlapInv` says that a send that began after its key was
stored has it in its snapshot, and that nothing is stored in a conversation whose
row a group send holds. `ReaderInv` says that nothing a reader goes by is ahead of
`latestSeq`, so that, numbers being gapless, no row appears behind its cursor.

`ImplementsLogAlways`: `MessageStore` implements `ConversationLog`. A send takes effect
when its transaction commits; the statements before that, the locks and the settling
of what was rolled back are stutters, and a commit whose answer was lost is an
`AddLate`. The step needs all of the above: gapless numbers make the committed rows a
sequence and a commit its append, the unique key makes the key new to every log, and
the readers' invariant makes a page the next piece of the log.

`NobodyStuckAlways` and `SendsAdvanceAlways` are the safety that `SendsEnd` rests on.
A send under way may wait for the row of its conversation, or for an uncommitted row
with its key; who holds either has a later stage and waits for neither or only for
the second (`Holder`), so some send can always move. Every step of a send raises its
stage and none lowers another's, so there are finitely many steps.

### `LinkProofs`

`NothingDanglesAlways`, `ResultIsOwnAlways` and `CleanStopAlways`, from
`LinkConstants`. `LinkInv` is the Gateway's half: a link that is alive is the
current one of its node, and its in-flight count is the number of pending commands
that point to it. `StreamInv` is Message's half: the registered stream of a Gateway
is one that has not ended. `TraceInv` follows a command over both: it is in one
place on a link, and as long as it is there it is pending on that link, or its
client has gone, or the link is over. Two commands of one correlation are therefore
never both under way on a link with somebody waiting for the second.

`NoneForgottenAlways`, `CommandsGoOnAlways` and `StopGoesOnAlways` are the safety that
`CommandsEnd` and `StopEnds` rest on. `NoneForgotten` says that a command whose entry
is in the table, or its result, is on its way by the call it was sent on, unless that
call is cancelled or lost: `server::reply` compares tokens and only returns false
if the stream is not the registered one, and that must not leave a client waiting. Its
strengthening `ClearInv` says of a call that is neither cancelled nor lost that once
the Gateway has heard of its registration, or is about to, its stream is open and is
the registered one. Registration therefore has to come before the answer is queued, and
whoever takes the place of a stream has to stop it. `LinkWaits` and `CommandWaits`
carry this to the waits: an open link reads, so a lost call is noticed; the control
loop waits only for a link it has stopped; a client that waits has an entry. What
a waiting client or `driver::stop` waits for then has a step that the reactors, gRPC or
Message take by themselves (`Moving`).

### `DeliveryProofs`

From `DeliveryConstants`, for every finite set of connections, every set of envelopes
and all sizes and limits:

- `ResendIsDueAlways`. `DeliveryInv` says that a number has one entry, whose body is
  due and was queued as often as its attempts say; `Frames` that what is on the wire
  is an envelope.
- `AccountedAlways`: the counters that `send`, `write_loop`, `send_reliable`, `retry`
  and `acknowledge` keep by hand are the sums over what the connection holds, the
  counts stay within the limit, so that the unsigned differences do not wrap, and the
  shard's two budgets are never exceeded. `QueueInv` and `TableInv` are the books of
  the write queues and of the tables. Besides the sums they say that a frame is on the
  wire only while the writer is busy, so that a writer that starts takes its first frame
  from the queue and gives nothing back. `DeliveryInv` says that an entry holds as many
  units as its body is long, which is why a replacement may take the difference only.

A sum over a finite set is defined by recursion, and what it does when an argument
comes, goes or changes is proved first (`SumSplit`, `SumChange`, `SumRenamed`):
`SumIs` shows that the sum of `f` over `S` is the cardinality of a set with `f[x]`
members for each `x`, by taking the smallest set for which it were not.

### `GroupProofs`

About `ConversationService`, so groups, friends and receipts on the same tables; from
`RequestConstants`, `TablesConstants`, `FriendConstants`, `GroupConstants` and
`ReceiptConstants`.

- `RosterIntactAlways` and `AnsweredOnceAlways`. `Decided` is what makes them
  inductive: a request that was let through holds the group's row, and what it found
  is still so. `Fresh` says that a group does not exist before the request that
  creates it has ended.
- `SplitOnlyByOverlapAlways`. `CopiesInv` says of a pair without overlap that at most
  one request is between its two statements, and what the copies then are
  (`HalfDone`); a request that was given up there is remembered as an overlap.
- `ReadReportedOnceAlways` and `PositionsOnlyGrowAlways`. `ReceiptInv` says that a
  running receipt holds the row of its conversation, so that whether it turns the
  message is still so when it commits (`Acking`), that two users have a state of
  their conversation exactly from their friendship on (`Friendly`), and what a
  message stored as read implies (`ReadIs`): it was reported, or the receipt that
  turned it lost its answer, and never both.
- `NobodyStuckAlways` and `RequestsAdvanceAlways`, the safety that `RequestsEnd` rests
  on. Requests take the row of a group and then the rows of its conversation; only a
  receipt that is to commit next holds one of the latter (`WaitInv`), so there is no
  cycle, and a shard's connection is never kept by a request that waits for it.
  `Granted` says besides that who is being kicked is not the master, without which a
  `kick` would be left with no step to take.

### `AccountProofs`

`OneCodePerChangeAlways`, `SignUpsAgreeAlways`, `CodeEndsOnItsOwnAlways` and
`OldPasswordIsOverAlways`, from `RequestConstants` and `AccountConstants`.
`CodesSold` says that a stored code has been bought by nobody and none has two
buyers, `Progress` what each stage of a request presupposes (one about to change an
account has bought a code of its address), `Told` that a lost request was answered
with a failure, `Paid` that every row was paid for. `FateInv` ties the attempt
counter of an address to the tries of the code that is stored there. `PasswordInv`
says that the row of a name, and a sign-in that got past the comparison, keep to
what the resets that had succeeded left.

### `EngineProofs`

`HeardOnceAlways` and `QuietWhenDrainedAlways`, from `EngineConstants`. `Tabled` is
the strengthening for the first: an attempt in `_connections` has its coroutine under
way and was not cancelled, so that the timeout, the completion and `CancelConnect`
exclude each other; `Lost` says that an attempt that ended without a word was neither
cancelled nor expired, and is over. `CountInv` is that for the second: each counter the stop reads is
the cardinality of what it counts at every moment (`Counts`), and what no counter
counts was emptied when the engine closed (`Stopped`).

`StopGoesOnAlways` and `StopOnlyEndsAlways` are the safety that `DrainEnds` rests on.
The first says that a stop that has not returned has a step of those that `Fairness`
names: `WakeInv` finds for everything that waits somebody who wakes it (an attempt has
its timeout armed or its descriptor shut, the descriptor of a destroyed endpoint or
listener is shut, a lookup has an open channel), and when nothing waits and nothing is
left, the counters, being exact, are 0. The second says that after the release every
activity only goes towards its end and no object comes or comes back.

### Only model-checked

- All liveness (`StopTerminates`, `SupersededIsClosed`, `SendsEnd`, `StoredIsPulled`,
  `CommandsEnd`, `StopEnds`, `PushSettles`, `UploadEnds`, `RequestsEnd`, `DrainEnds`)
  and the fairness part of the refinement `ImplementsOperationQueue`: temporal
  reasoning from fairness and `ENABLED` are out of the prover's reach. For `SendsEnd`,
  `RequestsEnd` and `DrainEnds` the safety they rest on is proved: somebody can always
  move, and every move is one towards the end. For `CommandsEnd` and `StopEnds` the
  first half of that is proved: whoever waits, waits for something that can move. That
  a guard named there makes the step possible is read off the action.

Every other property that a passing run checks is proved.

## What could come next

- `FileTransfer`: expiry, and the messages that cite a file.
- A composition of `CommandLink` and `MessageStore`: a command's answer and its row.

## Not modelled

- The MySQL and Redis drivers of `common/reactor/`. The models use their contract:
  an operation succeeds, fails, or loses its reply, one at a time on a connection.
- Of the gRPC engine: the status a callback is given, address parsing, c-ares' own
  timer, and the process-wide initialize and shutdown; and a `Connect` that gets no
  descriptor: the exception leaves a `noexcept` task of gRPC and ends the process.
- Redis failover through Sentinel: a failed call stands for it.
- SMTP, HTTP parsing, packet codecs, configuration, logging, TLS: no state that a
  property here tells apart.
- State beyond the node list and the Gateway it hands out.
- Heartbeats of a link: they change nothing.
- File service admission and shutdown, short and torn writes, expiry of files.
- Rate limits and the validation tables of the Gateway: checks of one request.
- The order in which a send and a receipt lock the rows of a conversation and of its
  states: a send inserts the states and then locks the conversation, a receipt the
  other way round. `MessageStore` has no rows of states, and in `ReceiptStore` a send is
  one step. InnoDB fails one of two that wait for each other, which the models have as
  a failed call.
- Pulls of friends and groups, which only read; `delete_friend` and
  `update_user_info`, which nothing calls.
