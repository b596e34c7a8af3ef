# A TLA+ verification of the COS C++ SDK

This directory models the Tencent Cloud COS C++ SDK (v5): the multi-threaded download and
upload, the handler that an asynchronous operation shares with its users, the retry loops of
single requests, the resumable upload and download, copies, moves and directory operations,
the DNS cache and the task manager that all asynchronous calls share, and the documents that
requests and responses carry. TLC checks the models on small instances; TLAPS proves every
safety property that holds, for instances of every size, and of most liveness properties the
part that is about single steps. Paths such as `object_op.cpp:2042` are those of the
repository (`src/op/object_op.cpp` and so on).

Contents: [1 the system](#1-the-system) · [2 the modules](#2-the-modules) ·
[3 the runs](#3-the-runs) · [4 fairness](#4-fairness) · [5 the proofs](#5-the-proofs) ·
[6 what the code gets wrong](#6-what-the-code-gets-wrong) ·
[7 what is not modelled](#7-what-is-not-modelled) · [8 the plan](#8-the-plan)

## 1. The system

A user calls `CosAPI`. Every call is forwarded to `ObjectOp`, `BucketOp` or `ServiceOp`;
most are one request and one response (`BaseOp::NormalAction`). What is hard in this
library is the transfer of objects:

```
 user threads                one thread of the task manager           pool_size + 1 threads
 ------------                ------------------------------           ---------------------
 AsyncContext  --Cancel-->   ObjectOp::GetObject / PutObject
   Wait/GetResult            ObjectOp::MultiThreadDownload  --start-->  FileDownTask::run
        ^                    ObjectOp::ResumableGetObject   <-release-    |
        |                    ObjectOp::MultiUploadObject                  |
        +-- TransferHandler <---- UpdateStatus, UpdateProgress            |
                                    |         |                           |
                              task file,   BaseOp retry loop,   <---------+ HttpSender
                              checkpoint   backup domain, DNS cache       |
                              (local disk)                              COS server
```

| component | state it keeps | operations | what is hard | what makes it correct |
|---|---|---|---|---|
| Transfer window: slots, `Semaphore`, `Poco::ThreadPool` | a status per task, `count_`, the busy threads | acquire, release, wait, start, run, reset | a task is marked done before it releases its unit, and releases it before its thread is back in the pool; one that throws does neither | a slot has one user at a time; the count is that of the units in use and those lost with a slot; nobody waits for nothing else |
| `MultiThreadDownload` | offsets, one buffer per slot, the local file | fill, wait, process, join, sweep, finish | slices complete in any order; failure and cancel while workers run; one buffer is reused for many slices | each slice lands at its place once; COMPLETED means all of them; no worker outlives the buffers |
| `MultiThreadUpload` | part numbers, buffers, `part_etag_map`, `part_crc64_map` | the same, with resumed parts | resumed parts take no unit and no thread; reading fails; the file shrinks | etags and CRCs are recorded under the part they are of; no part is sent twice; a success lists every part (it does not when a task threw: section 6) |
| `TransferHandler`, `AsyncContext` | `m_status`, `m_result`, `m_cancel`, progress | `UpdateStatus`, `Cancel`, `WaitUntilFinish`, `GetResult` | several layers report an end; result, callback and status are three steps, partly without the lock | whoever waited reads the verdict; the verdict stands; everyone who waits returns |
| Retry policy, backup domain | the attempt, the domain | `NoNeedRetry`, `ShouldChangeBackupDomain` | off by one in the attempt that may change the domain | a cancel prevails, also one that went unnoticed; the last attempt uses the backup |
| `DownloadAction`, `UploadAction` | the stream's position, progress, the answer | attempts of one request | what a failed attempt leaves in the stream; lost answers; objects that change between attempts; writes that fail | a success is one version of the object, whole; each attempt sends all |
| Resumable upload | the checkpoint file; upload ids and parts at the server | load, validate, list, init, save, transfer, complete, remove | crashes between any two steps, edits within a second, a file that is cut, a changed part size, expired upload ids, listings that break off | a COMPLETED call that can tell what it resumes, or compares the CRC-64, has uploaded the file as it is; restarts do not feed themselves |
| Resumable download | the task file, the local file, its contiguous offset | head, validate, open, transfer, truncate, save, compare, start over | `O_APPEND`; holes and old task files after a crash; another window in each call; objects overwritten in between | COMPLETED means that the file is the object; a client that calls again gets there |
| `Copy`, `MoveObject`, `FileCopyTask` | batches of copy tasks, the upload at the server | head, init, batch, join, complete, abort, remove | ranges whose end is included; a batch that fails in part; a source that is replaced meanwhile; lost answers | a copy has no gaps; what a failed copy leaves is explained; a move loses nothing it has not copied at some time |
| Directory and prefix operations | the list of what was done so far | loops over listings and over a local directory | a step in the middle fails; a listing is repeated at the backup domain; others put keys | what the call reports is what it did |
| Plain requests | none | one request each | a request is sent again although the server has carried it out | effects are explained by the answers |
| Requests and responses as documents | members, bit masks, vectors | setters, getters, `GenerateRequestBody`, `ParseFromXmlString` | setters in any order, bits and members that are mixed up, options dropped, objects used twice | what is set arrives, what is answered is shown |
| `SimpleDnsCache`, `LruCache` | an LRU list, an index into it, stamps | resolve | an entry expires for several threads at once; eviction and re-insertion; a cache without room | no address is older than the expiry; the cache is an LRU map |
| Task manager | the busy threads of one global pool | start, return | it has no queue; exceptions end in it | who waits for an accepted call of one request learns of its end; one in many parts may end without a status |
| Client life cycle, configuration, signatures, digests, headers and parameters | process-wide values | set, get, compute | little | not modelled |

`PROJECT.json` lists all components with their files, and under `hazards` every place where
this code can go wrong in a way that a test would hardly reach, with the properties that
guard it.

## 2. The modules

```
 TaskPool ---------+--> MultiDownload --> MCMultiDownload      SliceTransfer  (abstract)
                   +--> MultiUpload   --> MCMultiUpload        Completion     (abstract)
 RetryPolicy ------+--> DownloadAction --> MCDownloadAction    RecencyMap     (abstract)
                   +--> UploadAction   --+
 ResumableDownload ----------------------+--> MCTransfers
 TransferHandler -----> MCTransferHandler      ResumableUpload --> MCResumableUpload

 RetryPolicy --> NormalAction --+--> CopyObject ----+
                                +--> PrefixOps -----+--> ObjectCalls ----+
                                +--> PlainRequests -+                    |
                 Accessors -----+--> Documents -----+                    +--> MCObjectCalls
 Accessors --+-> AuditingAccessors -+                                    |
             +-> BucketAccessors ---+--> DocumentTopics -----------------+
             +-> ObjectAccessors ---+    (values of the constants of Documents)
             +-> JobAccessors ------+
 LruCache --> DnsCache --+--> AsyncCalls --> MCAsyncCalls
 RetryPolicy ------------+

 TaskPoolProofs --> MultiDownloadProofs, MultiUploadProofs
 AsyncProofs (TransferHandler, AsyncCalls)         UploadProofs (UploadAction, ResumableUpload)
 DownloadActionProofs     ResumableDownloadProofs  ObjectCallsProofs
```

### Transfers with threads

**TaskPool** is the workers' side of a windowed transfer. A slot's `status` is
`TaskInfo::status`, `count` is `Semaphore::count_`, and `wpc[t]` says where the pool
thread `t` is between `ThreadPool::start` and its return to the pool. `run()` is four
steps: begin (which sets RUNNING again), the request with the store of COMPLETED,
`release()`, and the return to the pool. `StartRefused` is the same `start()` when no
thread is free: Poco throws. `TaskThrows` is a task whose name lookup throws
(`file_download_task.cpp:116`, `file_upload_task.cpp:248`): the exception leaves `run()`, its
slot stays RUNNING and its unit is never released. Such slots, and one whose task was refused
a thread, are `Abandoned`.

**MultiDownload** is `ObjectOp::MultiThreadDownload`. `mpc` is the main thread's place:
`begin`, `loop`, `fill`, `wait`, `process`, `join`, `sweep`, `finish`, `done`, `thrown`.
There is an action for each branch of each loop: `FillSkip` passes a slot that is not
IDLE, `FillStart` gives slice `offset` to slot `i`, `ProcessWrite` is seek, write and
reset. A slice's content is its number, so `file[k] = k` says that slice `k` is in its place.

**MultiUpload** is `ObjectOp::MultiThreadUpload` with the same places. In addition
`exist` is `already_exist_parts`; the local file may shrink (`SourceShrinks`), so that a
read returns a piece of a part or nothing; and `etags` and `crcs` are the two maps that
`CompleteMultiUpload` and the CRC-64 comparison are built from.

**SliceTransfer** is what both promise, without threads: slices are delivered once each, or
forsaken, and one verdict is given, COMPLETED only when none is left. Both transfers are
shown to implement it (`ImplementsSliceTransfer`): the download forsakes nothing, the upload
the parts whose tasks threw or were refused a thread.

**TransferHandler** is `TransferHandler` with the five operations that `CosAPI::AsyncXxx`
start. `UpdateStatus` is three steps, as in the code: the result is stored, the done
callback runs, and the status changes and wakes the waiters under the lock. The operation
side has an action for each report that `ObjectOp` makes, in the order it makes them
(`MultiThreadUpload` reports an end, and then `MultiUploadObject` another). Waiters loop
over `wait()` and may wake for no reason. **Completion** is its abstract promise.

### Requests

**RetryPolicy** is `BaseOpUtil`'s two decisions as operators over a `CosResult`
abstracted to its class of HTTP status and whether a request id came with it.
**DownloadAction** and **UploadAction** are the retry loops around `HttpSender`, chunk by
chunk: where the stream stands, what the progress shows, what the server has stored. A write
to the user's stream may fail (`bad`), of which nobody is told.

**NormalAction** is the loop for every request that has no stream. `Reads` and `Changes`
are one attempt of a request that asks or changes something: the server may carry a change
out and its answer be lost, and the loop sends it again. `trouble` counts the attempts to
change something that were not answered well; the properties of the calls are bounds in it.

**PlainRequests** has, as tables that follow the files, each operation of `BucketOp` and
`ObjectOp` that is one request: whether it changes something, and whether it can fail before
anything is sent. A server may refuse a repetition or carry it out again (`once`).

**CopyObject** is `Copy` and `MoveObject`. `tasks` is a batch of `FileCopyTask`s, each with
its own retry loop; `Collect` is `joinAll` with what follows it; a part is the range it
covers and the version the source then had. `ReportTask` is the read of a deleted task:
the result is any failure, or the process dies.

**PrefixOps** has `DeleteObjects` by prefix, page by page and key by key, with the second
listing at the backup domain whose answer is thrown away, and `PutObjects` over the entries of
a directory.

**ObjectCalls** puts these together: a behaviour is one call of any of them, or one exchange
of a document.

### Documents

**Accessors** is the shape that most of this library's code has: a class with members and
a bit mask, the setters and `Has` functions over them, a writer that emits elements and a
reader that goes through them. Values are opaque; a class is a record of tables (which bit
a setter sets and a `Has` function tests, which member a setter stores and a getter
returns), a reader says which setter it calls for which element, and a writer which
getters it asks, which fields it refuses to do without and which elements it drops.
**AuditingAccessors**, **BucketAccessors**, **ObjectAccessors** and **JobAccessors** are these
tables for some 160 classes, translated from the headers and from the code that writes and
reads them; where a class deviates from the pattern the table says so. **DocumentTopics** pairs
them: which request or answer has which writer and which reader, and which of its fields the
code mixes up. **Documents** is the
protocol around them: the user calls setters, in any order and again; the request is sent,
perhaps twice; others change the document; the user asks, perhaps twice with the same
response object. `confused` names the fields the code itself mixes up (listed in
section 6); `DocumentsAgree` claims nothing of those and everything of the others. The module
knows no class of the SDK: `Topics` and `Parts` are constants, and `TopicsAssumption` says what
is true of every field that is not confused (its setter, its `Has` function, its getter, its
element and its reader belong together, and no other setter touches its bit or member).
`MCObjectCalls` gives the constants the SDK's own tables, so TLC evaluates the assumption for
each class; a table that hid a mix-up would be refused before the first state.

### Resumable transfers

**ResumableUpload** is `MultiUploadObject` and `UploadObjectResumableSingleThreadSync`
over many calls of one client. Between calls live the checkpoint file, the local file
(version, modification time), and at the server the upload ids with their parts and the
object. A part's content is the version it was read from and the range it covers, in units
that all part sizes are multiples of: the number of parts, the length of the last one and the
comparison of sizes when parts are listed follow from the part size at hand. A call may or may
not check the CRC-64 (`checks`; it does so only after `SetCheckCRC64(true)`), and parts whose
tasks threw are in `lost`; a call may then wait for ever (`hung`).
`touched` and `hidden` are history variables: whether the file was edited during the call,
and whether an edit has ever left the modification time as it was. `modes` is the kind of
client: one that keeps a checkpoint directory, or one whose calls also use the legacy
listing or resume nothing. `FileEndsEarly` is the end of a file that is short while it is
rewritten, which `SingleThreadUpload` takes for the end of the upload.

**ResumableDownload** is `ResumableGetObject` over many calls. `file` is the local file,
`task` the task file, and `crc` the contents over which `crc64_local` has been computed,
so that its length is `resume_update_offset`. `Write` is where the two ways of opening
the file differ: at the slice's offset after `O_TRUNC`, at the end of the file after
`O_APPEND`. Each transfer has a window of its own, as the code computes it from what remains.
The history variables say whether a call could not note how far it was (`unsaved`: a crash, or a
task file that could not be written) and whether one resumed with more than one slice at a time
(`appended`).

**MCTransfers** puts the resumable download and the upload in one request side by side in one
run; a behaviour is of one of them (`subject`), and the other stays where it began.

### The process

**LruCache** is the list and the index of `LruCache`, down to the iterators: a node that was
erased may be allocated again, so that an index entry that was not removed would lead to
another key's value. A cache without room (`SetDnsCacheSize(0)`) drops the entry just put and
keeps the iterator of the list's end for the key (`AtEnd`): what its next use does is undefined.
**RecencyMap** is what a cache with room promises. **DnsCache** is
`SimpleDnsCache::Resolve` by many threads, with time, an expiry and addresses that change; at an
iterator of the end it throws, which is taken for a miss (`ResolveAstray`), or the process dies.
**AsyncCalls** adds the calls that share the cache: they start on the task manager's pool,
which refuses when it is full, resolve a name for each attempt, end with a final status, and
come back to the pool; an exception of the name server ends with the `Poco::Task`. The calls in
`MultiPart` make one request after another and may also end with an exception of their own pool
(`PartRefused`) or wait for ever for a part whose task threw (`PartLost`): `MultiDownload` and
`MultiUpload` show how, and here they only hold a thread and the cache, or never give it back.

`PROJECT.json` maps each definition to the lines it models. Operators commented
"Mutation:" are wrong variants of a definition; each shows that a property fails when the
code is changed that way, and no specification uses them.

## 3. The runs

Every run checks for deadlock too: a transfer, a waiter or a client can only stop where the
model has a `Done`, `Ended` or similar stuttering step.

| run | instance | what it shows |
|---|---|---|
| `download` | 2 slots, 3 threads, 4 slices; 90 746 states | `DataIntact`, `CompletedMeansWhole`, `NoWorkerAtReturn`, `ImplementsSliceTransfer`, `Terminates`: whatever the interleaving and whichever tasks throw, a COMPLETED download is whole, and every call ends unless a task threw |
| `upload` | 2 slots, 3 threads (symmetric), 4 parts; 1 571 589 states | `SemaphoreExact`, `RecordsTrue`, `CompletedMeansWhole`, `SentOnce`, `ImplementsSliceTransfer`, for every set of resumed parts and whichever tasks throw |
| `upload_task_throws` | 2 slots, 3 threads (symmetric), 2 parts | **violated:** `EveryPartListed` |
| `download_pool` | as `download` | **violated:** `PoolNeverExhausted` |
| `handler` | 2 users, all 5 operations; 1 996 states | `ReadersLearnTheVerdict`, `CallbackComesFirst`, `ReportsAgree`, `ImplementsCompletion`, `WaitersReturn` |
| `download_request` | 3 attempts, 2 chunks, 2 versions of the object; 111 384 states | `SuccessIsOneVersion`, `SuccessShowsAll`, `LastResort` |
| `resume_upload` | a file of 3 units in parts of 1 or of 2, 2 faults, 4 upload ids, both kinds of client, both functions, with and without the CRC-64; 1 001 040 states | `CompletedIsLocal`, `RestartsBounded`, `SingleStartsOver`, `InstallsWhole`, `EventuallyUploaded` |
| `resume_upload_restart` | 2 faults, 3 upload ids | **violated:** `MultiStartsOver` |
| `transfers` | 3 slices, a window of 1 or of 2 in each call, 3 faults; 3 attempts, a stream of 3; 25 335 states | of the resumable download `FreshIsObject`, `RedoneIsObject`, `CompletedInOrder`, `RedoExplained`, `DownloadEnds`; of the upload in one request `AttemptsSendAll`, `CancelIsFinal`, `CancelPrevails` |
| `resume_download_append` | 3 slices, a window of 2, 2 faults | **violated:** `CompletedIsObject` |
| `objects` | 2 attempts; sources of up to 6 units in 2 versions, parts of 1 unit, batches of 2 and 3; 3 keys in pages of 2; directories of up to 3 entries; documents of up to 2 elements; 743 742 states | `CopyIsWhole`, `EffectsExplained`, `DeletionTrue`, `PutReported`, `DocumentsAgree`, `Returns` |
| `process` | 2 calls, 3 hosts, 2 cache entries or none, 2 addresses, pools of 1 and 2, one call in many parts; 524 770 states | `AddressRecentlyTrue`, `ImplementsRecencyMap`, `RoomLearns` |

**Why the bounds are enough.** A window needs two slots for completions to overtake each
other and more slices than slots for a slot to be used again; `Threads` has the
`pool_size + 1` members that the code gives the pool. The proofs then remove these bounds.
Three attempts are the fewest with a first, a middle and a last one; the calls in `objects`
have two, of which any may be lost. Two chunks let an attempt break in the middle, two
versions let the object grow or shrink. A file of three units is three parts of one size or two
of the other, the last one shorter; two faults make an interrupted call and then something that
goes wrong with its remains; `MaxIds` only has
to leave room for a restart after each fault, and `RestartsBounded` shows that a client with
checkpoints needs no more. Three slices give a contiguous prefix, a hole and a slice beyond
it, and three faults a crash, an overwrite and a failure in one history.

The upload whose task throws needs no more than two parts, one of which is missing. In the
resumable download the window is drawn again in each transfer, so that a call out of order may be
followed by one in order.

In `objects`, a part of one unit covers two bytes because its end is included, so that six
units make three parts, two batches of two, a batch that fails in part and a pool that is too
large (`MaxThreads` is 2). Three keys in pages of two make a truncated page and a last one.
Two elements, or two setters, are what it takes to overwrite, to grow a vector and to lose a
bit of another field; the fields without which nothing is sent come in addition. In
`process`, three hosts overflow a cache of two entries, one change of address with two ticks
of the clock makes an entry that is wrong and one that has expired; the expiry is 0, so that
an entry is fresh only within the second. A pool of two refuses nobody when there are two
calls: what a full pool does is seen with a pool of one, which Poco refuses to make at all. One of
the two calls is in many parts. The behaviours of a cache without room are those of an instance of
`AsyncCalls` with `MaxEntries` 0 (`room` says which); addresses do not move in it.

**Types.** That the variables have their types is proved of every module with a specification
(section 5) and not checked by a run: `TypeOK` of the transfers, the handler, the requests and
the resumable transfers, `AsyncTypeOK` of the process, and the typed parts of the calls'
invariant. So are `SlotExclusive`, `InFlightOnce` and `FinishIsFinal`.

## 4. Fairness

* **Windowed transfers:** weak fairness of the main thread and of every pool thread in the
  run `download`. The operating system schedules both, and a task ends because connecting and
  receiving have timeouts and retries are bounded. Nothing is assumed about which outcome a
  request has, and a cancel is never obliged to come; a task may throw, so `Terminates` leaves out
  what the code then does (section 6). The run `upload` assumes no fairness.
* **Handler:** weak fairness of the operation and of each user that waits. A spurious
  wake-up is not fair, so `WaitersReturn` cannot lean on one. That the operation itself goes on is
  an assumption of this run: the runs `download_pool`, `download` and `process` show when it does
  not (a pool that is exhausted, a task or a name lookup that throws).
* **Resumable transfers:** weak fairness of the step of the call as a whole (in `transfers`, where
  the behaviour is of the download, of the step of the thread and of that of a request): the thread
  runs, each request ends, and the client calls again until it has succeeded. Faults are
  bounded, never fair: after the last one nothing goes wrong any more. Liveness is what
  the code owes to such a client: no combination of leftovers may make every further call
  fail. A call in which a task threw may hang; the properties say "unless".
* **Calls (`objects`):** weak fairness of the caller's thread, except in a behaviour about a
  document, where the user need not go on; and strong fairness of a listing that is answered
  by the default domain. The second is an assumption about the server, and the code needs
  it: as long as only the backup domain answers, `DeleteObjects` by prefix may go round with
  the `is_truncated` of an earlier page.
* **Process:** weak fairness of each call of one request, with a cache that has room; none of the
  calls in many parts, which may wait for ever. Time and addresses need not move.

## 5. The proofs

Eight modules hold theorems; TLAPS checks all of them (some 11 000 obligations), and they use
only the assumptions on the constants that the modules state: `PoolSize` is a positive
natural number, `Threads` has `PoolSize + 1` members, hosts and addresses exist, `Backup` maps
hosts to hosts, the tables of classes are those that `TopicsAssumption` admits (TLC evaluates
it for all of the SDK's), the other bounds are naturals, some of them positive. Every theorem below
is about all behaviours of the module's specification. Those of `AsyncCalls` have one hypothesis
more, `HasRoom`: a cache of size 0, which the code accepts, is in the model and in the run, but
nothing that is proved would be true of it.

**TaskPoolProofs** has what each operation of the pool does to `SlotExclusive`,
the count, for use by both transfers. The count is the sum of two cardinalities, that of the
threads that hold a unit and that of the abandoned slots (`CountExact`); the lemmas reduce each
step to adding, removing or keeping one thread or slot, and `TaskThrows` to moving a unit from the
one set to the other. `ThreadWork`, the steps the pool's threads
have left, is a sum of such cardinalities.

**MultiDownloadProofs** proves `Spec => []IInv` and from it `TypeOK`, `SlotExclusive`,
`SemaphoreExact`, `InFlightOnce`, `DataIntact`, `CompletedMeansWhole`, `NoWorkerAtReturn`, and
the refinement of `SliceTransfer`. The properties are not inductive: `CompletedMeansWhole`
speaks of the end, and what makes it true is `Accounted`, that each slice below `offset` is in
the file or in flight. That needs `InFlightMissing` (a slice in flight is not in the file),
`InFlightOnce`, `BuffersFilled` (the buffer of a finished task holds the slice its slot was
given), `SlotExclusive` (nobody refills it meanwhile), `SemaphoreExact` (the loop is left with a
count of 0, so no slot is abandoned) and `PlacesOK` (what is known at each place of the main
loop). These conjuncts are `IInv`. The main thread's steps that touch no data are proved in one
lemma, and the others one by one.

`Terminates` itself is liveness and stays with TLC, but two theorems say what it rests on.
`NobodyWaitsForNothing`: when `Semaphore::wait()` blocks, a thread of the pool holds a unit and
has a step to take that brings it back, or every slot is abandoned. `WorkRunsOut`: `Work`, five
steps for each slice not yet handed out and those the pool's threads have left, is a natural
number that no step increases and that each start and each step of a worker decreases. So
workers act only so often, and each wait is for one of them.

**MultiUploadProofs** does the same for the upload, with `InFlightSound` and `AnswersSound` for
buffers and etags, `ServerSound` for resumed parts, and the piece of a part that a shrinking
file leaves. The upload's loop ends when the file does, whatever the count is, so an abandoned
slot may be left: `CompletedMeansWhole` and the refinement except its part. It also proves
`SentOnce` (a part in flight is neither resumed nor recorded, and with one thread), and
`NobodyWaitsForNothing` and `WorkRunsOut` for the upload: resumed parts take no unit, so a round
of them must not make the main thread wait, and a part in which the file is cut is read in two
pieces, which `Uncut` counts.

**AsyncProofs** is about what all asynchronous calls share.

*The handler.* For every set of users it proves `ReadersLearnTheVerdict`, `CallbackComesFirst`,
`ReportsAgree`, `FinishIsFinal` and the refinement of `Completion`. Its `IInv` ties the result
stored to the operation's place and to the report it is in: after the first final report,
each further one finds a final status. Of `WaitersReturn` it proves the two parts that are
about steps: `NobodySleepsOn`, that nobody is asleep once the status is final (the test and the
sleep are one step under the lock, and so are the change and the notification), and
`OperationsRunOut`, a measure of the stages and reports still to come that each step of the
operation's thread decreases and no user's step increases.

*The calls and the pool.* `PoolNeverOverfull` says that the calls with a thread never outnumber
the pool's, `StatusesAreKept` that a handler is final exactly when its call has finished, never
while an attempt is due and never after an exception. `CallsRunOut` is the provable half of
`RoomLearns`, for the calls of one request: `Left(c)` counts the places of a resolution and the
attempts still allowed; each step of the call decreases it, nobody else changes it, and it is 0
only when the call is over.

*The cache.* For every set of callers, hosts and addresses, every expiry and capacity but 0 it
proves `AddressRecentlyTrue` and `ImplementsRecencyMap`. `CacheSound` says that the list and the
index are in step: every index entry is a node of the list that holds its key, no node holds a
key that is not in the index, no key is there twice, and the list is within its capacity; with
room, no index entry is the end of the list (`NeverAtEnd`). The lemmas on `Get` and `Put` of
`LruCache` show that each keeps this, whichever node the allocator hands out, and what it makes
of the list; from these the steps of `RecencyMap` follow. Stamps need more, because a call takes
its time before it asks the name server and stores the answer after others may have stored
theirs: `AnswersTrue` says that an answer on its way was right when its call began or later,
`EntriesTrue` says it of each entry and its stamp, and `TimesSound` that nothing is stamped in
the future.

**DownloadActionProofs** proves `SuccessIsOneVersion`, `SuccessShowsAll` and `LastResort` for
every number of attempts, length and number of replacements. What has to be invariant is that
the bytes of the current attempt lie from the start of the stream on and are of the version
that answered it (`ReceivedSound`, `AnswerSound`), whatever longer attempt lies beneath;
and that progress and total belong to the same attempt. An attempt one of whose writes failed
(`bad`) is excepted.

**UploadProofs** has the upload in one request and the resumable one.

*One request.* `AttemptsSendAll` and `CancelIsFinal` follow from `AttemptSound`: what an attempt
has read of the stream is what it has sent. `CancelPrevails` is about all that follows an attempt
that begins after a cancel: each such attempt stands at the start of its stream and is cut before
its first piece, so the server never gets it whole; the prover joins the steps by temporal logic.

*Resumable.* `CompletedIsLocal`, `SingleStartsOver` and the action property `InstallsWhole` are
proved for every length of the file, set of part sizes, number of faults and upload ids. A
checkpoint carries the modification time at which its upload began, so each part under its
upload id is of that version or a later one (`ServerSound`). If the time is still the file's and
no edit has hidden itself, what a call resumes is what it would read (`PartsSound`); that is
`Tells`, and it also needs that no call without a checkpoint has sent parts of another size to
the same upload id. The CRC-64s are of the file in any case (`CrcsSound`), so a call that
compares them needs no such condition to be COMPLETED; one that does not, the default, needs it.
Parts whose tasks threw (`lost`) are excepted. An object with parts missing needs the end of a
file that was edited during the call, in the single-threaded upload (`PlacesSound`).

*Restarts.* `RestartsBounded`, that a client with checkpoints opens one upload and at most one
more for each fault, is a count along the whole history and far from inductive. `RestartSound`
says at each place how many uploads may still be opened before the faults there were are used
up (`Spare`). A call that has not opened one yet may need one, and a second one if the file was
touched since it began; a call that has opened one needs none as long as it is `OnTrack`. That
it leaves this track only by a fault is the heart of the proof: the parts it lists are the
file's, or the server has none there and will refuse (`PartsTold`), and a checkpoint it leaves
behind is one that the next call resumes (`Resumable`).

**ResumableDownloadProofs** proves `FreshIsObject`, `RedoneIsObject` and `CompletedInOrder`. A
call that does not resume writes each slice at its place, so a CRC-64 of the buffers that
agrees is one of the file; a call that resumes appends, and its file is what the CRC-64 was
computed of as long as slices come in order. That appending keeps the file within its
length needs that the file's length and the number of slices written agree. `RedoExplained`,
that a download starts over only after a call that could not note how far it was, after one that
resumed out of order, or when the object was overwritten, is a claim about what earlier calls have
left, with any window in each. `KIInv` carries it from call to
call: file and CRC-64 grow together (`InOrder`), a task file that a call has opened with is of
the object that HEAD found (`TaskSound`), and beside a task file of the object lie slices of
the object (`KeptSound`).

**ObjectCallsProofs** proves `CopyIsWhole`, `EffectsExplained`, `DeletionTrue`, `PutReported` and
`DocumentsAgree` for every source, part size, pool, bucket, directory, number of retries and
table of classes. A behaviour is one
call, so the invariant has a part for each kind of call and one that tells which places belong
to which kind (`KindSound`).

* *Copies.* `PartsSound`: the parts that are listed, followed by those being copied, are one
  chain of ranges from 0 to `offset`, whatever batch each is in, and a part that was copied has
  the range of its task. So when nothing is being copied and `offset` is the size, what
  `CompleteMultiUpload` is given covers the source (`TargetSound`). The versions of the parts
  are not claimed: a source replaced meanwhile gives a mixture.
* *What is left.* `OpenSound` counts uploads left open and destinations made against the
  answers that were not good, at each place of the call: the upload in use is the one that is
  not paid for, and it is completed, aborted, or abandoned by an attempt that failed.
  `PlainSound` counts the effects of a repeated request.
* *Deletions.* `DeleteSound`: of the keys found, those not yet deleted are on the page or beyond
  the marker of the next one; at most one key is gone without being named, it is the page's
  first, and then an answer was lost. A success with keys left needs the listing whose answer
  is thrown away, before anything was deleted.
* *Directories.* `PutSound`: the entries put are those before the one at hand, which may itself
  be stored if an answer was lost.
* *Documents.* The invariant is `DocumentSound`, of its own. `AskedSound`: of each field the
  request object tells what the setters called on it said, the last value, or all of them for a
  vector. `ShownSound`: the response object tells of each field what the elements of all answers
  said. `StoredSound`: what the server has of this request is the document of the request object.
  What a document says is computed by recursive functions over its elements, so a lemma is needed
  for each of them (`ValuesOf`, the setters in turn, the emissions in turn, the elements read in
  turn): what it makes of a sequence with one element more. The library's induction theorems take
  an operator and are out of reach; the induction is instead over sets of numbers (`SetInduction`,
  from the well-foundedness of < and the existence of a least element), and `Recursion` shows in
  the same way that the functions exist at all, for a step given as a function.
* *Going forward.* `CallsGoForward` is the provable half of `Returns`: every step of a copy, a
  move, a directory upload or a single request brings the call to a later place, or, at one
  place, to another attempt, another entry, a later offset, fewer tasks or fewer tries of one
  task; steps of others change nothing in this. It needs that batches take at least one task and
  that no task tries more often than it may (`GoingSound`). A deletion by prefix is left out,
  because it is not true of it: with the listing repeated at the backup domain it may go round
  (section 4).

**Only model-checked:**

* all liveness (`Terminates`, `WaitersReturn`, `EventuallyUploaded`, `DownloadEnds`,
  `Returns`, `RoomLearns`), which is beyond the prover, fairness included; the theorems on
  measures above are about steps, and that a fair step is taken at all is left to TLC;
* that the tables of the SDK's classes satisfy `TopicsAssumption`: TLC evaluates it;
* that the runs of section 6 violate their properties: a counterexample is TLC's.

## 6. What the code gets wrong

### Runs that find a property violated

1. **The pool can be exhausted** (`download_pool`, `object_op.cpp:2042`, and `:2354` for the
   upload). The pool has one thread more than slots because, as the comment at `:2192` says, a
   worker may have released its unit and not returned yet. But two workers can be in that gap
   at once: the main thread refills both slots, the second `start()` throws
   `NoThreadAvailableException`, and nothing catches it. The operation reports no status, and
   who waits for it waits for ever. To the semaphore this is one more slot that is abandoned with
   its unit.
2. **A restarted upload is mixed with the one given up** (`resume_upload_restart`,
   `object_op.cpp:2318`). When listing the parts breaks off after its first page,
   `already_exist_parts` keeps them although the log says "will restart upload". The
   multi-threaded upload skips them under the new upload id, and `CompleteMultiUpload` refuses.
   `SingleThreadUpload` also looks at `resume_flag` and is right (`SingleStartsOver`). A call
   after the failed one recovers (`EventuallyUploaded`).
3. **A resumed download may be stored in the wrong order** (`resume_download_append`,
   `object_op.cpp:3132`). The file is opened with `O_APPEND`, so `lseek` before `write` has no
   effect and slices go where the order of completion puts them. The CRC-64 is computed from
   the buffers in the order of the offsets and agrees. Written in order, as with a window of
   one, the file is right (`CompletedInOrder`).
4. **A task that throws is lost with its slot** (`upload_task_throws`,
   `file_upload_task.cpp:248`, and `file_download_task.cpp:116` for the download). The host is
   looked up before every attempt, outside any `try`; when `hostByName` throws
   (`simple_dns_cache.cpp:47`), `run()` is left without TASK_COMPLETED and without `release()`,
   and Poco's thread catches the exception. The slot stays RUNNING, its unit is gone, and
   `task_fail_flag` is not set. The upload leaves its loop at the end of the file
   (`object_op.cpp:2370`), the sweep passes over the slot, and success follows (`:2415`) with the
   part missing from its list; the comment at `:2292` wants an explicit error where the object
   would be incomplete. `CompleteMultiUpload` then makes an object without the part. The download
   needs a count of 0 to leave its loop: it goes round until something else fails or the user
   cancels, or waits for ever when every slot is lost (`Terminates`).

### Other disagreements met while modelling

They are in the models, or excluded by name, and have no run of their own.

*Transfers and calls*

* A cancelled multipart upload ends FAILED when its parts noticed the cancel:
  `MultiThreadUpload` reports FAILED (`object_op.cpp:2419`) before `MultiUploadObject` reports
  CANCELED (`:1070`), and a final status is not replaced; the callback runs for both.
  `transfer_handler.h:72` says of CANCELED "Operation was canceled".
* `SingleThreadUpload` takes the end of a file that was cut for the end of the upload
  (`:2511`): the object is completed cut, its CRC-64 agrees, and the call succeeds.
  `MultiThreadUpload` fails there, and its comment at `:2292` says that this is to avoid
  incomplete objects. `InstallsWhole` states it of the multi-threaded upload.
* `transfer_handler.h:112` says of the progress that it "can not backwards"; when a retried
  object has become shorter, `SetTotalSize` and the clamp in `transfer_handler.cpp:58` lower it,
  and until the first byte it is above the total. An empty object never sets the total
  (`http_sender.cpp:419`). `SuccessShowsAll` states what holds.
* The bytes of a download are counted before they are written, and nobody looks whether the
  user's stream took them (`transfer_handler.cpp:227`): a write that fails ends in a success.
* The CRC-64 of a multipart upload is compared only after `SetCheckCRC64(true)` (`base_req.cpp:18`,
  `object_op.cpp:1100`). By default, an edit of the file within the second of its modification
  time makes a resumed upload a mixture of two versions that is reported COMPLETED.
* The parts of an upload id are vouched for by their size (`object_op.cpp:654`), and the legacy
  mode sends parts to whichever upload it finds. A checkpoint made with one part size, a legacy
  call with another that sends a part to the same id and fails, and the first size again: a part
  of the wrong range may fit by its size, and be installed (`Tells` excludes it, with calls without
  a checkpoint beside those with one).
* A DNS cache of size 0 (`cos_sys_config.cpp:303` takes it) evicts the entry just put and stores
  the end of the list in the index (`lru_cache.h:28`); the next look at the host is undefined.
* An asynchronous call in many parts may end without a final status, when its pool refuses a
  task, or never end, when a task threw; it then holds its thread of the task manager. Who waits
  for it waits for ever; `RoomLearns` is about the calls of one request.
* An error after the transfer, at `object_op.cpp:1127` among others, is reported as FAILED
  without a result, so that `GetResult()` returns what an earlier report left; `ReportsAgree`
  states what does hold.
* `Copy` reads its failed task after deleting it (`:1740`), and leaves the upload open when
  its thread pool cannot be made (`:1654`).
* A multipart copy drops `x-cos-metadata-directive`, and `CopyResp::CopyFrom` of a
  multipart copy sets the ETag's header and not its member (`object_resp.cpp:447`).
* `DeleteObjects` by prefix may report success with the objects still there
  (`cos_api.cpp:724`): it repeats a failed listing at the backup domain and does not look at
  the keys in the answer. `DeletionTrue` says exactly when.
* A pool of one thread for asynchronous calls cannot be made (`cos_api.cpp:18`), and a name
  that cannot be resolved leaves an asynchronous call without a final status
  (`simple_dns_cache.cpp:47`).
* `DeleteBucketReplication` uses the method "Delete" and `GetBucketWebsite` "Get"; what
  `ParseFromXmlString` returns is ignored by `BaseOp::NormalRequest`.

*Auditing*

* Three setters of `VideoAuditingJobsDetail` set bits that its `Has` functions do not test, and
  the `Has` functions of some fields of texts, documents and web pages test bits nobody sets.
* `ImageAuditingJobsDetail` stores `QualityInfo` as `TerrorismInfo`, returns a member of its
  base class for `UserInfo`, and has no getters for `ForbidState` and `ListInfo`.
* `LibResults` tests another bit than it sets (`auditing_req.h:279`), and its `Keywords` are
  never read, because the parent's name is compared (`auditing_resp.cpp:229`). `SceneResultInfo`
  keeps only the last of its `ObjectResults`. `UserInfo::GetRoom` returns the device.
* `SnapShotConf::SetTimeIterval` assigns the mask (`auditing_req.h:2674`): what was set before
  is not sent. `Conf::SetDetectType` uses the member of `BizType`.
* A request that creates a job writes "Callbcak" and "CallbcakVersion" and leaves out several
  fields; a batch writes "CallBack" and never appends `Freeze`.

*Buckets and objects*

* The bits of two `OptionalFields` of an inventory are swapped (`cos_defines.h`).
  `ForceReplacement` of a domain is not read. `ReplaceKeyPrefixWith` of a website is dropped
  without `KeyPrefixEquals`. `GetBucketObjectVersionsResp` has no getter for
  `NextVersionIdMarker`. Every child of an `Owner` in a listing of uploads makes an owner of its own.
* `SelectObjectContentReq::SetExpressionType` overwrites the SQL expression.
  `LiveChannelConfiguration` leaves two numbers uninitialised.
* Several readers use what `first_node()` returns without looking whether it is there.

*Jobs on media and documents*

* Written and read under different names: "Duration" and "Durtion", "Roo" and "Roi",
  "Background" and "Backgroud", "SlideConfig" and "SlidConfig", "DrumObject" and "Drum".
* `AnimateOnlyKeepKeyFrame` and `PaperSize` are not written; `IsHdr2Sdr` is written again as
  "Codec"; the fields of `HlsEncrypt` and `DashEncrypt` take the element's name for its value;
  the files of a `MediaResult` are never found; the queues of an answer are merged into one.
* `TimeInterval`, `RemoveWatermark` and `CallBackMqConfig` are dropped without a word unless
  they are complete (`data_process_req.cpp:819`).

## 7. What is not modelled

* **Bytes.** A slice or part is one value. A short `write()`, which the code does not notice
  (`:1970`, `:3132`), cannot happen in the models, nor can a short answer to a slice, which
  `file_download_task.cpp:128` accepts when the object has shrunk: the slot is filled whole.
* **Rewinding the user's stream** after a failed attempt is assumed to succeed.
* **The name lookups of part tasks** do not go through the cache of `AsyncCalls`: what they do to
  their transfer is `TaskThrows`, and the calls in `MultiPart` look up names for the whole.
* **An overwrite during `MultiThreadDownload`**: the object is fixed there, since the code notices
  nothing; the resumable download has it.
* **Objects that change their length** during a resumable download: their task file is invalid
  for one more reason. Files keep theirs in the resumable upload, but for the moment in which
  an edit leaves them short.
* **The order in which the server lists uploads**: any. `EventuallyUploaded` is about clients
  with checkpoints, because a legacy client could be given the wrong upload each time.
* **A cancel during the second download of a resumable call**: that download has no handler
  (`:3307`), so nothing notices it; in the model of the handler it goes on to its end.
* **Delayed requests.** A request that was lost is carried out before its successor or never.
* **Weak memory.** `m_cancel` and the task status are read and written as if each access were
  atomic and ordered; without the lock, the language does not promise it for all of them. The
  second report of a failed multipart upload stores `m_result` while a user, woken by the
  first, may read it: both say that the operation failed, and that is all the model's result
  tells; the message could be torn.
* **Documents.** Elements with children are opaque where they occur and have their tables in
  the class of their own, so that merging into an element that is there already is checked
  only in that class. What the user sets and what others set are separate behaviours. Values
  (numbers, encodings), documents that are not well formed, the answers to `PutLiveChannel`
  and to `ListBuckets`, and the fields listed in section 6 as mixed up are left out.
* **Headers and parameters** of requests: setters of strings, one entry each in a map.
* **The choice among several addresses** of a host, and what `ChangeHostSuffix` makes of a
  host name: `Backup` is any map that the instance gives.
* **Refinement with a hit:** `RecencyMap` promises the order of the last use, and a hit of an
  entry that is first already is a stuttering step.
* **Client life cycle** (a counter and two flags that nothing else reads), **configuration**
  (values that are constants or initial choices of the modules), **signatures, codecs,
  digests, strings, files, logging** (functions of bytes; a content stands for its own digest),
  and vendored code.

## 8. The plan

Done, in this order: the windowed transfers; the handler; the requests and the resumable
transfers; copies, moves, directory operations and plain requests; the DNS cache and the task
manager; the documents. Each of them has its proofs.

Left:

1. Bytes: `MultiDownload` with writes that may be short, to see which file a user gets. Only
   the CRC-64 of the buffers is compared, and only by the resumable download.
2. A transfer composed with the handler: `MultiDownload` with `TransferHandler` in place of its
   `outcome`, to show which status a user sees when the pool throws, and with two steps for
   reading and for storing `m_result`.
3. Objects whose length changes during a resumable download.
4. Headers and parameters as further classes of `Accessors`; what a retried request signs.
5. The clients that call again (`ResumableUpload`, `ResumableDownload`): a bound on the calls
   they need after the last fault, as `RestartsBounded` is one on the uploads they open.
