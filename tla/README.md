# TLA+ model of link-c-sdk

The SDK cuts the audio and video a camera pushes into TS files, uploads the
files to cloud storage, reports to a server which *sessions* (segments of the
recording) they belong to, and keeps an MQTT connection for logs and remote
control. It is C with POSIX threads; each component is a worker thread behind a
queue. This directory models the parts whose correctness depends on the order
in which those threads run.

## 1. The system

| Part | Source | State | Operations | Modules |
|---|---|---|---|---|
| circle queue | `libtsuploader/queue.c` | ring, indices, state, `isWait`, holders | Push, three pops, StopPush, destroy | `CircleQueue`, `BoundedFifo`, `CircleQueueProofs` |
| TS uploader, buffers | `tsuploader.c` | memory pool, current data queue, cache count, command queues | frame, end of file, upload, callback, destroy | `TsUploader`, `TsUploaderProofs` |
| TS uploader, sessions | `tsuploader.c`, `updateSegmentId` in `tsmuxuploader.c` | session, backup session, `reportType`, flags, meta, plan | the commands of `listenTsUpload` | `Session`, `SessionProofs` |
| segment manager | `segmentmgr.c` | eight handles, buffered report of each | new handle, update, TTL report, release, quit | `SegmentMgr`, `SegmentUsers`, `SegmentUsersProofs`, `Reporting` |
| TS mux uploader | `tsmuxuploader.c` | frame counts and timestamps, pause, parameter sets, times of the file | push video/audio, flush, pause, resume, destroy | `TsMuxUploader`, `TsMuxUploaderProofs` |
| TS muxer | `tsmux.c`, `mpegts.c`, `adts.c` | continuity counters, table and clock flags, position | mux a frame, reset | `MpegTs`, `TsMux` (proofs: `TsMuxUploaderProofs`) |
| token and configuration thread | `tsmuxuploader.c` | two deadlines, what is missed, configuration, token | fetch configuration, fetch token, stop | `TokenThread` (proofs: `LifeCycleProofs`) |
| resource manager | `resource.c` | function queue, quit flag | push a function, start, stop | `ResourceMgr` |
| picture uploader | `picuploader.c` | signal queue, quit flag | capture, destroy | `PicUploader` |
| API life cycle | `tsuploaderapi.c` | `nProcStatus` | init, new, free, cleanup | `LifeCycle`, `LifeCycleProofs` |
| MQTT message queue | `libmqtt/queue.c` | ring of messages | send, receive, destroy | `MessageQueue` |
| MQTT instances | `mqtt.c`, `wolfmqtt/*.c` | instance list, topics, socket, client, the thread's place | create, connect, loop, ping, publish, subscribe, unsubscribe, destroy | `MqttInstance` (proofs: `MqttAppsProofs`) |
| remote log | `qnlinking_mqtt.c` | log queue, flags | init, log a line, its thread, cleanup | `MqttLog` |
| IO control | `control.c` | sessions with a queue each | init, receive, answer, end | `IoControl`; both users: `MqttApps`, `MqttAppsProofs` |
| HTTP client | `libghttp/`, `httptools.c` | cache of names; a request's buffers | look up, connect, write, read, what the caller is told | `DnsCache`, `HttpClient`, `HttpCalls`, `HttpCallsProofs` |
| helpers | `kmp.c`, `utils.c`, third-party code | none | search, sign, parse | - |
| demo, sample, tests | `demo/`, `sample/`, `tests/` | - | programs that use the SDK | - |

How they interact. The user's threads push frames into the mux uploader, which
appends TS packets to the *current data queue* of the TS uploader. At a key
frame that ends a file the mux uploader reports the end; the TS uploader hands
the data queue to its worker (`listenTsUpload`) and to its callback thread
(`tsCbWorker`), and takes a new one from a pool of four. The worker uploads,
keeps the session's accounts, and sends reports to the segment manager, whose
thread posts them. Session changes are also sent to the token thread, which
fetches tokens and the configuration that in turn decides when sessions end.
Destruction is deferred: a finished mux uploader is given to the resource
manager's thread, which stops the others one by one. Every one of these threads
sends its requests with the same HTTP client, and looks names up in its cache.
The MQTT part is a library beside that: an instance has a thread that connects,
loops and pings, while the threads of its users publish and subscribe through
two mutexes; the SDK's log and a program with IO control are the two users.

What is hard: one buffer is owned by two threads that get it from separate
pushes; both queues may refuse; the last holder frees; loop conditions use
lengths that were read before long calls; the pop's state is written after the
mutex is given up; the end of a session and the start of the next are gathered
in flags and reported by a later command, while metas, forced segments and plan
changes arrive between; refused commands are lost, not retried. In MQTT, calls
hold a mutex over the network, destruction is asked for by one thread and done
by another, and subscriptions must outlive connections. In HTTP, the cache is
claimed under a mutex and used without it, and the end of an answer depends on
how it is framed and on what the server does with the connection.

What makes each part correct:

* queue: no byte lost, repeated or reordered; no missed wake-up; not freed under
  a blocked worker.
* buffers: exactly counted holders, a slot with one owner, an exact cache count,
  every file reaches the callback, destruction ends.
* sessions: one start, one end, nothing after the end, a known end reason,
  durations that are never negative, no reported session left open.
* segment manager: an end only for a session that ended, accounts that add up.
* muxer and mux uploader: files begin at key frames; no gap in the counters and
  no byte of a frame lost in a file; the index points at whole key frames; an end is
  reported with the times of the file.
* token thread: no token without a configuration; the newest session is served.
* resource manager and life cycle: what was freed is gone after `LinkCleanup`,
  which returns.
* MQTT: subscriptions come back with the connection; no use of a freed instance;
  control messages in order; reconnection, and an end to destruction.
* HTTP: a request goes to the host it names, returns, and is called a success
  only when it was one.

## 2. The modules

### `BoundedFifo`, `CircleQueue`, `MCCircleQueue`

`BoundedFifo` is what a queue promises: a sequence of at most `Cap` chunks, put,
evicting put, take (whole or in part). `CircleQueue` is `queue.c`: the ring with
`nStart`, `nEnd`, `nLen`, the mutex, the condition variable and the flags beside
them. A step is what one thread does between lock and unlock; the statements
after an unlock (signal, overwrite counter, `isWait = 0`, timeout state) are
steps of their own, because that is where threads interleave. `pushPc`, `popPc`
and `destroyPc` say where each thread stands. One worker pops, as everywhere in
the SDK. `items` maps the ring to the abstract sequence and `RefinesFifo` says
that `CircleQueue` implements `BoundedFifo`. The mutex is a variable (`locked`)
only where it is held over two steps, between clearing `isWait` and the copy.

Left out: `TSQ_VAR_LENGTH` (marked unused in the source), statistics, allocation
failures, and the append policies, which have no ring (`TsUploader` has them).

### `TsUploader`, `MCTsUploader`

The travel of TS files through `tsuploader.c`. `tsItemUsedFlag` is the pool,
`nCount[t]` the holders of the data queue of file `t`, `item[t]` its slot,
`pQueue_` the file being written. `PushFrame`, `TsEnd`/`TsEndDrop`, `PutUpload`,
`PutTsCb` and `NextQueue` are `streamPushData` and `notifyDataPrapared`, cut
where the latter pushes to a queue, since the worker or the callback thread can
run there. `WorkPop`, `WorkDestroyQueue` and `WorkCount` are `listenTsUpload` and
the end of `bufferUpload`; `CbPop` and `CbDestroyQueue` are `tsCbWorker`. Both
loops keep the length read right after the pop, as the code does, and exit on
it. `Destroy...` is `LinkDestroyTsUploader` with the call of `getStatInfo` before
it. The two command queues are sequences: what `CircleQueue` implements.

### `Session`, `MCSession`

The worker's session accounts. One action per command of `listenTsUpload`:
`TsStart`, `TsEnd`, `TsUpload`, `TsDrop`, `SegTime`, `SetMeta`, `ClrMeta`,
`SetPlanType`, `Quit`. `CheckedSession` and `ForcedSession` are `updateSegmentId`,
`BufferUpload` the reports and resets of `bufferUpload`. `sent` is what the last
command reported, `started` and `ended` what was ever reported. `mux` keeps the
muxer's order: START, then END with UPLOAD, or a DROP; `Lost` is a command of the
muxer that the full queue refused. Time is abstracted: whether a session is due
by its duration or by its timeout is free at each START.

Left out: audio durations (the session's durations are the video's), the cover
picture status, and the messages to the token thread.

### `SegmentMgr`, `SegmentUsers`, `MCSegmentUsers`

`SegmentMgr` is the thread `segmetMgrRun` and the calls that others make of it.
The thread is cut after the pop, after a command and after each handle of a TTL
report (`MgrTest`, `MgrPop`, `HandleUpdate`, `HandleRelease`, `StartTtlReport`,
`TtlReport`, `EndTtlReport`); a handle is only changed by the thread while it is
in use, so that a post inside a step hides nothing. `SumUp` is `checkShouldReport`
with what follows it, `Flush` is `handleOnSegReportSegInfo`; both are the set of
possible outcomes, because the clock and the answer of the server are free.
`LinkUninitSegmentMgr` is `UninitQuit`, `UninitPush`, `UninitJoin`. `posted` is what
the last step sent to the server.

`SegmentUsers` adds the uploaders: created (the worker starts before the handle
is there), given a handle or failing, reporting sessions in order, stopped, and
released. Session 1 is reported with a zeroed `segHandle`, as in the code.
`given`, `sum`, `owner`, `disturbed` and `ended` are histories.

Left out: metas, audio, the JSON body, the length of waits, restart after
`LinkCleanup`. While `LinkUninitSegmentMgr` runs the uploaders are silent: in
`LinkCleanup` the resource manager's thread has been joined before.

### `Reporting`, `MCReporting`

`Session` and `SegmentMgr` together for one uploader: every report of the worker
is pushed to the manager, whose thread runs beside it.

### `MpegTs`, `TsMux`, `TsMuxUploader`, `MCTsMuxUploader`

`MpegTs` cuts a frame into packets: a packet is the list of its parts with their
lengths (`LinkGetPESData`), so that filling, clock and header must add up to 188
bytes; bits are left out. These are the packets a file holds (`parts`), each with the
frame it is of as a history. `TsMux` is `tsmux.c`: the counter of each PID is advanced
before the packet is known to be written, the output callback may find no
buffer, be full, or take the packet, and `nCurrentPos` is put back when a frame
was not written whole. `TsMuxUploader` is `tsmuxuploader.c` from the user's calls
down to that: each action is a whole call under `muxUploaderMutex_`, with
`checkSwitch`, `switchTs`, `push`, the key frame index and the reports it makes to
the TS uploader and the picture uploader (`file.reports`). `noBuf` is how many
allocations of a TS buffer fail in a call; why they fail is in `TsUploader`.

Left out: `LinkSetTsType` and `LinkClearTsType`, the ADTS header, the copy of the
frame, audio durations, the bits of headers, tables and CRC. What the code does
there and the model has no place for: the PMT of a camera without audio or video
is declared five bytes shorter, and its filling overwrites the CRC; the result of
writing the tables is not looked at (the model has that: a file may lack them).

### `TokenThread`, `ResourceMgr`, `PicUploader`, `LifeCycle`, `MCLifeCycle`

`TokenThread` is `linkTokenAndConfigThread`: the pop (`TokenPop`, `TokenTimeout`), the
choice of what to fetch (`Handle`), and the fetches with their failures. Deadlines
have no length; a deadline that is set may pass at any time the queue is empty.
`ResourceMgr` is `resource.c`, `PicUploader` is `listenPicUpload` with
`waitUploadMgrThread`; both keep the length read before a long call, on which
their threads end. `LifeCycle` is the program's calls and what the recycle thread
does when it runs a destruction, cut where it waits for another thread: the TS
uploader's end, the token thread's, then the release, which pushes the picture
uploader's destruction to the queue it is run from.

The program calls from one thread, frees its uploaders before `LinkCleanup`, and
calls nothing between `LinkCleanup` and the next `LinkInit`, as the manual has it.

### `MessageQueue`, `MqttInstance`, `MqttLog`, `IoControl`, `MqttApps`, `MCMqttApps`

`MessageQueue` is `libmqtt/queue.c` as operators on a record. `MqttInstance` is
`mqtt.c` with `wolfmqtt.c` and `mqttnet.c`: one instance, its thread (`tpc`), and a
second thread's call in progress (`th[User]`), which waits for `listMutex`, looks at
the client before it has the mutex, and sends through `netMutex`. The client is an
identity (`mosq`, `open`, `link`), so that a call made with one that was freed shows.
`MqttLog` is `qnlinking_mqtt.c`, `IoControl` is `control.c`. `MqttApps` is the instance
with one of them: `app` never changes, since the two share nothing.

External (modelled from its use): the wolfMQTT library and the broker. A call of
the library succeeds, times out or fails; the session is clean, so a new
connection starts without subscriptions. Left out: TLS, MQTT-SN, the second log
interface of `control.c` (`LinkInitLog`, `LinkSendLog`, `LinkDinitLog`), which nobody
calls, and a second instance (`DeleteNode` is modelled for its outcome: an instance
that is not the head of the list is looked for for ever).

### `DnsCache`, `HttpClient`, `HttpCalls`, `MCHttpCalls`

`DnsCache` is `get_host_by_name_from_cache` with `update_dns_cache`, field by field:
an item is claimed under the mutex by its status, and cleared, resolved, filled and
released without it, while another thread's scan reads it. `HttpClient` is one
request: `http_trans_connect`, `http_req_send` piece by piece, `http_resp_read_headers`
and the three ways to read a body, and what `linkUpload`, `linkSimpleHttpRequest` and
`LinkMoveFile` tell their callers. Request and answer are sequences of units (a line,
headers, the bytes of a body; `Head1` and `Head2` are the two halves of the headers,
so that they may come in two reads). The server answers as it likes, may send
`100 Continue`, and may close, crash or reset at any point. `HttpCalls` puts both
together: every thread looking up (`app = "names"`), or one thread making a request
(`app = "request"`); after the lookup a request touches nothing shared.

Left out: TLS, the asynchronous mode and proxies (the SDK uses none), header text,
authentication, the memory order of the unlocked status writes.

## 3. The runs

| Run | Configuration | Distinct states | What it shows |
|---|---|---|---|
| `queue` | `CircleQueue.cfg` | 165 thousand | geometry, bytes, wake-ups, refinement; delivery, destruction returns |
| `buffers_safety` | `TsUploader.cfg` | 2.0 million | holders, slots, cache, allocation |
| `buffers_liveness` | `TsUploaderLive.cfg` | 69 thousand | output, recycling, destruction |
| `buffers_pool` | `TsUploaderPool.cfg` | violation | the pool does run out |
| `session_reports` | `Session.cfg` | 1.0 million | starts, ends, reasons, durations; that every session ends, without forced segments and lost commands |
| `segment_reports` | `SegmentUsers.cfg` | 5.1 million | handles, accounts, ends, the flush at QUIT |
| `segment_shutdown` | `SegmentUsersLive.cfg` | 263 thousand | `LinkUninitSegmentMgr` returns |
| `reporting_end` | `Reporting.cfg` | violation | an end is posted for a running session |
| `ts_files` | `TsFiles.cfg` | 39 thousand | counters, index, packets and bytes of frames, first frame and times of TS files |
| `life` | `LifeCycle.cfg` | 153 thousand | tokens and configurations; everything freed is reclaimed; cleanup returns |
| `mqtt` | `MqttApps.cfg` | 479 thousand | subscriptions, order of control, the life of the instance, reconnection |
| `http` | `HttpCalls.cfg` | 241 thousand | addresses, what callers are told, every request returns |

Bounds. *Queue*: a ring of three slots and six pushes wrap both indices twice; two
producers are the fewest that can race; chunks of one and three bytes with a
buffer of two make whole and partial pops. *Buffers*: the pool and the cache have
the sizes of the code (four and two) in the safety run; command queues of three
and two make every push fail somewhere; five files use the pool more than once.
In the liveness run the pool is three and the cache one, which keeps every case
but is small enough for the temporal check. *Sessions*: four files and five
sessions let a pending end wait over several files while another session begins;
one file may have no video duration; one command is lost and one segment forced
at any point. *Segment manager*: three uploaders for two handles make a creation
fail and a handle be used again; a queue of two overflows; four reports take an
uploader into its second session, the first one that has its own handle, and
leave it buffered, posted or ended. The uploaders are alike (symmetry), except in
the liveness run, which has two uploaders and one handle.

*TS files*: one uploader, whose calls are serialised by its mutex; frames that end
one byte before the end of a packet, where the two bytes of filling do not fit and
the last byte takes a packet of its own, so that header, clock and filling all
matter; a counter that wraps after four; a file of nine packets, in which a full
buffer cuts a frame in its middle; four timestamps and two parameter sets, so that
a file can be ended by each cause and follow a file whose key frame was lost. *Life*: one uploader of either kind (two
share only the manager's queue, whose order and length are exercised by an
uploader and its picture uploader), queues of two so that every push can fail,
three sessions so that a token is missed for one while another begins. *MQTT*:
two topics, one the control topic; three entries of the list; queues of two
messages, so that the oldest is dropped; two client contexts; two starts of a
session, the second with the last context (without that restriction the safety
properties hold too, in 1.1 million states, but liveness takes too long): the second
session takes the slot that the first gave back, or the other one when a failed start
left its slot in use. *HTTP*: two threads
and two names for two items, so that both claim the same item, items are refilled
with another name, and the cache runs out (three threads were tried on the cache
alone, 2.1 million states, with the same result, and the proof covers any number);
a body sent in three parts, one of two pieces; answers of none, one or two chunks;
a caller's buffer shorter than the answer; one interrupted call at any point.

Deadlock is not checked: each system may stop (the queue freed, the uploader
destroyed, QUIT handled, the instance freed, the request returned, a bound reached).

Fairness. Only what the scheduler gives: a thread inside a call goes on with it,
a worker pops what its queue holds, and uploads and callbacks return. No run
assumes that frames go on arriving or that a spurious wake-up happens. Beyond
that:

* `life` assumes that pops time out (their waits are bounded) and that the two
  servers, asked again and again, answer once (`SF`): without it no session could
  ever be served. The user is not bound to do anything.
* `mqtt` assumes the same of a connection that is tried again and again (`SF`), that
  `listMutex`, which the thread frees for a millisecond in each round, is got in
  the end (`SF` on `MqttStep`, `WF` on the calls of the user), and that calls of the
  library return, which have timeouts.
* `http` assumes that the resolver answers and that a read or write ends, with data
  or with the timeout that `set_rcv_timeout` and `set_snd_timeout` put on the socket.

What the exceptions of the properties leave uncaught. A property that names an
exception shows that nothing else goes wrong, and says nothing of the exception:
`EveryTsOutput` excuses a destruction in progress, so the files a stale length leaves
behind are not missed; `ReconnectsUntilDestroyed` excuses the endless search of
`DeleteNode`; `SubscriptionsRestored` excuses the topics whose second subscription
failed (`lost`), which `RecoverSub` does not try again; `AddressOfHost` is about the
address that is used, not about the items that stay claimed; the open sessions of
`AccountsHold` are those without forced segments and lost commands, `GapsAddUp`
leaves out a handle that another uploader disturbed, `FramesWhole` and `EndCoversFile`
the last frame of a full file. In all of these the excused behaviour is one the code
has and no document forbids.

`DestroyEnds` names the exception the code has: a worker that has seen `nQuit_` and
a stale length of 0 exits and leaves its queue full, and the push of QUIT is then
retried for ever. `UninitReturns` has the same exception for the segment manager,
and `CleanupReturns` for the picture uploader (`Stranded`).

### What the runs found

* `buffers_pool`: the log line of `allocTs`, "cannot be here" (tsuploader.c:147),
  is reached. The cache limit counts the files that wait for the worker, not
  those that wait for the output callback; with a slow callback the pool of four
  is used up and the frames of the next file are refused.
  `AllocFailsOnlyBehindCallback` states the exact condition.
* `reporting_end`: the comment above `reportSegInfo` says that `end` and `endReason`
  are not needed for a session that has not ended (segmentmgr.c:90-91). Every
  session but the first starts with a report that still carries the end reason of
  the one before (tsuploader.c:497; it is reset at 543); the manager copies it
  into `tmpSession`, and each TTL report of the new session then says that it has
  ended. The shortest trace times out before the server has set a ttl; with a file
  more the same happens after one was set.
* `SegmentUsers` shows that a second uploader, while it is in its first session,
  reports to handle 0 (`segHandle` is set by `handNewSession` only). If that is
  another uploader's, the start of the session replaces what was added up for it.
  `HandleKept` and `GapsAddUp` speak of the handle an uploader was given, and of
  handles that nobody else used (`disturbed`). No document promises more.
* After `nQuit_` is set the manager's thread may exit on the length it read before
  a long post: the commands behind it, QUIT and ends of sessions among them, are
  not handled. `FlushedAtUninit` therefore speaks of the case that QUIT was.
* `Session` shows behaviours that no document of the repository speaks of, so no
  run claims a divergence. A frame marked as the start of a segment while the
  end of an earlier session is pending overwrites `bakSession`, and that earlier
  session never gets its end report; a lost command does the same
  (`NoSessionLeftOpen` holds without both). A session whose first file was not
  uploaded never reports a start, only segments, and its end only on QUIT.
* `destroyPc = "crashed"` in `TsUploader`: `getStatInfo` dereferences `pQueue_`,
  which is NULL when the pool was exhausted at the last file.

Behaviours that the new modules have, each named as an exception or a choice in
the property it bears on:

* TS files: when the buffer is full in the middle of a frame the file ends with the
  packets that fitted; the frame is not in the index (`FramesWhole`, `IndexTrue`).
  `nKeyFrameCount` counts a key frame that `push` dropped for its
  timestamp, and one whose file was ended because no buffer was left, so that the
  next file may begin with another frame (`FileStartsWithKeyFrame`).
  `nFirstVideoFrameTimestamp <= 0` takes a first timestamp of 0 for none.
* Life cycle: a picture thread that ended on a stale length with its queue full
  leaves `LinkCleanup` waiting (`CleanupReturns`). A function pushed between the
  recycle thread's last look at its queue and `nQuit_` is not run, so an uploader is
  not reclaimed (`FreedIsReclaimed`). `LinkInit` after `LinkCleanup` succeeds without
  starting the manager, so that later destructions are refused. The message that
  stops a token thread may be lost; `isQuit` and the deadlines end it all the same.
  The threads test `info.nLen_` before it was ever set (the first pass of each loop).
* MQTT: `DeleteNode` does not advance its pointer and keeps the mutex
  (`ReconnectsUntilDestroyed`). When the first `LinkMqttInit` fails, the instance's
  thread frees the instance its creator keeps (`InstanceOutlivesUsers`). A failed
  `LinkInitIOCtrl` leaves its slot in use, which takes the messages of the next
  session (`ControlInOrder`). Unanswered pings never end a connection. A pending
  connect is taken for made when `SO_ERROR` is 0, and the address is not resolved
  again while the socket is kept.
* HTTP: an item claimed on the way to a match stays marked for ever, and when all
  are marked every further name fails to resolve without a query. `timeout_connect`
  overwrites its error, so that a refused or late connection is reported made and
  found out at the first write. A write that is interrupted ends the loop as if all
  was written, and errors of the request line and the headers are ignored; the
  answer then decides (`AnswerTrue` holds because a server answers 200 to whole
  uploads only). A stale `EAGAIN` makes any later error a timeout. After a
  `100 Continue` a read is waited for though the answer may be there already. An
  answer that does not fit the caller's buffer is cut and called a success, with
  the length of the whole. `LinkMoveFile` returns 0 whatever the answer is.

Seen in the source and outside the models: when `LinkTsMuxUploaderStart` fails,
`linkNewTsMuxUploader` frees the uploader whose deferred destruction it has just
pushed and whose token thread runs; `getUploaderBufferUsedSize` and `PushAudio` have
a return that keeps `muxUploaderMutex_` locked; `getPicCallback` may be called after
`LinkFreeUploader` has returned; `LinkMqttDinit` tests `message` after it set it to
NULL, so that the context is never freed; `QnlinkingMQTT_SendLog` after
`QnlinkingMQTT_Cleanup` uses what was freed.

## 4. The proofs

`CircleQueueProofs` proves, for every set of producers, capacity, chunk length
and buffer length, under `QueueAssumption` (a capacity and lengths of at least
one):

* `TypeCorrect`, `RingCorrect`, `NoByteLostHolds`, `NoLostWakeupHolds`,
  `FreedAfterWaitHolds`: the five invariants of the run `queue`;
* `Refinement`: `Spec => RefinesFifo`.

The inductive invariant is the conjunction of the five properties with what the
positions of the threads imply: a worker that is taking holds the mutex over a
non-empty ring; `isWait` is TRUE whenever the worker stands between setting it
and clearing it. `RingConsistent` is needed to see that `Wrap(nStart + nLen)` is
the free slot, `NoByteLost` to see where the next byte starts, and `isWait` to
see that `DestroyFree` cannot pass a blocked worker. Lemmas state how the ring
changes under a push and a take for every slot index, so that the proof of each
action only says which lemma it uses.

`SessionProofs` proves, for all sets of durations (natural numbers) and any number
of files, sessions, calls, forced segments and lost commands, under
`SessionAssumption`:

* `TypeCorrect`, `EndReasonAlwaysKnown`: the invariants `TypeOK` and
  `EndReasonKnown` of `session_reports`;
* `NothingFollowsEnd`, `StartReportedOnce`: its action properties;
* `AccountsKept`: its invariant `AccountsHold`.

The inductive invariant `IInv` (`SessionInvariance`) adds to the types and
`EndReasonKnown` what is pending (`PendingInv`). The properties speak of reports
already made, but a step reports what earlier commands gathered in `reportType`
and `bakSession`; the invariant relates the two. The current session is the
newest and was not ended; its start is still to be reported if bit 1 is set; the
session that bit 4 will end is an older one, not ended yet; with only bit 2 set
`bakSession` is the current session, so that a new session that begins before the
next upload ends the right one; and without bit 4 there is no reason in the
session, so that a segment report cannot be taken for an end. Lemmas say what a
list of no, one or two reports adds to the history; one lemma per command then
shows the invariant and that its reports are fresh, with `NewSessionStep` shared by
the four places that begin a session. `AccountsKept` needs two more parts
(`AccountsInv`). `DurationsKept`: a file that ended and waits for its upload is still
part of the durations of its session, so that `restoreDuration` takes off only what is
there. `OpenKept`: without a forced segment or a lost command one session at most is
open besides the current one, and it is the one whose end `reportType` asks for; with
bit 4 set the session has no file yet, so that metas cannot force a segment over it.

`HttpCallsProofs` proves, for every set of threads and hosts and every number of
items, under `DnsAssumption` and `HttpAssumption`:

* `CacheSafe`: `DnsSpec => []AddressOfHost`, the cache alone;
* `RequestsLookUp`: `Spec => DnsSpec`, a request with its server is the cache with
  steps that leave it alone;
* `AddressesSafe`: `Spec => []AddressOfHost`, an invariant of the run `http`;
* `AnswersTrue`: `Spec => []AnswerTrue`, its other one, from `RequestCoherent`.

`AddressOfHost` is not inductive: that a lookup answers with an address of its host
needs to be known of the item it reads. The invariant `DnsInv` adds that an item
which is used, or marked on the way of a scan, has a status that is not 0 and is
so held by one thread (`Exclusive`); that an item with a name has the addresses of
that name at every moment, also half filled (`Coherent`); and what each place of the
code knows of its item (`Known`): between the match and the copy nobody else can
have changed it. The proof does not use the mutex. What it needs is that the test
of a status and its marking are one step, and that `isValid`, read before, is not
relied on: a scan that sees an item turn invalid or valid under it claims nothing
that is held. `StepInv` states once what a step must keep (it writes a free item or
its own, and holds then nothing new that was held), and each action is shown to be
such a step.

`AnswersTrue` is about every form of an upload, every way an answer's body is cut into
chunks, and all sizes of reads, writes and of the caller's buffer. The assumptions are
those of the protocol and of `qn_addformfield`: a form has at least one part and no part
is empty, and a chunk of no bytes ends a body and is none of its chunks. What a caller is
told is decided by one last step; that it is true depends on every read and write before
it. The invariant `CallInv` (`RequestCoherent`) has four parts. `Unsent`: while a thread
writes, `io_buf` holds the end of the piece it stands at, and the server lacks the
request's last unit; it cannot have answered well yet, also when errors of the request
line and the headers are forgotten and pieces dropped. `Comes`: what was read and not
taken, with what is still on the line, is a start of what the server sent from there on:
of the headers, with an interim answer in front or without; of the body; or, for a chunked
body, of what is sent from the chunk on that is to be taken, where the chunks before it are
exactly what was taken. It is a start and not the whole, since the server may close or
crash and what it sent be lost at any point. `io_buf_io_left` and what is in the buffer
add up to the length, or to the chunk and its line end: so a read that leaves nothing to
read has the whole of it. `Told` and `Answered` carry what the last step found. `Starts`
is moved along by five lemmas on sequences: a read moves units from the line to the
buffer (`Moved`), a loss cuts (`Cut`), what is taken is what was sent and leaves a start
of what follows (`Dropped`). A handler that reads is shown once to keep the invariant
from the buffer it is given (`Handled`), whatever read, end or interrupted call gave it,
and a handler that writes likewise (`Wrote`).

`TsUploaderProofs` proves, for every size of the pool, of the cache and of the two
command queues, and any number of files and calls, under `UploaderAssumption`
(sizes of at least one):

* `TypesSafe`: `Spec => []TypeOK`;
* `CountsSafe`, `PoolSafe`, `DropSafe`: the invariants `CountsExact`, `SlotsOwned` and
  `DropHasOneHolder` of the run `buffers_safety`;
* `PoolExhaustedByCallback`: its action property `AllocFailsOnlyBehindCallback`.

That `nCount` is the number of holders is not inductive: `LinkQueueDecRefCount` gives up
a reference only above one, and a thread that destroys a queue must be known to be
counted in it. `UploaderInv` adds, for each file (`Held`), that it has one holder in
all on the muxer's and the callback's side, that the worker's side holds it at most
once, and not at all while it is written, before its push, or when it was dropped; and
that a file to come has no holder. `CacheInv` adds that the muxer has found room in
the cache before it pushes an upload, and keeps it until then since only the muxer
takes room. `Places` says what each thread has in its hands where it stands, and that a
destroyed uploader has nobody left in it (`Over`). A queue is counted with
`Occurrences`; four lemmas say what it is after a push and a pop, and one lemma per
action shows the invariant, most of them with `HeldSame` for the files the step does
not touch. For `AllocFailsOnlyBehindCallback` the slots are mapped onto the live files:
a full pool has as many live files as slots, those the worker's side holds are at most
`nTsMaxCacheNum` (`WorkingBound`), and all others are held by the callback's side alone.

`SegmentUsersProofs` proves, for every number of handles, uploaders and reports and
every capacity of the queue, under `SegmentAssumption` and `UsersAssumption` (no
uploader is called `"none"`, a zeroed session is `NoSession`):

* `UsersTypes`: `Spec => []TypeOK`;
* `HandlesKept`, `GapsKept`, `FlushedKept`: the invariants `HandleKept`, `GapsAddUp` and
  `FlushedAtUninit` of the run `segment_reports`;
* `EndIsLast`: its action property `NothingPostedAfterEnd`.

The properties speak of what the manager's thread does; whether it does it right
depends on what the uploaders sent it, in which order, and on what it has not handled
yet (`Pending`, the queue with the command in its hands in front). The invariant
`UsersInv` (`UsersInvariant`) therefore says of the commands on their way: an owner
knows its handle and there is one RELEASE of it, behind all its reports (`Owned`,
`ReleaseLast`, `Kept`); the reports of an uploader are in the order of its sessions and
a session's end is its last (`Reports`, `Users`). For a handle that its owner alone uses
it says that nothing is left of a session in `tmpSession` when a command replaces it
(`SumsKept`): a report that zeroes the duration lies in between, in the queue if not yet
handled; and that the session in `tmpSession` is the one every segment still in the
queue belongs to (`TmpKept`), without which a TTL report could post an ended session.
`QuitLast` says that behind QUIT comes nothing but its own last pass over the handles.
The invariant is wider than the properties since a duration may be wrong only after
several more commands; lemmas say what popping, handling and pushing a command do to
each of its parts, and the proof of a step goes by the uploader's command it makes
(`Says`, `StopsSilently`, `Idles`, `Takes`) or the handle the thread changes.

`LifeCycleProofs` proves, for any number of uploaders, with and without pictures, of
sessions and of second calls of `LinkInit`, and every capacity of the three queues,
under the assumptions of `TokenThread`, `ResourceMgr`, `PicUploader` and `LifeCycle`:

* `ConfigBeforeToken`: `TokenNeedsConfig` of the run `life`;
* `FreedReclaimed`: its invariant `FreedIsReclaimed`.

The run has one uploader; the theorems are about any number of them sharing the
manager's queue. `LifeInv` (`LifeInvariant`) has two parts. `ConfigFirst` relates an
uploader's thread to its messages: a configuration that is not there was asked for
(`Asked`: being fetched, or missed), or the message asking for it is the first in the
queue, or no session began; since a missed one is fetched before any token, a token
is fetched only with it. `Whereabouts` says where the destruction of a freed uploader
is: in the queue, running, refused, or among what the thread did not see (`unseen`); and
of its picture uploader, once the first has run. It needs `Seen`: the thread knows how
long its queue is but for what others pushed behind its last look, which after `nQuit_`
is the NULL of `LinkStopMgr` alone; and `Order`: what `nProcStatus` and the program's place
say about the thread. A thread's step that loses nothing it was given (`MgrKeeps`) is
shown once per way to change the queue, and carries `Whereabouts` for all uploaders.

`MqttAppsProofs` proves, for every number of topics, contexts, log lines, sessions,
queue slots and messages, under `MqttInstanceAssumption`, `MqttLogAssumption` and
`IoControlAssumption`, three invariants of the run `mqtt`:

* `TopicsRecovered`: `SubscriptionsRestored`, from `InstanceInvariant`;
* `JoinedBeforeFreed`: `InstanceOutlivesUsers`;
* `ControlKeepsOrder`: `ControlInOrder`, from `ControlInvariant`.

For the first, a topic of a connected client is known to the broker or `RecoverSub` has
still to come to it (`todo`); what a user's call adds to the list and what the thread
reads of it are under one mutex, which the invariant says who holds. For the second, the
thread ends only when asked to, the log's thread was joined before that, and no call is
left behind. For the third, each queue holds as many messages as the distance from its
output to its input; they ascend, and are newer than the last given to the program; a
message on its way is newer than all of them.

`TsMuxUploaderProofs` proves, for every length of frame, size of a file's buffer, range
of the counter and sequence of calls and failed allocations, under `TsMuxAssumption` and
`TsMuxUploaderAssumption`, all properties of the run `ts_files`:

* `CountersNeverSkip`, `IndexAlwaysTrue`, `KeyFrameFirst`, `FramesNeverCut`: the
  invariants `CountersContinuous`, `IndexTrue`, `FileStartsWithKeyFrame`, `FramesWhole`;
* `EndsCovered`: the action property `EndCoversFile`;
* `PacketsWhole`: `LinkGetPESData` alone, for a frame of any length.

`FramesNeverCut` is about the packets in the file: from the first packet of a frame to
the next first packet all are of that frame, and their bytes add up to it, unless the
file is full behind them. It has a hypothesis, `ClockFits`: frames are long enough to
fill a packet beside the clock (156 bytes of video), without which the packets need not
be decodable: `LinkGetPESData` fills up a short frame before its PES header only when
there is no clock.

The argument goes from a packet to a file. What the recursive functions of `MpegTs` and
`TsMux` compute is shown step by step (`TotalSteps`, `OffsetSteps`, `AfterSteps`): a
function with the recursive equation exists, by induction on the length of its domain
(`Induction`, over a set of numbers), and so `CHOOSE` takes one. For `PacketsWhole` the offsets grow at
each packet (`OffsetsGrow`) and end exactly at the frame's length (`PacketsAre`). For a
frame written to a file, `Wrote` says after k packets how many are in the file, with
which counters, and where the position is; `FrameMuxed` gives the two outcomes of a
frame, written or without a buffer. The invariant of a file, `FileInv`, holds for its
counters (the counter of a PID is the number of its packets, modulo its range, as long as
the file is not full: a counter is advanced for a packet that finds no room), for its
frames, for the key frame it begins with, for the index (the position is the number of
packets, until the file is full), for its packets as they were cut (`FramesSet`: a packet
that starts no frame follows the packet before it in the cut of its frame, and a frame
that another one follows is there to its last packet), and for the times kept of it,
which are those of the first and last frame. From `FramesSet` the bytes of a frame follow:
packet for packet the file has what `CutFrames` says (`FrameSet`, `Carries`), which adds
up to the frame (`BytesAddUp`, `FrameBytes`). It is not enough to know how a frame is cut,
as each packet may find no buffer or no room on its own; `onePacket` must give up the
frame then, and `GrownSet` shows that it does.
 `Grown` says how a file follows from the one before a frame, and
one lemma per part shows that the part is kept. `Inv` adds that a key frame that is
counted and in no file was noted in `keyLost`. `OnlyEnd` says of one call that what it
reports as ended is the file as it was before it.

Every invariant and every action property that a passing run checks is the property of
a theorem. Only model-checked are the liveness properties, which need fairness and
`ENABLED`, out of the provers' reach; the properties of the runs that expect a violation
are refuted there. Sums, forms and chunked answers are recursive functions, of which the
proofs use the recursive equation (shown by induction over a set of numbers), not a
closed form for every input.

## 5. Not modelled

* The TLS build of the HTTP client (where `WANT_READ` is retried without end) and of
  MQTT, the asynchronous mode, proxies, authentication; MQTT-SN; wolfMQTT's own
  code, which is external.
* `LinkSetTsType` and `LinkClearTsType`, which read `pTsMuxCtx` under another mutex than
  the one it is cleared under; one push of the two of `LinkSetSessionMeta` failing;
  `pSegMeta` kept for a later session without metas; `PopQueue`'s unlocked read of
  the overwrite counter; `LinkSetTsCacheBufferInitSize`.
* Lengths of waits and of the arithmetic on them (a retry for a token whose time has
  passed is made at the deadline of the configuration), weak memory, statistics.
* Failures of `malloc`, but for those of a TS buffer; in `updateToken` one makes the
  fetch end as a success that sets no token (tsmuxuploader.c:1737-1749).
* In `LifeCycle`, `LinkDestroyTsUploader` and `LinkUninitSegmentMgr` are steps that end;
  whether they do is what `DestroyEnds` and `UninitReturns` say. An uploader
  that got no segment handle has no session there; in the code its worker still opens
  the first one (tsuploader.c:949), which makes it an uploader that is freed right
  after it began, as the model has it with pictures.
* In `MqttInstance` a call made before the first `LinkMqttInit` only fails, where
  `LinkMqttSubscribe` and `LinkMqttUnsubscribe` dereference NULL (wolfmqtt.c:105-111,
  133-135); the use of a context's freed buffers is an error and no more; the second
  `LinkMqttInit`, in `OnDisconnectCallback`, succeeds (its result is not looked at), and
  leaves the status of an error. A peer that is silent for ever keeps the instance
  connected, as unanswered pings have no effect.
* In `HttpClient` an answer is finite. Each read has a timeout and a body as a whole has
  none (http_trans.c:630), so a server that sends a byte now and then holds the caller.
* `kmp.c`, `utils.c`, base64, JSON: no state. Demo, sample and test programs.

## 6. Plan

Done: the modules above, in the order of the table of section 1. Left, in this
order:

1. A second uploader in the run `life`, once the temporal check of two is affordable
   (the theorems are about any number of them).
2. The meta commands of `TsMuxUploader` with the two mutexes.
