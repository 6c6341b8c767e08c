# Verification of image_backup_tool

image_backup_tool moves a file from one machine to another over a screen and a
camera. The **sender** (`display_qt`, `display_server.py`, ...) cuts the file
into numbered parts and shows each one as an image of coloured cells; the
**receiver** (`decode_image_stream`, `decode_image_stream_qt`) grabs frames,
decodes whatever parts it can see, stores them on disk, and puts the file in
place when it has every part. There is no channel back, except that a receiver
may run a small TCP or HTTP server from which the sender fetches the list of
parts that are still missing.

This directory holds TLA+ models of the C++ implementation (`src/src/`), TLC
configurations that check them and TLAPS proofs. `PROJECT.json` lists the
components, runs, hazards, theorems and, under `map`, the source lines each
definition stands for.

## 1. Inventory

| Component | State | Operations | What is hard |
|---|---|---|---|
| `ThreadSafeQueue` (`thread_safe_queue.h`) | queue of `optional<T>`, bound, mutex, two condition variables | `Push`, `Emplace`, `PushNull`, `Front`, `Pop` | which waiter a notification wakes; `Front` spends a notification and takes nothing |
| Workers (`image_decode_worker.cpp`) | none of their own; `running` flag, `frame_q`, `part_q` shared | `FetchImageWorker`, `DecodeImageWorker` (mp of them), `DecodeResultWorker`, `AutoTransformWorker`, `SavePartWorker`, `CalibrateWorker` | six or more threads that block on each other's queues; ends by null items |
| Command line receiver (`decode_image_stream.cpp`) | threads, flag, queues | `Start`, `Stop`, polling loop | order of the joins and nulls |
| `Task` (`image_decode_task.cpp`) | bitmap of done parts, counter, buffer of parts; files `.task`, `.blob`, result | `Init`, `Load`, `AllocateBlob`, `UpdatePart`, `Flush`, `Finalize`, `ToTaskBytes` | killed between any two file operations, write errors, duplicates |
| Qt receiver (`decode_image_stream_qt/Widget.cpp`) | same threads, `m_task_running`, `m_calibration_running`, transform, calibration | start/stop of task and calibration, close, queued signals of the threads | signals that arrive after the state they speak of has changed |
| Image streams (`image_stream.cpp`) | ring buffer, read and write pointer, size, thread | `GetFrame`, `Worker`, `Start`, destructor | overwriting while reading, stop while blocked |
| Task status server and client | port, thread, flag, published task bytes | `Start`, `Stop`, `UpdateTaskStatus`, `HandleRequest`, `RequestSelf` | stop needs a connection to itself |
| Sender GUI (`display_qt/Widget.cpp`) | list of undone parts, index, running and fetching state | `NavigateNextPart`, `NavigatePrevPart`, `FetchTaskStatus`, `ToggleTaskStartStop`, ... | stale list of undone parts |
| Symbol codec (`symbol_codec.cpp`) | none | `Encode`, `Decode` | bit packing, padding, CRC |
| Part images (`part_image_utils.cpp`) | the generator's current part | `generate_part_image`, `img_to_msg_bytes`, the stream server | order of cells in tiles, uninitialized spaces between them |
| Image decoder (`image_decoder.cpp`, `transform_utils.cpp`) | none | `Calibrate`, `Decode` | finding tiles and cells; floating point filters are out of reach |
| Options, base64, server utilities, tools | none | parsing, printing | sequential |
| Python implementation (`src/python/`) | the same system a second time | | differs as section 7 says |

How they interact:

```
 stream --GetFrame--> fetch --frame_q--> decoders (Pop)            --part_q--> save --> Task --> disk
                                         result, auto (Front)  ----^            |
 sender <------------- status client <--- TCP/HTTP --- status server <----------+
```

`running` is an atomic flag that `main` (or the GUI) and `save` clear and
`fetch` and `main` read. The Qt receiver adds signals that are queued to the GUI
thread. What makes each component correct: the queue is a bounded FIFO on which
no call is forgotten; a stop always ends and leaves nothing behind; a restart
never skips a part; the file delivered is the file sent; the ring buffer
delivers frames in order; a status is never newer than what the receiver has and
the status server can be stopped; the sender's list, part and canvas agree and no
missing part is left out; a decoded part is the part that was encoded.

## 2. Modules

| Module | Models | Used by |
|---|---|---|
| `BoundedQueue` | what the queue promises: an atomic FIFO with a bound | `ThreadSafeQueue` |
| `ThreadSafeQueue` | `thread_safe_queue.h`, one step per critical section | `DecodePipeline` (twice), proofs |
| `ThreadSafeQueueProofs` | proofs, any number of threads, any bound | |
| `DecodePipeline` | workers, `App::Start`, `App::Stop` on two instances of `ThreadSafeQueue` | proofs |
| `DecodePipelineProofs` | proofs, any number of decoders, any bounds | |
| `FileReceiver` | what a receiver promises to its user | `DecodeTask` |
| `DecodeTask` | `Task` and `SavePartWorker`, memory and disk, kills, faults, a part number that is wrong | proofs |
| `DecodeTaskProofs` | proofs, any file size, any part number entered, any number of kills | |
| `LossyBuffer` | what an image stream promises: a FIFO that drops its oldest frame | `ImageStream` |
| `ImageStream` | `image_stream.cpp` and the thread that reads it | proofs |
| `ImageStreamProofs` | proofs, a ring of any size, any number of frames | |
| `TaskStatusServer` | status server, its clients, and `SavePartWorker`'s use of it | proofs |
| `TaskStatusServerProofs` | proofs, any number of clients and parts | |
| `DisplayQt` | the sender's window, and a receiver that may be killed | proofs |
| `DisplayQtProofs` | proofs, any files, configurations and numbers of parts | |
| `QtReceiver` | the receiver's window | proofs |
| `QtReceiverProofs` | proofs, any number of signals that wait | |
| `SymbolCodec` | `symbol_codec.cpp`, `base64.cpp`, as operators | `PartImages` |
| `PartImages` | parts, status bytes, images, recognition, as operators | `ImageTransfer` |
| `ImageTransfer` | a file from the sender's generator to the receiver's task | proofs |
| `ImageTransferProofs` | proofs, any file, codec, frame, memory and number of misreads | |
| `MC*` | instances for TLC | |

**ThreadSafeQueue.** `m_queue` is the queue; `op[t]`/`item[t]` are the member
function thread `t` is in and its argument or result; `cv_in` and `cv_out` are
the threads asleep on `m_cv_in` and `m_cv_out`. `Call*` is an invocation;
`Push(t)`, `Front(t)`, `Pop(t)` are one turn under the mutex: the predicate of
`wait` is false and the thread falls asleep, or it is true and the thread does
the work, notifies and returns. `NotifyOne` picks any sleeper. A woken thread
competes for the mutex, so others may come first. `SpuriousWakeup` is what the
C++ standard lets `wait` do. Threads have roles, which the receiver's use of the
queue gives them: pushers, poppers, and peekers, which call `Front` and pop only
the null they saw.

**DecodePipeline.** `pc[t]` says where each thread is between two calls on the
queues. What is decoded is left out: a frame is `"frame"`, whatever `Decode`
returns is `"result"`, and whether the task is refused or done is `save`'s free
choice (`DecodeTask` decides it). `Start`, `LeaveLoop` (the polling loop ends),
`JoinFetch`, `PushNull`, `JoinWorkers`, `JoinSave` are `App::Start`, `main` and
`App::Stop`. After `JoinSave` the model may start again on the same queues, as
the Qt receiver does.

**DecodeTask.** `pc` is where `SavePartWorker` is, `"down"` when there is no
process. The bitmap is the set `m_task_status`, `m_blob_buf` the parts in the
buffer, and `stream_buf` the part that `Flush` has written and the `fstream` still
buffers. `task_file`, `blob_file`, `output` are the three files. `faults` is a
history variable: `"content"` when a kill or a write of the blob that failed has put
content at risk, `"progress"` when the task file was left truncated or old, `"count"`
when the count no longer is the number of bits: a task file cut short within its bits,
or a part number that is not the sender's. The part number is entered by hand, and
frames decode whatever it is; with a smaller one the task is done early. `Task` checks
no id against the bitmap: a part whose bit lies within the bitmap's last byte is
accepted (`UpdatePart`), one beyond it is undefined behaviour, in the model a free
choice between done, new at each frame, and the end of the process
(`UpdatePartBeyond`).

| Action | Code |
|---|---|
| `LoadTask`, `RefuseTask`, `NewTask`, `AllocateBlob` | `SavePartWorker` up to its loop, `Task::Load`, `Init`, `AllocateBlob` |
| `UpdatePart`, `UpdatePartBeyond`, `RepeatedPart`, `Stop` | one turn of the loop: a new part, one beyond the bitmap, a known part or a failed frame, the null |
| `WriteBlob`, `WriteNoBlob`, `OpenTaskFile`, `CloseTaskFile`, `CloseBlobFile` | `Task::Flush`, in the order in which bytes reach the operating system: the destructor of the task file's stream runs before that of the blob's |
| `WriteBlobFails`, `OpenTaskFileFails`, `CloseTaskFileShort` | the same when the disk fails: `Flush` looks at the state of neither stream |
| `ResizeBlob`, `ResizeBlobThrows`, `Rename`, `RemoveTask` | `Task::Finalize` |
| `Kill` | external: the process is killed at `pc` |

Abstractions: a part is its number (the symbol codec's CRC vouches for the
content); the part size is left out, so a write in `Flush` either stays in the
stream's buffer (short parts) or goes out at once (long ones), and both are
allowed for every part; a kill ends the process and not the machine.

**ImageStream.** `worker` and `fetcher` are the places of the stream's own thread
and of `FetchImageWorker`; a camera has no worker. `TestRunning` is the inner loop's
test of the flag, before each frame. `Store` and `GetFrame` are the
two critical sections, `Wait` is the wait in `m_cv`. `DestroyDerived`,
`DestroyBase` and `Join` are the destructors in their order: `derived` says
whether `FetchData` still has a body. The other end numbers its frames; `LinkDown`
and `LinkUp` are the server's or the pipe's. A worker that has tested the flag
calls a pure virtual function, or reads a destroyed socket, when the destructor
is faster: `"crashed"`, which nothing follows.

**TaskStatusServer.** The worker's steps are those of `HandleRequest`: `Open` (the
acceptor), `Accept`, `GetTaskBytes`, `Reply`, `Close`. `Connect` is what both
clients and `RequestSelf` do: it succeeds when an acceptor exists and fails
otherwise. `Result`, `Null`, `Stop`, `RequestSelfEnds`, `Join` are
`SavePartWorker` as far as the server is concerned, `Kill` ends the receiver's
process at any step. A task is the number of its done parts; `since` and
`outlived` are history variables of the properties.

**DisplayQt.** One action per slot. `state`, the list of undone parts, its index,
`m_cur_part_id` and the spin box are the code's; `shown` is what is on the canvas,
`listed` the task the list belongs to (a history variable). `SetValue` and
`SetMaximum` include the `valueChanged` signals, which call back into
`NavigatePart`. A failed assertion is a state of its own, and ends the program.
The receiver gets a part that is shown (`Receive`), publishes its status (`Publish`,
every 256 results in the code), flushes (`Flush`, every 8192 parts and at a stop), and
stops its server when it is complete. `Restart` is a kill, or a stop, and a start on the
task file: what was not flushed is missing again. `outdated` is the history of what
became missing again so since the list was taken, after it had been published as done.
`LetRun` is the user who leaves.

**QtReceiver.** `gui` is the place of the GUI thread, in the event loop or in the
middle of `StopTask` or `StopCalibration`; `posted` is its queue of signals;
`fetch`, `calibrate`, `decoders`, `save` are the threads' pointers with what the
threads do. `box` is the error message, whose event loop is nested, so signals and
buttons go on behind it only as a modal box lets them. `live` says of a signal that its
thread is still there, `stale` that a `complete` was handled after its task had been
stopped. `upset` remembers that the calibration changed while nothing ran and nothing
was done to its buttons, until they are set again. The calibration file may be absent,
valid or invalid at the start: an earlier session left it.

**SymbolCodec, PartImages, ImageTransfer.** The codec is modelled on real bytes:
CRC-32, scrambling, encryption, packing into 1, 2 or 3 bits, base64. A picture is
a function from cells to colours; corners, spaces, tile boxes, dots of a
calibration and cells are found in it as `image_decoder.cpp` and
`transform_utils.cpp` do. The camera may take one cell for another colour. The
spaces between tiles of a part's image are uninitialized memory, of one colour for
each image. In the code each pixel of them is arbitrary: the two colours are the cases
in which the receiver finds a space and in which it does not, and `SeenIsRead` claims
nothing of the second.

## 3. Runs

| Run | Instance | States | Shows |
|---|---|---|---|
| `QueuePeek` | 2 pushers, 2 poppers, 2 peekers, bound 3 | 16 812 | `NoLostRoom`, `NoLostItem`, `NoMutualWait`, refinement of `BoundedQueue!Spec` |
| `QueueProgress` | 2 pushers, 2 poppers, bound 2 | 1 386 | refinement of `BoundedQueue!FairSpec`: progress on both sides |
| `Pipeline` | 1 decoder, bounds 3 and 2 | 131 778 | `NullsAfterWork`, `CleanStop`, `StopEnds`, `DecodersKeepUp` |
| `Task` | 4 parts, flush every 2, 3 kills or failed writes anywhere, 3 other configurations | 2 542 035 | `NothingMissing`, `ExactOrFault`, `IInv` (with `CountIsBits`), refinement of `FileReceiver`, `Delivered` |
| `TaskKillFlush` | as `Task`, one kill before the blob is closed | violation | `OutputIsTarget` fails |
| `TaskKillFinalize` | as `Task`, one kill between resize and rename | violation | `OutputIsTarget` fails |
| `Stream` | 3 kinds of stream, ring of 2, frames up to 5 | 77 787 | refinement of `LossyBuffer`, `FramesInOrder`, `NoLostWakeup`, `NoWorkerLeft`, `StopEnds` |
| `Status` | TCP and HTTP, 1 client, 3 parts, an update every 2 results | 112 679 | `FreshAnswer`, `NothingWithheld`, `NoServerLeft`, `StopEnds` with a client that keeps asking |
| `StatusStop` | 2 parts, a client that need not ask | violation | `StopEnds` fails |
| `Sender` | 2 files, 2 configurations, up to 2 parts, every task file and status, 1 restart of the receiver | 1 276 776 | `Shown`, `NothingSkipped`, `FailuresExplained`, `Delivered` |
| `Receiver` | at most 2 signals posted | 64 376 | `FailuresExplained`, `OneKindOfWork`, `BackToRest`, `Settles` |
| `Codec` | 6 files and frames, 1 misread cell, black or white memory | 2 697 | `CrcTells`, `KeptIsSent`, `SeenIsRead`, `StatusTold` |

What the properties of the runs since `Stream` say:

* `Stream`: size and pointers of the ring always describe a FIFO that has lost its
  oldest frames and no others; what reaches the decoders is in the order it was sent,
  across reconnections. The reader sleeps only when its worker will wake it. After a
  stop `fetch` ends if the other end delivers once more; the exceptions the property
  names are a closed pipe and the crash in the destructor.
* `Status`: an answer is at least as new as what was published at the time of the
  connection, and never claims a part the receiver does not have, except that a
  killed receiver forgets parts it had published and not flushed (`outlived`).
* `Sender`: whatever was opened, fetched and navigated before, the spin box, the
  list's index, the current part and the canvas agree and lie inside the file; the
  list holds every part the receiver misses, but for those that a killed receiver had
  published as done and not flushed. The assertions fail for two reasons only,
  section 6. Left alone in automatic mode the sender gets the file to the receiver, also
  when that is killed and starts again (`Delivered`). The exception is a list that
  leaves out a part the receiver lost, and is never refreshed: no server is asked, or
  the list is no longer than the threshold.
* `Receiver`: no order of clicks and queued signals makes a calibration and a task
  share the frame queue. Every stop returns and leaves the window ready for the next
  start, but for the failures that `FailuresExplained` and `Settles` name.
* `Codec`: a frame that passes its CRC is one that was sent, also with a misread cell
  (`CrcTells`); every part marked done is byte for byte the part that was sent, whatever
  a camera misread, and the finished file is the file; every frame seen right is
  read; the sender reads in a status what the receiver wrote.

Bounds. Two threads per role are enough for a notification to go to the wrong
one, for a third thread to slip in between wakeup and lock, and, in `QueuePeek`,
for both `Front` callers to spend a notification. The bound 3 is the smallest
that `NoMutualWait` allows for two peekers: with 2, TLC finds pushers and poppers
asleep at the same time, so the bound of 128 in the source matters (it must
exceed the number of `Front` callers, two). The pipeline uses the same smallest
bound; with `FrameMax = 2` TLC finds the deadlock there too. Its part queue of 2
is full most of the time, which is the interesting case. In `Task` 4 parts and a
flush every 2 parts give a flush in the middle, one at the end and one at a stop;
three kills or failed writes (`MaxMishaps`) allow a kill during the recovery from one and
a failed write besides. With 2 bits to a byte of the bitmap (`StatusByte`; 8 in the code)
the part number 3 leaves room for all 4 parts in its bitmap and 1 does not; a fourth
configuration does not decode the sender's frames. `MaxDone` (5) bounds the count that
parts beyond the bitmap drive up.

`Stream`: a ring of 2 is full, empty and in between, and wraps; 5 frames wrap it
twice and outlast a reconnection. `Status`: with an update every 2 results and 3
parts there are results that are published, unpublished, flushed and not; a second
client would only wait in the backlog, as `RequestSelf` already does beside the
first. `Sender`: two files that have the same number of parts in one configuration
and not in the other are what tells a stale list from a good one; the threshold of 1
and the spin box maximum of 0 stand for 200 and 99, so that both sides of each
occur. One restart (`MaxRestarts`) is enough to take back a part that the list leaves out; the
proof is for any number. `Receiver`: with 2 signals posted one can be late behind
another; 3 give 301 114 states and the same result. `Codec`: each codec, with and without
symbols and bits to spare, one tile, a row, a column and a grid of tiles of unequal
sides; files of no byte, of whole parts, of one byte more, and of more parts than a
byte of the bitmap has bits. The misread cells lie in the meta data, the data and
the padding.

The runs of the queue, the pipeline and the task check for deadlocks: a stopped
receiver can always start again. The other runs do not, because their programs end:
`fetch` ends, the window is closed, the file is finished, a program crashes.

## 4. Fairness

* Queue: a thread that is awake inside a member function gets the mutex in the
  end (`WF` of its critical section). Nobody has to call, nothing has to wake
  spuriously.
* Pipeline: weak fairness of every thread's next step; of `main`'s polling loop
  only when `running` is false; none for `Start`. `fetch` steps mean that frames
  keep coming: a camera that stops delivering blocks `GetFrame`, see the hazard at
  `image_stream.cpp:48`. The strong part, `GetsPlace` and `IsWoken`, says that a
  decoder waiting for a place in `part_q` is not overtaken for ever by the two
  watchers at every free place and at every notification. The code justifies it
  by the watchers' sleep of one second between two results
  (`image_decode_worker.cpp:82`, `:151`); without it TLC shows a decoder that
  starves. A starving decoder is a matter of scheduling, not of the protocol, so
  only `DecodersKeepUp` would fail.
* Task: the sender shows its parts in a cycle, so each part keeps arriving
  (`SF` of `UpdatePart`), the user restarts the receiver after a kill, and stops
  one that decodes nothing. Nobody has to kill or to stop a receiver that works.
* Image stream: the worker and `fetch` are scheduled, which includes that another
  end that is there goes on sending. The link need not come back.
* Status server: its thread and `SavePartWorker` are scheduled, a connected client
  sends its request. `PolledSpec`, of `Status` only, adds a sender that keeps
  asking, as the automatic update of the sender's window does while it runs;
  `StatusStop` has the threads' fairness alone, as the test has.
* Sender: the timer ticks and the receiver publishes (weak fairness: it handles results
  as long as frames come). A part that is shown again and again is received in the end,
  and a status that is asked for again and again is got (strong fairness: both are
  possible only from time to time, while the part is shown or the list is at its end). The
  user is free; `Delivered` is about one who leaves. Nobody has to kill the receiver, nor
  has it to flush before it is complete.
* Qt receiver: threads end when told to, the event loop runs, an error message is
  confirmed. `SavePartWorker` need not finish its task. `Codec` states safety only.

## 5. Proofs

The proof modules are checked by `tlapm` to the last leaf. The only assumptions
are the named ones of the models: the roles of the threads are disjoint and
finite, the bound is a natural number, `Null` is no item; the part numbers are
positive, the task file of a run that was killed while truncating it has a
configuration no user enters; the ring has at least one place; there is a part, an
update after a positive number of results, and no client is the receiver itself;
the decoders are finitely many, and none of them is another thread; a file is of
bytes, a frame has a part large enough for the length of the file
(`prepare_part_images`), its tiles are set apart when there are several
(`space_size` is 1 by default and at least 1 in the display), and lengths fit in an
`int`; binarized, black is dark and white is not.

`ThreadSafeQueueProofs`, for any finite set of threads in each role, any bound,
any items:

* `TypeCorrect`, `BoundedCorrect`.
* `NoLostRoomCorrect`: while a pusher sleeps, every free place is promised to an
  awake pusher. Inductive with `TypeOK` alone: a pop frees a place and wakes a
  pusher, a push uses both up. The proof counts sets of threads
  (`Grows`, `OneMore`, `OneLess`).
* `NoLostItemCorrect`: the same on the other side, where a peeker may hold a
  notification without taking the item; so it counts the peekers that are not
  asleep as well.
* `NoMutualWaitCorrect`: from the two, by arithmetic, when the bound is larger
  than the number of peekers.
* `Refinement`: `ThreadSafeQueue` implements `BoundedQueue`.

`DecodeTaskProofs`, for any number of parts, any configurations and part numbers
entered, any flush interval, any number of kills and failed writes at any step. The property
`ExactOrFault` is not inductive: it needs to know that what the task file claims
is in the blob (`NothingMissing`), that the counter that ends the transfer is the
number of parts (`CountIsBits`, short of a count fault, with `DoneIsAll`: a set of
parts as large as the set of all parts is that set), and what `pc` says of the buffers (`Control`).
Their conjunction `IInv` is inductive; TLC checks it as an invariant of `Task`.
Theorems: `TypeCorrect`, `CountCorrect`, `Invariance`, `NothingMissingCorrect`,
`ExactCorrect`, and `Refinement` of `FileReceiver`, whose step is one abstract
step or a stutter per action.

`DecodePipelineProofs`, for any number of decoders and any bounds: `TypeCorrect`,
`CleanStopCorrect` and `NullsAfterWorkCorrect`. Neither property is inductive. The
invariant has three parts: `Control` (what a thread's place says of the call it is
in), `FrameNulls` and `PartNulls`. `FrameNulls` says that `frame_q` is `k` frames
followed by nulls, that the nulls queued, in `main`'s `Push` and still to be pushed
are as many as the workers that have not taken theirs (`Waiting`), and that no frame
is left once somebody has seen a null. The last clause is what makes a watcher's
`Pop`, which comes after its `Front` and may find another head, take a null. The
proof looks at a turn on a queue by its effect only (`FrameEffect`, `PartEffect`), so
who sleeps and who is woken does not enter it. `TypeOK` itself needs the invariant:
`Start` sets the calls of all threads anew, which is right because nobody sleeps.

`ImageStreamProofs`, for any size of the ring and any number of frames:

* `NoLostWakeupCorrect`, `NoWorkerLeftCorrect` from `Places`, which says what each
  place of the reader implies for the flag and the worker.
* `Refinement` of `LossyBuffer`. The ring's content is `View(buffer, first, size)`;
  `ViewPut`, `ViewGet` and `ViewReplace` say what the two critical sections do to
  it. They need `Pointers`: the writer's place is the reader's plus the size, modulo
  `BufferSize`. A full ring is the case where the place written is the oldest one.
* `FramesInOrderCorrect` from `Ordered`: the numbers of the frames grow from what is
  in `frame_q`, over what the reader holds, the ring, and what the worker holds, to
  what was sent. It uses the refinement's lemmas on what put and get do.

`TaskStatusServerProofs`, for any clients, parts and period, kills at any step:
`TypeCorrect`, `FreshAnswerCorrect`, `NothingWithheldCorrect`, `NoServerLeftCorrect`
from one invariant. `Life` ties the thread to `SavePartWorker`'s place,
`Connections` says that who waits for an answer is in the backlog once or is being
served and not both, `Published` that the numbers are ordered while a client waits
(at its connection, answered, published, done), `Kept` that an answer stays below
what the next receiver starts with. `Published` needs `Connections`, so that a
client's `since` cannot change while it is answered.

`QtReceiverProofs`, for any number of signals that wait: `FailuresExplainedCorrect`,
`OneKindOfWorkCorrect`, `BackToRestCorrect` from one invariant. `Phases` says that the
GUI thread, the flags, the threads and the nulls are always in one of nine phases
(idle; a calibration or a task at work; the steps of a stop; a stop that waits for
ever), which alone gives the second theorem. `PostedExplained` ties the queue to
them: a signal that is still `live` was sent by threads that are still there, and
`quit` by a window that is closed. So a `complete` that finds no thread, or finds a
calibration, is one that outlived its task. `ButtonsFit` says which buttons a phase
leaves, and that they fit the calibration unless it is `upset`, which keeps one kind of
work from being started during the other, `Pressed`
and `Closing` what the task button and a closed window imply.

`DisplayQtProofs`, for any files, any configurations and any numbers of parts:
`TypeCorrect`, `ShownCorrect`, `NothingSkippedCorrect`, `FailuresExplainedCorrect`
from one invariant. `Shown` holds only in `DISPLAY`, so it needs what is kept outside
of it: `ListFits` (a list has the number of parts of the task it is about, and no part
beyond them), from which `StartTask` establishes it after its one assertion, and
`Fresh` (a published status still has what the receiver misses), which is what makes a
status safe to take, and `Told`: the list has what would be missing after a kill, but for
`outdated` and for what would become so, the parts published as done and not flushed
(`Unkept`). `NothingSkipped` alone is not inductive, since a kill adds to what is
missing; nor is `Told` without `Fresh`, since a status replaces the list. `PagesFit` rules out the buttons of the other page.
Three groups of lemmas carry it: `SortedElements` (a sorted list has the elements of its
set: the rank of an element is one to one, so by counting every rank is taken, and no
induction is needed), `SetValueFits`, `SetMaximumFits` and `StartFits` (the spin box cuts
the first part to its old range and then to its new one, and box and part agree after
the third call only), and one lemma per kind of move.

`ImageTransferProofs`, for any file, codec, frame, space, content of the memory and
number of misreads. From the small to the large:

* `DecodeOfEncode`: what a codec encodes it decodes, with its number and with the CRC
  right, for the three codecs and any number of bits left over. `TaskBytesBack`: a
  status is read as it was written. `MessageBack`: so is an image that went through
  PNG, base64 and the message's length.
* `CalibrateIs`: `Calibrate` finds the dots row by row and deals them to the tiles as
  they were drawn. It recurs over the dots; where an induction would be used the proof
  takes the least dot that is not found right (`Least`). `CalibratedReading`: at these
  centres every cell is read in its place.
* `TileReading`: without a calibration, the corners of the tiles' borders cut the
  margin off (`QuadOfLayout`), there are as many runs of white columns and rows as
  there are spaces, in order (`SpacesAre`), their middles are around the tiles
  (`BoxEnds`), and a tile is what its border's corners leave (`TileIs`). If the memory
  between the tiles was not white nothing is found.
* `SeenIsReadCorrect`, from `SeenInv`: what is in the message and in the frame is the
  part drawn last, the calibration is `None` or right.
* `KeptIsSentCorrect`, `StatusToldCorrect`, under `[]CrcTells`. `TaskInv` says what the
  bitmap, the count, the blob and the output have to do with each other, `StatusInv`
  that an answer is a task's bytes whose parts the bitmap still has. The hypothesis is
  there because 32 bits of CRC cannot tell every frame that is wrong from one that is
  right; how many cells of a frame may be wrong is not bounded in general.
* `MisreadIsTold`: with one wrong cell in a frame, any number of times, `CrcTells` holds
  and with it the other two, without a hypothesis on the CRC. A symbol is a part of one
  byte or of two that follow each other (`Off`, `OneOff`), and no other two bytes in
  their place have the same CRC (`BurstTells`): of the upper byte of a table entry the
  eight steps can be taken backwards, so it names the entry (`TableTells`); so the next
  register names the index and the rest (`NextTells`); so, read from the end, the
  registers behind the two bytes are the same, and read from the start those before
  them, which leaves one choice for each byte. The picture with the wrong cell is the
  picture of other symbols (`SeenAs`), and is read in place since the borders are what
  the tiles are found by (`TileColors`). `CrcSpared` says which cells `MisreadAt` may
  hold: not those of the CRC word, which encryption puts last in the frame. A wrong
  symbol there changes the word and, since the part number is covered with it, the
  number by the same bits; that the CRC tells this too is a matter of the polynomial's
  order, which the proof does not go into. TLC's `MisreadAt` has such cells.
* `SeenIsKept`: with a camera that is never wrong, nothing is assumed of the cells.

Only model-checked: everything under fairness (`AbstractFairSpec`, `StopEnds`,
`DecodersKeepUp`, `Delivered`, `Settles`), since the prover has no rules for
`ENABLED`; and `CrcTells` for a camera that is wrong about a cell of the CRC word.

## 6. Findings

* **A part lost by a kill in `Flush`** (`TaskKillFlush`,
  `image_decode_task.cpp:91`). `f` is declared after `blob_file`, so its destructor
  writes the task file before the destructor of `blob_file` writes the last part,
  if that part still sits in the stream's buffer. A kill in between leaves a task
  file that claims a part the blob does not hold. The receiver that resumes
  completes with a hole in the file.
* **An empty file after a kill in `Finalize`** (`TaskKillFinalize`,
  `image_decode_task.cpp:111`). The size of the file is stored in the last part of
  the blob and `resize_file` cuts it off. A kill before `rename`: the receiver that
  resumes finds the task done, runs `Finalize` again, fails to read the size, keeps
  0, and renames an empty file to the output path.

* **A stop that does not return** (`StatusStop`,
  `image_decode_task_status_server.cpp:17`). The server makes an acceptor for each
  request. If `Stop` connects while there is none, the connection is refused; a
  thread that had already tested the flag opens an acceptor, waits for a client, and
  `join` waits for it. The test of server and client calls `Stop` right after an
  answer, when this window is open, and expects it to return.

The first two contradict the assertion of `test_image_codec.py:62` that the file received
is the file sent; the test kills nobody. Two further consequences of a kill are
within the models and lose no data: a task file left empty makes every later
start refuse the task (`Task`'s `Delivered` excepts it as `"progress"`), and a kill between
`rename` and `remove` makes the next start terminate in `resize_file` after the
file is in place (`ResizeBlobThrows`).

What other properties had to except, each a behaviour of the code that no line of
the repository contradicts:

* `Stream`/`StopEnds`: a stream that is destroyed while its worker is between the
  test of the flag and `FetchData` makes a pure virtual call (`image_stream.cpp:39`).
  On a closed pipe `FetchData` never returns, it reads nothing for ever (`:96`): `fetch`
  waits in `GetFrame` or, in the destructor, in `join`, and a stop does not end. (A
  broken socket is an exception, an empty frame, and a new stream.)
* `Task`/`ExactOrFault`: with a part number smaller than the sender's the task is done as
  soon as that many parts came, and what it reads as the size is data: a damaged file is
  delivered as done, even if no id lies beyond the bitmap (`image_decode_task.cpp:48`).
  A task file that was cut short within its bits, which `Flush` does not notice (`:97`),
  keeps its count, and repeated parts end the next run early.
* `Sender`/`NothingSkipped`, `Delivered`: a status is published before
  what it says is flushed (`image_decode_worker.cpp:248`), so a receiver that is killed
  misses parts that a list taken before leaves out. A list longer than 200 parts is
  refreshed at its end if a server is asked; a shorter one is not, and the sender shows
  the same parts for ever until the user asks for a status.
* `Sender`/`Shown`: a start that fetches a status whose first part lies beyond the spin
  box's old maximum shows that maximum instead, a part that need not be in the list, and
  goes on with the second of the list (`display_qt/Widget.cpp:574`); the first comes at
  the next round.
* `Sender`/`FailuresExplained`: the list of undone parts is never cleared, so a task
  started after another one may assert, or send the parts of the other
  (`display_qt/Widget.cpp:394`); a status that says all parts are done, or that is
  about another task, fails an assertion or indexes an empty list (`:559-573`).
* `Receiver`/`FailuresExplained`, `Settles`: `transfer done` that is queued while the
  user stops the task stops it again, on null pointers, or stops a calibration
  that is running meanwhile and waits for it for ever (`decode_image_stream_qt/Widget.cpp:583`);
  after an error, or when the button is pressed before the signal, threads that have
  not been joined are destroyed or replaced, and the program aborts (`:607`, `:433`).
* `Receiver`/`BackToRest`: a calibration that comes late is stored after it was
  cleared (`:524`), while its buttons stay disabled, or is stored as invalid while they
  stay enabled; it can be saved then, and an invalid calibration file that is loaded over
  a valid calibration leaves the buttons of a valid one (`:334`).
* `Codec`/`SeenIsRead`: `generate_part_image` (and its Python twin, `np.empty`) leaves
  the spaces between tiles uninitialized. Without a calibration a receiver finds the
  tiles by these spaces being white, so an image of several tiles is read only by
  luck; the tests use one tile. The canvas of the sender's window is painted white.

## 7. Not modelled

* The floating point part of `transform_utils` and `image_decoder` (filters, sphere and
  quad correction, thresholds) and `color_calibration`: out of TLC's reach. `PartImages`
  takes a picture as it is after them. Spaces of size 0 between several tiles, and
  the picture of the result.
* The transform: `AutoTransformWorker`'s scores, the edit fields of the receiver and
  their files. In `QtReceiver` they change nothing the rest depends on.
* A calibration file of other dimensions: undefined behaviour of a vector index. (That of
  a part beyond the bitmap is a free choice in `DecodeTask`; what else a write outside the
  vector may destroy is left out.)
* A receiver that starts a new transfer since its task file was lost: `DisplayQt`'s restarts
  find the parts that were flushed. A pixel of its own for the uninitialized memory
  between tiles: an image has one colour there.
* Parsing and printing of options, layout, fonts, the colour pages of the sender's
  calibration, `LoadConfig`, frame rates.
* Command line tools: sequential drivers of the library. The stream server's
  generator is in `ImageTransfer`.
* The Python implementation. It differs where it matters to these models: its
  workers all use `queue.get` (no `Front`), its queues hold 4 items, it flushes every
  2048 parts and closes the blob before it opens the task file, so that
  `TaskKillFlush` does not apply to it.

## 8. Plan

1. `Transfer`: sender and receiver over `FileReceiver` with the status fetched in
   between, composed from `DisplayQt`, `TaskStatusServer` and `DecodeTask`.
2. The transform of the Qt receiver, with the snapshots of its threads.
