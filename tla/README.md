# TLA+ verification of the Amlogic hardware platform HALs

The repository is the vendor side of an Android TV platform: user-space hardware
abstraction layers (HALs), media libraries and vendored codecs. Each HAL is a
process with one or a few binder threads that call into it and one or two worker
threads of its own. The HALs share no memory with one another. They meet in the
kernel (sysfs, uevents, configfs, character devices), in the bootloader's
environment and in the misc partition, and those are the environment of each model.

Each modelled component `X` has a module `X.tla`, an `MCX.tla` with a `.cfg` that
instantiates it for TLC. The theorems about `X` are in `XProofs.tla`. Two modules of proofs
serve two components each, which therefore share no names: `UsbProofs` extends Usb and UsbGadget,
whose specification is `GadgetSpec`; `MessageQueueProofs` extends AdecMessage and CMsgQueue, whose
specification is `QueueSpec`.
`PROJECT.json` maps every definition to the lines it models.

    tlc -config MCThermal.cfg MCThermal     # a run
    tlapm ThermalProofs.tla                 # the proofs of a module

## Inventory

Modelled:

| part | state | operations | what is hard |
|---|---|---|---|
| `power/disp-power/InteractionHandler` | state machine, eventfd, duration and time of the last input, Routine thread | Init, Exit, Acquire, Release, WaitForIdle | duration read outside the lock, aborts that outlive a wait, Exit against a sleeping thread |
| `power/libperfmgr` | requests per node and value, current values, open files, looper thread | DoHint, EndHint, Start, Stop, Update of file and property nodes | expiry during a pass, nodes that depend on each other, failed writes, Stop between two loops |
| `boot_ctrl` | slot metadata in misc, bootloader copies, virtual A/B message | Init, MarkBootSuccessful, SetActiveBootSlot, SetSlotAsUnbootable, IsSlotMarkedSuccessful, merge status | power cuts and lost writes between steps, tries that run out, repeated reboots |
| `hdmi_cec/libhdmi_cec/CMsgQueue` | ordered queue of delayed messages, a thread | sendMsg, removeMsg, threadLoop | the loop drops its lock between looking and taking |
| `usb/Usb` | port type, partner, callback, three mutexes, worker | setCallback, switchRole, queryPortStatus, uevents | lost signals, worker and switch at odds over the port, join under a lock |
| `thermal` | severities, callbacks, watcher thread | register, unregister, timeout and uevent passes, notification | hysteresis over several readings, a registration during a pass, failed reads |
| `usb/gadget` | linked functions, endpoints, monitor thread | setCurrentUsbFunctions, reset, the monitor | an old monitor against a new request, owners that restart, failed writes half way |
| `LibAudio/amadec` (control), `audio_out/dtv_patch_out`, `media/amavutils/amthreadpool` as they use it | session flags, message pool, decoder state, package list, PCM buffer, four threads | input start, stop, stop_dmx, pause, resume; codec init and release; the loops of the four threads | memory freed while another thread reads it, commands that arrive before anyone serves them, joins under a mutex |
| `LibAudio/amadec/adec-message` | ring of pointers with two indices and a count | send, get, free | a full ring drops the oldest, senders wait for a thread that serves nothing |
| `screen_source/v4l2_vdin` | V4L2 buffers with driver, work thread or user; reference counts | start, pause, stop, set_format, set_data_callback, acquire, release, the work thread | buffers lost or owned twice, stop against a delivery |

Read, and planned for a model:

| part | state | what could go wrong |
|---|---|---|
| `hdmi_cec/libhdmi_cec/HdmiCecControl` | active device, port status, messages being handled | destruction against the receive thread; the delayed messages it leaves in the queue |
| `earc` | enabled state, callback, observer thread | a state reported to a new callback after a newer one of the observer |
| `power/default` | modes and boosts over the two power components, hint sessions | order of a boost and the end of a mode |
| `health` | callbacks under a lock | a callback that registers during an update or dies in it |
| `oemlock` | lock ability in the environment | read, change, write back |
| `wifi` (start, stop, ring buffer) | chip mode, global lock, event loop thread | stop against an event (`wifi/THREADING.README`) |

Not planned, with the reason of each in `PROJECT.json`: parts without state of their
own that forward, convert or read files (CEC front ends, HDMI connection, lights,
memtrack, dumpstate, fastboot, IR, media utilities, codec and video device
wrappers); parts whose decisions are in a binary (gatekeeper, keymaster and KeyMint,
field detection); signal processing and image conversion (audio codecs, most of the
camera); test programs (player).

## Modules

Throughout, what the code does under one hold of a mutex is one action, and what it
does outside is split where another thread can be seen. A loop over elements with
visible effects takes one step per element. Time is counted down in small units, so
no absolute clock grows. Faults (a failed read or write, a spurious wake-up, a power
cut) are branches of the action they strike and draw on a budget that is a named
constant. Names follow the source.

**InteractionHandler** has three actors: binder threads in `Acquire`, the `Routine`
thread, and the owner in `Init` and `Exit`. `promised` is a history variable: the
longest time some caller may still expect the hint for.

**NodeLooper** has a caller (`Request`, `Cancel`), the looper (one `Update` per step,
two passes) and the owner (`Start`, `Stop`). `Clash` is the kernel's refusal of a
value because of where another node stands. `promised` is a history of what callers
were promised, kept beside the request groups the code keeps.

**BootControl** has one binder thread, so a call is one action; every write in it may
be lost. U-Boot's choice of slot and its counting of tries, the watchdog, the loss of
power or of the block, and what update_engine writes into a slot are external actions.
The client may give up any slot with SetSlotAsUnbootable, the running one included.
`activated`, `attempts`, `lost` and `givenUp` (the client gave up the last slot that was marked
successful, and none has been marked since) are history.

**CMsgQueue** splits `threadLoop` at every release of `mLockQueue`; the unlocked read of
the size is a step of its own. Senders are the bus monitor (remove, then send) and a
client (remove). `withdrawn` is history: the messages of a type that somebody took back while they
were in the queue.

**Usb** has the binder thread, the worker and the partner at the port, and the three
mutexes with their owners. The test of `destroyThread` and `epoll_wait` are two steps, and a
read of the status and a write of the mode may fail, the latter also unnoticed. `refused` is
history: the kernel did not take the mode that was last written.

**Thermal** has the kernel (temperatures, uevents), the watcher (wake, read and update
a sensor at a time, send) and the binder thread (registration reads sensors one by
one under the mutex). `getSeverityFromThresholds` is translated as an operator on the
reached and the left thresholds. Uevents of other subsystems come at any time and without bound.
`changed`, `told` and `missed` are history.

**UsbGadget** follows `setCurrentUsbFunctions` write by write and the monitor thread between
its two kinds of events; every write of either may fail. configfs, inotify and the owners of
FunctionFS functions are external. `reached`, `answer`, `failed`, `leftover` and `denied`
(the kernel refused the last pull-up) are history.

**DropQueue** is the abstract queue of the audio decoder: a bounded FIFO that loses its
oldest member when one is put into a full one.

**AdecMessage** is the pool that implements it. Senders allocate, wait while the ring is
more than half full (a bounded number of times), and insert under `msg_mutex`; the
control thread takes, serves and frees. A command is the number of its allocation and
`freed` records which were freed. `RingIsQueue` states the refinement
`INSTANCE DropQueue WITH q <- Window`, where `Window` is what lies between the indices.

**Amadec** composes the client in `dtv_patch_out.c`, the control thread, the reader, the
decoder and the output thread over one `aml_audio_dec_t`. Its message pool is an instance
of `DropQueue`, which `RingImplementsQueue` of MessageQueueProofs justifies. A call
that changes the session holds `patch_out_mutex` throughout, so one client process stands for all;
`dtv_audio_dec_para_get`, which takes no lock and changes nothing, is left out. `gbst`, `ops`, `audec`
and `mem` say what is allocated, and a thread's step says what it is about to read.
Cancellation of the thread pool reaches the threads that exist at that moment.

**ScreenSource** has the user thread, the work thread, the driver and whoever gives
buffers back. `queued` and `filled` are the driver's, `held` the user's. The work thread
takes a step at each look at `mState`, because `pause` and `stop` take no lock; start and
stop are split where the work thread or a release can be seen. The user gives a buffer
back once and none after stop has cleared the table, where `valueFor` would abort.
A STREAMOFF or REQBUFS(0) that fails is only logged and stop goes on.
`mixed` (a callback set on a polled source) and `lost` (VIDIOC_QBUF refused) are history.

The other components do not share state.

## Runs

| run | distinct states | shows |
|---|---|---|
| `interaction` | 13 290 | the hint is held exactly while an interaction is served; no abort outlives its wait; the wait uses the current duration; the hint is kept for every caller's duration; Exit returns; the hint is given back |
| `node_looper` | 219 240 | when the looper sleeps every node has the strongest promised value; two passes suffice for dependent nodes; file nodes catch up |
| `boot_control` | 2 184 742 | there is a slot to fall back on unless the client gave up the last one; the activated slot is the one that boots and gets all its tries; a slot is activated after its bootloader is in place; the device comes back up |
| `cec_queue` | 684 248 | a message taken back while it was queued is not handled; every message leaves |
| `usb` | 1 357 025 | no partner signal is lost; the port keeps the mode the kernel took during a switch; the status told last is the port's unless it could not be read; a switch ends |
| `thermal` | 1 295 756 | a throttled sensor keeps the watcher polling fast; no change is lost to a callback; severities follow the thresholds over several readings; everything comes to rest once other subsystems are silent |
| `gadget` | 568 957 | only the requested functions are up; success is answered only for a gadget that was pulled up; calls return; a monitor that knows the gadget is down pulls it up unless the kernel refuses |
| `adec_message` | 430 310 | the ring implements DropQueue; every command is in the ring, served or freed, once; sending returns although nothing is served |
| `amadec` | 1 197 473 | the PCM buffer and the decoder are alive whenever a thread of the session reads them; the control thread never ends with the codec allocated; decoder and output agree on the pause once the messages are served; stop returns |
| `screen_source` | 172 846 | the driver never has a buffer somebody reads; no buffer drops out of a running source; the callback never gets an unmapped buffer; frames are delivered until pause or stop |

Two runs show a disagreement between the code and a comment or a test; each is a
finding in `PROJECT.json` that quotes the line.

| run | what TLC finds |
|---|---|
| `node_looper_stop` | Stop signals after the looper's test of the exit and before its wait: join never returns |
| `gadget_restart` | an owner that is back before the monitor has looked leaves `writeUdc` false, and the gadget stays down |

Further disagreements met while modelling, without a run of their own:

* `FileNode.cc:63` closes the held file before the new value is written. When that write
  fails `current_val_index_` is left alone, and once the failing request is gone nothing
  writes the value again, against the comment at `FileNode.cc:76`.
* `CMsgQueue.cpp:119` takes the head again after the lock was released: a removal in
  between makes it handle a message before its time, against the comment at line 98.
* `Usb.cpp:728` joins the worker under `mLock`, which the worker may need, and the signal
  may fall between the worker's test of `destroyThread` and `epoll_wait`.
* `libboot_control.cpp:51` says a new slot gets `kDefaultBootAttempts`, seven, attempts; activation
  gives it six (`kActiveTries`), and six is what `EveryTryMade` counts.
* `libboot_control.cpp:249` knows two bootloader partitions: the image for a third or fourth slot is
  written to that of the second. `ActivatesLast` speaks of the first two slots.
* SetSlotAsUnbootable takes any slot, the last successful one included; what `FallbackKept` and
  `Converges` promise ends there.
* `CMsgQueue.cpp:119` has taken a message off the queue before it is handled, so a removal then
  comes too late and the message is handled. `RemovedForGood` speaks of messages that were queued.
* `Usb.cpp:218` writes the mode through a buffered stream and ignores what `fclose` answers: a mode
  the kernel refuses is not noticed, and the switch waits and may succeed in the old one.
* A status that could not be read (`Usb.cpp:539`) is told as it is and not read again until the
  next uevent or query.
* `thermal_watcher.cpp:159` starts its timeout afresh after every uevent, those of other subsystems
  included. While these keep coming, a change the kernel does not announce is never seen: without
  the condition of `Settles` TLC finds this cycle.
* With zero hysteresis a reading exactly on a lower threshold is reported below it for one pass, and
  with overlapping bands a falling temperature can raise a severity (`ThermalHelper.cpp:275`). The
  parser accepts both; the conditions of `SeverityFollows` leave both out.
* `MonitorFfs.cpp:114` and `:165` do not try a refused pull-up again before the next message.
* `dtv_patch_out.c:503` (`dtv_audio_dec_para_get`) takes the decoder's address without
  `patch_out_mutex` and reads through it while a stop may free it. Nothing in the repository calls it.
* `v4l2_vdin.cpp:429` only logs a failed STREAMOFF and stop frees the buffers all the same.
* `amthreadpool.c` says a thread that was told to exit sleeps less; the code lengthens a
  short sleep to 100 ms.

### Bounds

* `interaction`: inputs below, within and above the limits; times up to 3 units give
  each timer room to run out before and after each other one.
* `node_looper`: three nodes, two of them a pair the kernel keeps in order, one with a
  reset at start; two hints on the pair, one timed and one not; one failure and one
  slow pass are enough for every order of expiry, failure and retry.
* `boot_control`: two slots as on devices; six calls allow update, cancellation and a
  second update; two faults allow one inside the recovery from another.
* `cec_queue`: three messages of two types and delays 0 to 2: removing between two,
  inserting before, at and after the head.
* `usb`: one mode besides dual; four plug events and four calls allow a partner that
  comes and goes within two switches; two faults.
* `thermal`: a sensor with a hot and a cold threshold, one with two hot ones, one of
  them with no hysteresis; a temperature strictly inside a band; two changes, two
  calls, one fault.
* `gadget`: two functions with endpoints around one without, an unsupported set, NONE;
  four calls, five steps of owners, two failed writes.
* `adec_message`: four slots, of which two are over the half, two senders and eight
  commands: the indices go round twice, with the ring full at every place.
* `amadec`: two messages, so that a pause and a resume push one another out; one package
  and one frame, so that both the list and the buffer are full and empty; two sessions,
  three pauses or resumes, one failed step of the initialisation.
* `screen_source`: the numbers of buffers of the code; two sessions, so that a second one
  starts with what the first left; two failed ioctls, one of them in a start.

Runs without a deadlock check are those in which the calls and events of the
environment are used up.

### Fairness

Only steps a thread takes by itself are fair: a runnable thread is scheduled, a poll or
a timed wait ends, the clock goes on. No call of a client, no event of the kernel and no
fault is fair. Particular assumptions:

* BootControl: U-Boot, the watchdog and init go on, and update_engine calls
  MarkBootSuccessful in every boot that gets so far (it does so at start). `Converges`
  supposes that from some time on neither `lost` nor `givenUp` is set.
* Thermal: `pollOnce` returns at its timeout at the latest, unless a uevent comes first.
  `Settles` supposes that from some time on other subsystems send none.
* UsbGadget: `InotifyEvent` and `StopEvent` are fair one by one, because `epoll_wait`
  returns all descriptors that are readable. `PullsUp` excludes a pull-up the kernel refused.
* Amadec: the driver's fifo (`FifoFills`) and the demultiplexer are not fair. `StopReturns`
  excludes one case: the fifo stays empty and the reader was created after the pool was
  cancelled (`late`). Nothing cancels such a reader, and the stop does not return.
* AdecMessage: only the senders are fair; the control thread need not serve anything.
* ScreenSource: the callback returns; the driver need not fill a buffer.

## Proofs

Proved for all values of the constants, that is without the bounds of the runs. Each
proof has a lemma on the initial states, one per action or group of actions, and an
invariance theorem. The assumptions on the constants are in the module that declares them, and
TLC evaluates them in the run of the component.

Every invariant and action property of a passing run is proved, `TwoPassesSuffice` under a
condition on the configuration. A liveness property cannot
be, but much of what could be wrong with one is safety: a thread asleep on something nobody
will do any more. These halves are theorems of their own, marked *(safety half)* below.

* **InteractionHandlerProofs**: `LockMatchesState`, `NoStaleAbort`, `TimeoutIsFresh`,
  `HintKeptForDuration`. None is inductive: `RoutinePlace` says where Routine can be in
  each state, `Timers` that what was promised and what has passed fit into the
  duration, and that a poll that has timed out has used it up, `Aborts` that an aborted
  wait is not acted on. Assumes durations are integers, the limits in order.
  `NoWakeUpLost` *(safety half of ExitTerminates and HintReleased)*: Routine is not parked while
  a hint is held or Exit joins it, and a wait that a new interaction or Exit must end finds the
  eventfd written, although `Release` may drain a newer abort together with an older one.
* **NodeLooperProofs**: `TypeOK`, `SleepsSettled`, `RetriedSoon`. The invariant says the
  promises are the requests, and that each node the second pass has dealt with is at
  rest: nothing stronger is asked for and what it stands at is asked for until the
  looper is back. Assumes what ParseNodes and ParseActions check.
  `TwoPassesSuffice` is a matter of the configuration, since nodes that refuse one another
  in a ring could need more passes. It is proved under `PairConfigured`: the kernel keeps two
  file nodes in order and refuses nothing else, and a hint that raises the lower one raises
  the upper one as far and for as long. The instance of the run is such a configuration.
  Needed are that the pair is always in order, that each request on the lower node is backed
  by one on the upper that ends no earlier (so that the targets are in order too), and that the
  first pass leaves one of the two at its target.
* **BootControlProofs**: `TypeOK`, `FallbackKept`, `ActivationHolds`, `EveryTryMade`,
  `ActivatesLast`. `FallbackKept` holds until the client gives up the last successful slot
  (`givenUp`) or the block is lost. Needed besides: a block that fails its CRC is a lost one, the active
  slot alone has the highest priority, and every try that is gone was an attempt.
  Assumes one to four slots.
* **ThermalProofs**: `TypeOK`, `PollsFast`, `ToldMatches`, `SeverityFollows`. The reading
  that waits to be recorded is what the severities of before make of its value
  (`WatcherInv`, because only the watcher writes them); the pass has noted every
  throttled sensor it went by (`TriggerInv`); a severity a callback does not know is
  still to be sent, after the registration that runs (`ToldInv`). Assumes thresholds
  the parser accepts, which includes overlapping bands and zero hysteresis; the two
  parts of `SeverityFollows` that need more state it as a condition.
* **MessageQueueProofs**, the pool of the audio decoder: `Accounted`, and `RingIsQueue` step
  by step: `Insert` is a put, `InsertFull` a put that drops the oldest, `Get` a take, and every
  other step stutters. The invariant says that the indices are as far apart as the count says
  (`RingOK`, which makes the slot written in a full ring the oldest one), that nobody has a
  command somebody else has (`Apart`) and that somebody has each (`Somewhere`). Assumes at
  least one slot. `WaitsAreBounded` *(safety half of SendReturns)*: however the count moves
  between two looks of a sender, `retry_count` ends its wait after
  `(MESSAGE_NUM_MAX - MESSAGE_NUM_MAX \div 2) * Patience + 1` sleeps; TLC reaches that bound.
* **MessageQueueProofs**, the CEC queue: `RemovedForGood`, for queues of any length. `removeMsg`
  steps over the message behind each one it erases, so the theorem holds only because of
  `OneOfEach`: of a type that is replaced there is at most one message, and none between the
  removal and the sending of the bus monitor; what was withdrawn is neither in the queue nor
  in the hands of a looper that has yet to handle it. `KeptIsKept` and `GoneExists` relate the recursive
  functions behind `Removed` to positions of the queue by induction on the length.
  `QueueInOrder`: the queue is sorted, and first come first served among equals. `OthersAreKept`:
  a removal keeps the messages of all other types in their order.
  `NeverSleepsOnMessage` *(safety half of EveryMessageLeaves)*. Assumes that delays are natural
  numbers and that no type is both replaced and added.
* **ScreenSourceProofs**: `TypeOK`, `ReadersHaveIt`, `NoneDropped`, `CallbackMapped`. Needed
  besides: what start and stop have done at each step, so that a second session finds
  nothing of the first, whether STREAMOFF and REQBUFS(0) worked or not (`Phases`), one owner per buffer, no buffer twice among the filled
  ones, and no count for a buffer of the driver (`Owners`). Assumes that no mode uses more
  buffers than are requested at first.
* **AmadecProofs**: `PcmAlive`, `DecoderAlive`, `ExitsClean`, `PauseFollowed`. The four threads
  of the session are covered, the unlocked getter is not. The invariant
  ties each step of the control thread to the threads and the memory there are (`Codec`) and
  each step of a call to the decoder (`Session`). `Pooled` describes the pool: pauses and
  resumes, behind them STOP, behind that RELEASE. `Pauses` says that the last pause or resume
  called for is the last in the pool, or the decoder is in the state it asks for. Assumes a
  pool of two or more: with one slot RELEASE would push out STOP.
  `StopNeverStuck` *(safety half of StopReturns)*: whatever a stop joins exists and has been told
  to end. The control thread has `need_stop` where it waits for a format and a message where it
  waits for one; the decoder and the reader have `exit_decode_thread`; a reader that waits for the
  fifo is cancelled, unless it was created after the cancellation. Needed besides `IInv`: what
  the client and the control thread have told (`ClientTold`, `ControlTold`) and which threads
  the pool knows (`Registered`).
* **UsbProofs**, the type-C HAL: `SignalNotLost`, `RoleHeld`, `ToldIsCurrent`. Needed
  besides: which mutex is held at which step (`Locks`), that `mPartnerUp` is down from its reset
  to the wait (`Switching`), and that a status that is told or about to be told is the port's
  unless a message waits for which none was read or the read failed (`Reports`). `RoleHeld` excepts
  a mode the kernel refused. Assumes that the modes are neither
  dual role nor invalid ones.
* **UsbProofs**, the gadget HAL: `UpIsRequested`, `SuccessIsReal`, `GadgetTypeOK`. The first two
  relate the kernel to a request that is served in many steps, each of which may fail, so the
  invariant says at each step of the call what is linked, whether a monitor runs and what it may
  have reached (`CallProgress`), that a gadget that is up has functions (`UpHasFunctions`), and
  which endpoints the monitor looks at and watches (`EndpointLists`). `StopIsAnswered` *(safety
  half of CallReturns)*: the monitor that is joined was asked to stop or has left, and no
  request to stop is left for the next one. `NoMessageMissed` *(safety half of PullsUp)*: a
  monitor that sleeps with the gadget down, as it knows, and all endpoints there has a message
  to read or was refused the pull-up. Assumes only that functions are numbered and requests are sets of them.

Each inductive invariant was checked with TLC on the instance of the component's run before
it was proved.

Induction. The library's induction theorems take an operator as a parameter, which the installed
provers cannot instantiate. `LeastExists` and `Induction` of MessageQueueProofs state it for a set
instead: a set of numbers that lacked one would lack a least one, by `WFMin`.

Only model-checked: the liveness properties themselves (`ExitTerminates`, `HintReleased`,
`FileNodesCatchUp`, `Converges`, `EveryMessageLeaves`, `SwitchReturns`, `Settles`, `CallReturns`,
`PullsUp`, `SendReturns`, `StopReturns`, `FrameDelivered`), because fairness and ENABLED are beyond
the prover. What the two runs that find a disagreement show is a counterexample, and nothing is
proved of it.

`TypeOK` documents the ranges of a module's variables. Its ranges are part of each
inductive invariant, and TLC confirms them when it is added to a configuration, which the
runs leave out.

## Left out of the models

Logging, tracing and dump functions; formatting and parsing except for what the parser
lets through; `verity_corrupted` in BootControl; unmonitored sensors, cooling devices
and the conversion of temperatures in Thermal; port enumeration beyond one port in Usb;
`getUsbSpeed` and IRQ affinity in UsbGadget; the associated decoder, the sysfs retry loop,
failures of `pthread_create` and package data that leaks at exit, and
`dtv_audio_dec_para_get` in Amadec; the native window,
unaligned widths, the event callback and closing a running device in ScreenSource.

The share of the repository's lines the models stand for is small and will stay so: most of
its lines are vendored audio codecs, the Wi-Fi HAL's conversions, camera image processing and
headers, which have no state a finite model would tell apart.

## Plan

Models, in this order: EArc; HdmiCecControl over CMsgQueue; PowerHintSession and Power
over the hint manager; health; oemlock; Wi-Fi start and stop.
