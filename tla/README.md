# Verification of the NESFR VR system

TLA+ models of the robot side of the NESFR VR system, TLC configurations that
check them on small instances, and TLAPS proofs for every instance.

The program connects to a VR headset over TCP, streams the robot's cameras and
audio to it, and carries out the headset's PLAY and STOP. Around that it makes
and takes down a gimbal and a rover, whose control thread shares one flag with
the main thread. Two smaller programs of the repository, `VideoStreamTest` and
`video_stream`, stream the cameras without the rest of the robot. Paths below are relative to the repository (`src/NesfrVR.cpp`
is the file of that name in the repository's own `src` directory).

Contents: [the system](#1-the-system), [the modules](#2-the-modules),
[the runs](#3-the-runs), [fairness](#4-fairness), [the proofs](#5-the-proofs),
[findings](#6-findings), [what is not modelled](#7-what-is-not-modelled),
[what could come next](#8-what-could-come-next).

## 1. The system

### Components

| component | source | state | operations |
|---|---|---|---|
| main loop | `src/NesfrVR.cpp` 304-425, 593-609 | `system_on`, `stream_state`, the call it is at | connect, build pipelines, announce, carry out commands, end the session |
| life cycle | `src/NesfrVR.cpp` 427-666 | the device pointers, `device_options`, the configuration `root`, `ret` | `main`, `run`, `_init`, `_deinit`, `stop`, signal handlers |
| `VideoStreamer` | `video_streamer/src/VideoStreamer.cpp` | five pipeline pointers | `initDevices`, `initGStreamer`, `playStream`, `stopStream`, `deinitGStreamer`, `run` |
| `CtrlClient` | `video_streamer/src/CtrlClient.cpp` | `sockfd` | `init`, `conn`, `deinit`, `_read`, `readcmd`, `_write` and its callers |
| V4L2 devices and cameras | `video_streamer/src/V4L2*.cpp` | a `file_card_map` per camera object, the chosen device files, `initialized` | list `/dev`, query, find, find and remove |
| `RoverController`, `Nesfr7ROS2` | `src/RoverController.cpp`, `src/Nesfr7ROS2.cpp` | the control thread, the UDP socket, a reference to `system_on` | construct, `initDevice`, `ctrl_thread_func`, `deinitDevice` |
| `GimbalController` | `src/GimbalController.cpp` | the RS2 | `initDevice`, `deinitDevice` |
| `NetUtils`, `AudioPlayer` | `include/Utils.hpp` | none / one GStreamer pipeline | find the interface and the headset; play a guide |
| configurations | `configs/*.json` | data | which devices there are, the names of the cameras |
| service | `nesfr_vr.service`, `nesfr_vr.sh`, `ros2/packaging` | none | start, restart on failure |
| streamer test program | `video_streamer/src/VideoStreamTest.cpp` | a `VideoStreamer`, a `CtrlClient` | find the headset, `initDevices`, `VideoStreamer::run`, one signal |
| legacy demo | `video_streamer/src/video_stream.cpp` | one `file_card_map`, four pipeline pointers | find the headset, scan `/dev`, `init_gstreamer`, `main_loop`, `deinit_gstreamer` |
| others | `qt5gui`, `video_streamer/utils` | | stand-alone programs and tools |

### How they interact

- The **main thread** runs `main` -> `run` -> `_init`, `_mainLoop`, `_deinit`.
  It calls the streamer, the client, the gimbal and the rover directly, and
  keeps the device pointers.
- The **rover's control thread** is started by `RoverController::initDevice`
  and joined by `deinitDevice`. It reads `system_on` and clears it when it
  fails; the main thread clears it in `stop()`.
- The **headset** is at the other end of the TCP connection: it sends commands,
  is told the stream state, closes or resets.
- **Signals** run handlers that throw. The exception unwinds the main thread
  from whatever it is doing: in the loop `run()` catches it, elsewhere `main()`.
  The handler never returns, so the kernel keeps that signal masked in the main
  thread, and delivers a repetition to another thread.
- **GStreamer** and the kernel are used through calls that succeed or fail.
- **The network**: network cards, hosts with changing addresses and the kernel's
  ARP cache, which `arp` and `nmap`, run through a shell, read and fill.
- The two **demonstration programs** use the same `CtrlClient`, the first also
  `VideoStreamer` and the cameras; the second holds copies of the older code.

### What is hard, and what makes each component correct

- **Main loop.** Each of about twenty calls can fail, and a signal can strike
  between any two; the headset disappears at any moment, and a read or a write
  sees it first. `stream_state` and the pipelines outlive what announced them.
  Correct: what the headset was told is what happens; a session starts stopped
  and with new pipelines; no call uses a dead socket; every way out releases
  pipelines, socket and flag; streaming ends when the headset is gone.
- **Life cycle.** Initialization stops half-way, deinitialization too, and
  nothing looks at the pointers. A joinable `std::thread` that is destroyed
  aborts the process; a join before `stop()` hangs it. Correct: a device is used
  only while it exists; the thread never outlives its rover; a signal ends the
  process; what is logged and returned is true.
- **Main loop and life cycle together.** The rover's thread, the loop and `run`
  share `system_on`, and each may end it first. Correct: nothing sets the flag
  again, the loop returns 0 only when the thread has failed, whatever ends the loop
  is followed by `stop()` and the releases, and from then on every step leads to
  the end.
- **Video devices.** Two scans that know nothing of each other, names that
  serve for both eyes, links, cameras that come and go between two calls.
  Correct: eyes and main camera are different cameras, in a predictable order,
  and "initialized" means that there is something to stream.

- **Discovery.** The interface list, the cache and the headset change between
  any two calls, results of calls are not looked at, and one function returns
  `false` where 0 means success. Correct: what is found was the configured
  card's and the headset's; a headset that stays is found.
- **Command stream.** TCP cuts messages where it likes and `recv` is called once
  for each. Correct: commands are obeyed in order and once, and after a message
  in pieces the robot finds its place again.
- **Demonstration programs.** Results of state changes are ignored, pipelines of
  one of them outlive the sessions. Correct: up to the first failure what
  `StreamSession` promises; after it nothing is streamed to a headset that is
  gone, as far as the code can do something about it.

The hazards, each at its line with the properties that would catch it, are in
`PROJECT.json`; for those without a property it says why there is none.

## 2. The modules

| module | models | composed of |
|---|---|---|
| `VideoStreamer` | the five pipelines and the calls that walk them, one pipeline at a time | |
| `CtrlClient` | the socket, the connection, the headset behind it | |
| `MainLoop` | `_mainLoop`, the try block of `run` and its releases | EXTENDS the two above |
| `StreamSession` | abstract: what the headset is promised, and what follows for it (`Honest`) | instantiated by `MainLoop` and `DemoLoop` |
| `DemoLoop` | `VideoStreamer::run` with `VideoStreamTest`'s `main`; `video_stream`'s `main_loop` and `main` | EXTENDS `VideoStreamer` and `CtrlClient`, instantiates `StreamSession` |
| `Lifecycle` | `main`, `run`, `_init`, `_deinit`, the rover's thread | instantiated by `RunLoop` |
| `RunLoop` | the main loop next to the rover's thread, where `Lifecycle` has one label | EXTENDS `MainLoop`, instantiates `Lifecycle` |
| `Discovery` | `NetUtils` and the searches of all three programs over a changing network | |
| `CtrlWire` | `readcmd` on a byte stream | instantiates `CmdChannel` |
| `CmdChannel` | abstract: what becomes of the commands of a headset | instantiated by `CtrlWire` |
| `VideoDevices` | `initDevices`, and `video_stream`'s search, over a changing `/dev` | |
| `MC*` | values for TLC | EXTENDS the module of that name |
| `*Proofs` | theorems | EXTENDS the module of that name and TLAPS |
| `PartsProofs` | lemmas about `VideoStreamer` and `CtrlClient` | EXTENDED by `MainLoopProofs` and `DemoLoopProofs` |

Conventions. `pc` is the call the main thread is about to make. An action is one
call with all its outcomes: the success, the early return, the exception. A
definition marked "Mutant of X" is X with a plausible bug; it is not part of the
specification, and the property named for it in `PROJECT.json` fails when it
takes X's place.

### MainLoop, VideoStreamer and CtrlClient

`pipeline[p]` is the GStreamer state of one of the five pipeline pointers, with
`"nullptr"` for none. `initGStreamer`, `playStream`, `stopStream` and
`deinitGStreamer` walk them in the order of the code; `cursor` is the pipeline
the walk is at, so that a failure or a signal leaves the walk where it was.
`Wanted` is the configuration: which pipelines `initGStreamer` builds.

`sockfd`, `open` and `link` are the descriptor, the process's open descriptors
and the connection: `"none"`, `"up"`, `"fin"` (closed by the headset), `"reset"`
(not yet reported) and `"broken"` (reported, or about to raise EPIPE). `inbox`
holds the commands that arrived; after a close or a reset `recv` still hands them
out before it reports the end. `told` is a history variable: the last state announced
in this session. `Sent`, `SendFails` and `SendKills` are the outcomes of a
`send`; the last is SIGPIPE, which ends the process when it is not ignored (it
is not in a process started from a shell, `SigPipeIgnored = FALSE`; systemd
ignores it by default).

The actions of `MainLoop` follow the source from top to bottom. `LeaveLoop` is
every `return` of `_mainLoop` together with the `stop()` behind it in `run`.
`SignalInLoop` is the first signal, caught by `run`; `SignalInRelease` a second
one of another number, which leaves `run`; `SignalElsewhere` a repeated one,
taken by a thread whose frames nothing may be thrown through.

`StreamSession` knows a session, the command being carried out, what was told
and how much flows (nothing, some, all). `MainLoop` maps its state to it with
`SessionState`, `Doing`, `Told` and `Flow`; a walk that sets one pipeline after
the other is a sequence of `Rise` or `Fall` steps, the read that sees the end of
the connection is a command "stop", and every other step is a stutter.

### DemoLoop

The two programs share their loop, which is `MainLoop`'s in an earlier form, and
differ in how long a pipeline lives; `program` says which one runs. With
`VideoStreamTest` the pipelines are those of `VideoStreamer`, built when a
headset has connected and dropped when it has gone (`InitGStreamer`,
`DeinitGStreamer`). `video_stream` launches four of them before the loop, leaves
out those without a camera (`LaunchPipeline`), looks at the errors at the end
(`CheckLaunched`; `g_error` aborts), and keeps them. Neither looks at the result
of a state change (`ChangeFails`): `playStream` drops the failing pipeline and
skips those behind it, `video_stream` goes on with the next. The history
variable `failed` remembers that it happened, for the properties. SIGINT is
caught in the try block only (`InterruptInLoop`); before and behind it, it ends
the process (`InterruptBefore`, `InterruptInRelease`).

The refinement mapping to `StreamSession` counts a program that has had a
failure as over: nothing is promised from then on.

### Discovery

`nic` is the card behind every interface name, `place` the host at every
address, `arp` the cache; all change between any two calls (`NetworkMoves`; cards
only while the list of interfaces is walked, hosts only while the headset is
searched, since nothing else reads them). `ListInterfaces` is SIOCGIFCONF,
`ProbeInterface` one row with its SIOCGIFHWADDR, whose failure leaves the answer
of the row before in `probed` (`Answer`). `FindHit`, `FindMiss` and `FindFails`
are the outcomes of reading the cache once, `Scan` is nmap: of the addresses of
the scanned network it brings any subset up to date. `Matches` has the rule that
a line counts if it has five tokens, which a "-" in the name of its interface
breaks (`Tokens`, `DashedNets`). `bore` and `had` are history variables: the
names the configured card has had, the addresses the headset has had.

### CtrlWire and CmdChannel

The stream is the messages under way, `msgs`, of which `ahead` units of the first
are taken and `avail` more have arrived. A `ReadCmd` takes what is there, one
message's length at most (`Received`), and yields the command only if it began at
the start of a message and got as far as `cmd` (`CommandsIn`); otherwise any
command, since the bytes are another field's, another message's or what an
earlier call left on the stack. `CmdChannel` has no lengths: a command that has
not arrived as a whole may garble the channel, and a channel that is garbled is
sound again at the latest when nothing is pending. `CtrlClient`, where the
headset's commands come in any order, abstracts from both.

### Lifecycle

One label per call of `run`, `_init` and `_deinit`; the whole main loop is the
label `"loop"`. The configuration `root` is chosen in `Init`, among all
combinations of devices, including types the code does not know (for which it
throws). A device pointer is `"null"`, `"made"` (constructed) or `"ready"`
(initialized). `Return` and `Escape` are the two ways out of `run`: with a value,
or with an exception that `main` catches, which leaves `ret` at 0 and is remembered
in the history variable `thrown`. `Escape` is possible wherever the code or a
library it calls can throw: `std::filesystem` in `SavePid` and `LoadConfig` (where a
`HOME` that is not set may also crash the process), jsoncpp's `asString()` and
`asUInt()` on a value of another type in `FindInterface` and the devices' init, the
constructors for an unknown type, and the start of the rover's `std::thread`, when
the rover is already made. `Terminate`
is `std::terminate`: an exception nobody catches, or the destructor of a joinable
thread in `Exit`; `BrokenPipe` is a write of the loop that raises SIGPIPE.

### RunLoop

`MainLoop` takes apart what `Lifecycle` has in the labels `"loop"` and
`"release"`, and knows of the rover only that it may clear `system_on`. `RunLoop`
is `MainLoop` with the missing half: the state of the rover's thread, which a
signal or its catch clause ends, and what `_mainLoop` returned. `RunPc` maps the
loop's calls to `Lifecycle`'s labels, `Life` is `Lifecycle` with the devices
ready, as `_init()` left them (`hw`). Two facts tie the modules together:
`RunsMainLoop`, that the thread takes nothing from `MainLoop`, so that everything
shown of `MainLoop` holds next to it; and `FitsLifecycle`, that every step is one
of `Lifecycle`'s or invisible there, so that what `Lifecycle` says in one label is
what the loop does.

### VideoDevices

`dev` is what is behind each device node, `Replug` changes it between any two
system calls. `ListFiles` is the directory scan and the removal of links whose
target is listed (lines 113-163 of `V4L2Device.cpp`), `QueryFile` one `open`,
`VIDIOC_QUERYCAP`, `close`; `Matching`, `IsFirst` and `Remove` are the search in
the map. `NameRank` is the order of the map: it is keyed by name, so that
`/dev/video10` comes before `/dev/video2` although the scan is sorted by number.
`changed` is a history variable, used by the properties only. The actions with
`Demo` in their names are `video_stream`: one scan, one map, from which all three
searches remove what they find, and no end when a camera is missing.

## 3. The runs

| run | states | checks |
|---|---|---|
| `RunLoopSafety` | 236,836 | type invariant, four invariants, four action properties, refinement of `StreamSession` |
| `MainLoopLiveness` | 51,612 | three liveness properties under `FairSpec` |
| `MainLoopRetry` | violation | finding 1 |
| `LifecycleMain` | 1,881 | type invariant, five invariants, an action property, two liveness properties under `FairSpec` |
| `LifecycleShutDown` | violation | finding 2 |
| `LifecycleFailureSeen` | violation | finding 3 |
| `LifecycleRoverFailure` | violation | finding 4 |
| `VideoDevicesSafety` | 160,738 | type invariant and four invariants |
| `DiscoverySearch` | 446,286 | type invariant, two invariants, a liveness property under `FairSpec` |
| `DiscoveryPlaceholder` | violation | finding 5 |
| `CtrlWireStream` | 96,936 | type invariant, refinement of `CmdChannel`, a liveness property under `FairSpec` |
| `DemoLoopSessions` | 1,256,471 | type invariant, an invariant, an action property, refinement of `StreamSession`, two liveness properties under `FairSpec` |

Properties and what they mean. `SessionStartsStopped`, `SocketIsLive`,
`ByeMeansShutDown`, `LostPlaceEnds`, `ToldIsTrue` and `RunsMainLoop` are in no run:
they are proved (section 5), and most of them follow from others that a run checks.

- `AnnouncedStateHolds`: between commands the announced state is `stream_state`;
  after "1" every configured pipeline plays, after "0" none does.
- `FreshPipelines`, `SessionStartsStopped`: nothing of one session is left for
  the next; `initGStreamer`'s "already constructed" returns are never taken.
- `SocketIsLive`, `SessionSocketReleased`: calls are made on an open descriptor
  of this session, and giving a connection up closes it.
- `ReleasedAtExit`: every way to `_deinit()` has dropped pipelines and socket
  and cleared `system_on`.
- `ImplementsSession`: all steps of the loop are steps of `StreamSession`.
- `SignalEndsRun`, `GoneHeadsetStopsStreaming`, `ShutdownNoticed`: what must
  happen eventually. The last has an exception that is the code's: `_read()`
  polls without a look at `system_on`, so a loop whose headset stays and is
  silent does not notice that the rover's thread has ended.
- `StopCountsDown`, `GoneHeadsetCountsDown`: how many calls are left. Once
  `system_on` is cleared each call of the main thread brings it one nearer to its
  end, which is at most 39 calls away; once the headset is gone each brings it
  nearer to the end of the session, at most 8 calls for every command the headset
  left behind. The exception is the same as above: `StopCountsDown` counts calls,
  and a `recv` on a silent connection is one that does not come back.
- `ThreadHasItsRover`, `JoinsOnlyAfterStop`, `CallsWhatWasMade`,
  `OptionsAreReal`, `ByeMeansShutDown`: the life cycle's devices, thread and
  announcements. A join always finds `stop()` called and a thread not yet joined.
- `SuccessMeansAllDown`: an exit status 0 that `run()` has returned is true: the
  loop was entered and has returned or was left by a signal, and gimbal, rover and
  streamer are gone. An exception that leaves `run()` also ends in the status 0, with
  whatever was made left as it was; the property is not about it, see finding 3.
- `ShutdownOnlyGoesOn`: behind the loop every step, whoever makes it, leads on to
  the end, at most eight steps away: a failing deinit, another signal and the end
  of the thread included.
- `FitsLifecycle`, `RunsMainLoop`: see `RunLoop` above.
- `RegularEndIsRoverFailure`: the only regular end of `_mainLoop`, behind its
  outer loop, is the failure of the rover's thread. Everything else that ends the
  loop is a failure or a signal.
- `SignalEndsProcess`: a signal ends the process.
- `GracefulShutdown`: behind the loop, whether it ended by itself or by a signal,
  the process exits and is not aborted, for every configuration. The exceptions are
  another signal, the same one again (history variable `repeated`), and a gimbal
  whose deinit fails where there is a rover (`GimbalLeavesRover`): `_deinit()` then
  returns without joining the rover's thread, whose `std::thread` is destroyed.
- `EyesAreDistinct`, `MainIsNoEye`: one camera is never used twice, unless it was
  plugged in or out during the scan. Without that reservation both are false: two
  links to a camera that is out are both listed, and a camera that appears then
  is found by both.
- `ReadyMeansSources`: what `initDevices` returns 0 for is enough for
  `initGStreamer`.
- `EyesInOrder`: eyes of the same name are told apart by number, except across
  the step from one digit to two.
- `InterfaceIsOwn`, `FoundWasHeadset`: the interface has had the configured card,
  the address has been the headset's, even with names that vanish and entries
  that are stale; the exception for a `popen` that fails is finding 5.
- `HeadsetIsFound`: NesfrVR finds a headset that stays where nmap looks, however
  late it came, unless a call fails or a signal ends the search.
- `LostPlaceEnds`, `ImplementsChannel`, `HeadsetIsHeard`: what a message in pieces
  can do to the commands, how long that lasts, and that it does not silence them.
- `FreshPipelines`, `SocketIsLive`, `SignalEndsRun`, `GoneHeadsetStopsStreaming`
  of `DemoLoop` are those of `MainLoop` for the two programs. The last has an
  exception that is the code's: a pipeline of `video_stream` that failed to pause
  may go on streaming to a headset that is gone.
- `KeepsSessionUntilFailure`: the programs implement `StreamSession` until the
  first state change that fails, and not beyond.
- `ToldIsTrue`: up to then the state the headset was told last is what flows.
- `GoneHeadsetCountsDown` of `DemoLoop` is that of `MainLoop`, for both programs,
  with or without a failed state change: at most 7 calls for every command left.

### Bounds and why they suffice

- Descriptors (`Fds`): two. A descriptor that is leaked by a refused connect
  stays in `open`; two allow a session after one leak, and running out. The retry
  run has four, to show several retries before the last.
- `MaxInbox`: two commands on their way, so that a command is behind the one
  being carried out and a close behind both. The process reads one at a time and
  remembers nothing of the earlier ones.
- Signals: two, so that a second one of another number finds the first handled;
  a third adds only another way out of the same releases. In `MainLoopLiveness`
  one.
- Configurations: `RunLoopSafety` has the rover with a thread, the gimbal and the
  main camera, `MainLoopLiveness` the rover; without one of them the loop has fewer
  steps of the same kinds. The proofs are about all of them.
  `Lifecycle` takes all 24 combinations at once.
- Video devices: three cameras at the nodes 1, 2 and 10, links 3 and 4 to node 2,
  three card names of which one serves for both eyes, two changes. Two changes
  put a camera out before a listing and in before a query; node 10 is the one
  where the order of names differs from that of numbers. `MaxChanges` bounds
  `Replug` by name.
- Discovery: two interfaces and two cards, so that one name can vanish behind the
  other; two addresses in the network that is scanned, so that the headset can
  move and leave a stale entry, and one behind an interface with a "-"; a second
  host that may take the headset's old address. Nothing is bounded: the state is
  finite.
- Command stream: a `RemoteCtrlCmdMsg` has 44 bytes, a header of 28, `cmd` and
  three parameters: eleven units of four bytes, of which `cmd` is the eighth. A
  piece that ends within a unit is not told apart; three messages under way
  (`MaxPending`), so that one `recv` can touch two of them with a third behind.
- `DemoLoop`: two descriptors, two commands on their way, both programs in stereo
  with a main camera; SIGINT any number of times.

No run turns deadlock checking off: the ends of the process are explicit
(`Terminated`), so that a main thread that waits for ever in a join would be
reported.

## 4. Fairness

- `MainLoop!FairSpec` is `WF_vars(MainThread)`: the main thread runs. A `recv`
  that has something, or the end, to report returns; `send` and `connect` return.
  Nothing is assumed of the headset, of signals or of the rover. While the headset
  says nothing, no action of the main thread is enabled in `_read()`, which is the
  polling of the code.
- `Lifecycle!FairSpec` adds `WF_vars(RoverThreadEnds)`: the control thread goes
  round its loop, which tests `system_on` and waits for nothing (`waitForVRInput()`
  is never called, section 7), and is scheduled. It is not assumed to
  fail, the main loop is not assumed to return (`LoopReturns` with -1 is enabled
  all along, but no liveness property starts at the loop without a signal that
  leaves it), and discovery may go on for ever.
- `DemoLoop!FairSpec` is `WF_vars(MainThread)`, as for `MainLoop`.
- `CtrlWire!FairSpec` is weak fairness of the robot, which returns to `readcmd()`
  after every command, and of TCP, which delivers what was sent. The headset is
  free; `HeadsetIsHeard` is about one that sends and neither closes nor resets.
- `Discovery!FairSpec` is weak fairness of the program and strong fairness of two
  of its outcomes: a scan during which the headset is where nmap looks hears it in
  the end (`ScanHears`; nmap asks every address and the headset answers), and a
  row that is in the cache when it is read, again and again, is read in the end
  (`FindHit`; the kernel keeps a fresh entry for at least 15 seconds and the
  program reads right after the scan). No fairness is assumed of the network.
- The specification of the rover's thread and of signals has no fairness, so none
  of the liveness results depends on either arriving.

## 5. The proofs

TLAPS checks the following for all values of the constants that the named
assumptions allow (`MainLoopAssumption`, those of `VideoStreamer` and
`CtrlClient`, `LifecycleAssumption`, `DevicesAssumption`, `NamesAssumption`,
`DiscoveryAssumption`, `WireAssumption`): any set of descriptors, any number of
signals, any bound of the inbox, every configuration, any device files (up to
`/dev/video99`), links, names and number of replugs, any networks, any length of
a message.

**MainLoopProofs.** `TypeCorrect`; then `IInv`, with these parts:

- `CursorAtRest`: outside of the four walks the cursor is at the first pipeline.
  Without it a walk could start in the middle and leave pipelines out.
- `SocketInv`: at each label, whether there is a connection, whether its
  descriptor is open and whether anything has been told.
- `StateInv`: the value of `stream_state` at each label. In particular it is 0
  whenever the outer loop starts again *and* `system_on` holds; an inner loop left
  because of `system_on` carries 1 to the test of the outer loop, which then ends.
- `PipelineInv`: for each pipeline, its state at each label, before and behind the
  cursor of the walk.

No property above is inductive by itself: that `AnnouncedStateHolds` survives a
PLAY needs the pipelines in front of the cursor, and `FreshPipelines` needs the
whole of the previous session. From `IInv` follow `AnnouncedStateHolds`,
`FreshPipelines`, `SessionStartsStopped`, `SocketIsLive`, `ReleasedAtExit`, the
action property `SessionSocketReleased`, and `ImplementsSession`: the initial
state maps to the initial state of `StreamSession`, and each action of
`MainLoop`, in a state with `IInv`, to one of its actions or a stutter.

The two countdowns are the half of liveness that can be proved. `StepsToEnd` and
`StepsToNotice` are what a liveness proof would use for its measure: a number for
each call (`CallsBehind`), what is left of the walk (`WalkLeft`), the commands in
the inbox and a reset not yet reported. `StopCountsDownAlways` and
`GoneHeadsetCountsDownAlways` show that nobody raises it and that each call of the
main thread lowers it (`MainThreadProgress`, `OthersProgress`, `GoneStep`), for any
bound of the inbox. Of liveness that leaves the fairness, that a call which can
return does return: the runs check the conclusion.

**RunLoopProofs.** `RunInv` is `MainLoop`'s `IInv`, carried over because a step of
`RunLoop` is one of `MainLoop` (`RunsMainLoopAlways`), with what the thread adds:
while it runs in the loop `system_on` is set, since only it clears the flag there;
and the flag is clear behind the loop. `FitsLifecycleAlways` goes through the
actions of both modules: a call within the loop is a stutter of `Lifecycle`, each
way out of it is `LoopReturns`, `BrokenPipe` or `Signal`, for any configuration of
gimbal and rover. `RegularEndIsRoverFailureAlways` follows from the same invariant.

**LifecycleProofs.** `IInv` says which devices exist at each label, as a function
of the configuration, that the thread exists exactly as long as the rover is
ready, and that `system_on` is cleared from the release on. It yields
`ThreadHasItsRover`, `JoinsOnlyAfterStop`, `CallsWhatWasMade`, `OptionsAreReal`
and `ByeMeansShutDown`. `SuccessMeansAllDownAlways` needs the part
`SuccessInv`, which says where a return value of 0 can come from when no exception
has left `run`: only from its last line, behind a loop that was entered and the
whole of `_deinit()`.
`ShutdownOnlyGoesOnAlways` is proved action by action (`ExitStep`), with `IInv` for
the steps that can still happen at each label.

**VideoDevicesProofs.** The invariant says what the scans still know when cameras
change under them: an entry of the map and a chosen file have the card they were
taken for, or their camera was touched (`Known`, `Chosen`); two files of the
stereo scan that lead to the same camera are links listed while it was out
(`Spread`); a chosen eye is out of the map (`Taken`); and no file that is left in
the map or was chosen for the right eye could have been the left one and comes
before it (`Ordered`). It yields `EyesAreDistinct`, `MainIsNoEye`,
`ReadyMeansSources` and, with the arithmetic of `NameRank` (`RankOrder`),
`EyesInOrder`. The steps of both programs are proved together.

**DiscoveryProofs.** `Invariance` is the induction. The two invariants need
`Bounded`: a name answers with the own card only if it has had it, and the ARP
cache names the headset only at an address the headset has had; and `Leftover`:
the answer left over in `ifr` is never the own card's, because the walk ends with
the first that is. That is why the unchecked ioctl() does no harm. It yields
`RightInterface` (`InterfaceIsOwn`) and `RightHeadset` (`FoundWasHeadset`).

**CtrlWireProofs.** `TypeCorrect` is an induction: what is taken and what has
arrived is never more than what was sent. `PlaceIsFoundAgain` (`LostPlaceEnds`)
follows from it, and `Refinement` shows that each step of `CtrlWire` is one of `CmdChannel` or a
stutter: the case that matters is a `ReadCmd` that takes less than the rest of
the first message, all of it, or some of the second one too. `CmdChannel` says
exactly when a message counts as arrived whole (`whole'` in `Obey` and `Stray`);
`WholeLemma` and `WholeNext` tie that to the bytes that are left.

**DemoLoopProofs.** The invariant has the parts of `MainLoop`'s, each for the
program it holds of, and yields `FreshPipelinesAlways`, `SocketIsLiveAlways` and
the refinement `KeepsSessionUntilFailureAlways`. The steps of the pipelines and
of the socket, which `MainLoop` has too, are typed once, in `PartsProofs`.
`ToldIsTrueAlways` is inherited: `HonestInv` is proved of `StreamSession` alone,
and the refinement carries it to both programs. `GoneHeadsetCountsDownAlways` is
the countdown of `MainLoop` with this loop's calls; a state change that fails, which
these programs ignore, must still bring the walk to its end.

**Only model-checked.** The liveness properties: liveness under fairness and
ENABLED are beyond the prover. All invariants, action properties and refinements
that the runs check are proved. Induction over data and RECURSIVE operators would
be out of reach as well; no module needs them.

## 6. Findings

1. **Retry runs out of descriptors** (`MainLoopRetry`,
   `RefusedConnectIsRetried`). `conn()` returns -1 without closing `sockfd`, and
   `_mainLoop` goes back to `init()`, which takes another one. After as many
   refused connects as there are descriptors `init()` fails, and the loop with it.
   The code says "connectto() failed retry after 1 sec" (`src/NesfrVR.cpp`:313).
2. **Shut down with a running thread** (`LifecycleShutDown`, `ShutDownIsTrue`).
   When `_init()` fails or a signal arrives after the rover's thread was started,
   nobody calls `_deinit()`. `main` logs "System is shut down"
   (`src/NesfrVR.cpp`:663) while the thread runs, and the destructor of its
   `std::thread` aborts the process.
3. **A failed loop is a success** (`LifecycleFailureSeen`, `LoopFailureIsSeen`).
   `run()` drops the result of `_mainLoop()`; the process exits with 0, and
   "Restart=on-failure" (`nesfr_vr.service`:33) does not restart it. The same is
   true of an exception that leaves `run()` before the loop, such as that of an
   ill-typed value in the configuration: `main` catches it (`src/NesfrVR.cpp`:658)
   with `ret` still 0.
4. **The rover's init aborts** (`LifecycleRoverFailure`,
   `RoverFailureIsReported`). `init_udp()` throws a string literal, for which there
   is no catch clause up to and including `main`, so "_initRoverController()
   failed" (`src/NesfrVR.cpp`:516) is never reached for it.
5. **Found without an address** (`DiscoveryPlaceholder`, `FoundIsAnAddress`).
   `findHeadsetIPAddrbyHWAddr()` returns `false`, that is 0, when `arp` cannot be
   started, and 0 means found: the search ends with the placeholder
   `192.168.0.XXX`, ">> VR Headset ip: %s" (`src/NesfrVR.cpp`:482) prints it, and
   the loop tries to connect to it until its descriptors are used up (finding 1).

## 7. What is not modelled

- What GStreamer does inside a pipeline, and whether an element that is dropped
  while it plays stops: the modules follow the streamer's pointers. Exceptions of
  signal handlers pass GStreamer's C functions, which may hold a mutex; nothing in
  the repository tells what is left locked then.
- What is in the picture: a camera that was replugged between two sessions under
  the same file name is not told from the one that was found at the start.
- The UDP input and the ROS topic of the rover's thread: `is_active` is never set
  in this repository, so `waitForVRInput()` is never called, and what would be
  published is a message that is never filled. `Nesfr4` and the RS2 gimbal are in
  submodules whose sources are not in the repository, and are modelled by the
  results the callers expect.
- A signal between `gst_object_unref(p)` and `p = nullptr`
  (`VideoStreamer.cpp`:273-274, 310-311 and their like): the two are one step of
  the models, so the pointer to a freed pipeline that the throw would leave, and the
  second release of it at `src/NesfrVR.cpp`:608, are not seen. `ReleasedAtExit`
  and `SignalEndsRun` are to be read with that reservation, and `ReleasedAtExit` says
  nothing of a process that is killed, by SIGPIPE or a repeated signal.
- Running out of memory: no action stands for a `std::bad_alloc`.
- What a submodule might do to `system_on`: `RS2` and `Nesfr4` have a reference to
  it. `Nesfr4` may clear it from its thread, as `Nesfr7ROS2` does; that the gimbal
  leaves it alone is assumed, and `RegularEndIsRoverFailure` rests on it.
- Links to links among the device files (`DevicesAssumption`): the links of udev lead
  to the device nodes themselves. Of a chain the code would keep or drop the middle
  one according to the order of the directory.
- How long an audio guide lasts. It is waited for without a timeout; the fairness
  of the main thread assumes that it ends.
- Time: the sleeps between retries, the 50 ms of `select` (which `select` uses up
  once, so that the loop polls without a pause afterwards).
- `SavePid`'s condition and the bytes of the configuration file: both calls
  succeed, fail or throw.
- Service and packaging: unit files and start scripts. A restarted process keeps
  nothing of the one before it, so that a model of the restarts would add nothing
  to `Lifecycle`.
- The Qt GUI, which starts programs of other repositories in terminals, the
  vendored SDK scripts, and the command line tools under `video_streamer/utils`:
  `generate_imgs` and the calibration script are sequential image processing,
  `ip_identifier` prints interfaces, and `video_dev_identifier` lists `/dev` as
  `VideoDevices` has it, and keeps nothing.
- Options of the demonstration programs, `VRInput.hpp`, `logging.hpp`: data and
  macros.

## 8. What could come next

- The proofs of liveness from the countdowns, when the prover can reason about
  ENABLED: what is missing is that the main thread has a call to make.
- `VideoDevices` composed with `MainLoop`: files that were found once and are
  opened at every session, with cameras replugged in between, once there is
  something that says what should happen then.
- A model of GStreamer's elements beside the pointers, if its documentation on
  disposing of elements that are not in NULL is to be taken as a reference.
