# Verification of reactos-builder

reactos-builder turns the ReactOS install ISO into a QEMU image that can be
driven over telnet. `build.py` runs on the build host: it fetches a medium,
boots QEMU, waits, types, talks to the guest, shuts it down, exports the disk
and boots the result once more. ReactOS has no remote-access server, so the
builder bakes one into the image: `files/anyvmtd.c`, a Win32 telnet daemon that
gives each connection a `cmd.exe`. A nightly workflow watches upstream for
releases. `build.py` is shared with builders of other systems, so its ssh,
console and disk-image paths are modelled along with those ReactOS takes.

This directory holds TLA+ models of the parts of that system where order,
chunking, timing and partial failure decide the result; TLC configurations
that check them; and TLAPS proofs of the safety properties, for every value of
the constants.

## 1. Inventory

| Component | State | Operations | Hard behaviour | Correct when | Where |
|---|---|---|---|---|---|
| session of anyvmtd (`serve_conn`, `send_all`, `write_all`) | two pipes, the socket, `stdin_eof`, the chunk in hand | pump output, pump input, half-close, stop, end | one thread, two blocking directions, short writes, half-close, a shell that dies | no byte lost, repeated or reordered; EOF last; every session ends | `ServeConn`, `ByteRelay`, `AnyvmtdProofs` |
| telnet framing (`iac_filter`, `send_iac_escaped`, `_telnet_eat_iac`) | `iac_carry` | parse a buffer, escape a buffer | sequences cut by `recv` | result independent of the cuts | `TelnetCodec`, `IacFilter`, `EatIac`, `TelnetProofs` |
| server and service of anyvmtd (`main`, `service_main`, `service_ctrl`, `run_server`) | listener and backlog, `g_stop`, `g_status` | start, bind, accept, stop, report | a second instance, a stop during a session, two threads reporting | stop ends it, its end is reported, no client waits for ever | `AnyvmtdServer` |
| registration in the guest (`anyvminst.cmd`) | service key in memory and on disk | `sc create`, `sc start`, fallback | power cut before the hive is written | the shipped image has the key | `DurableChannel` |
| ReactOS hooks | elapsed and quiet time | three phases, the gate, the install wait | no DHCP lease on the first boot; every wait must be bounded | ends; a passed gate means a service | `DurableChannel`, `Pipeline` |
| QEMU process lifecycle (`clearVM`, `launch_qemu`, `pid_alive`, `destroyVM`, `_wait_vm_down`, `start_and_wait`, `shutdown_and_wait`) | the process, pid file, serial log | launch, wait for login, order down, wait, kill | guests that hang, halt silently, sync slowly; zombies | one QEMU at a time; a busy guest is not cut; every wait ends | `VmLifecycle` |
| waits for the channel (`_wait_telnet`, `_wait_ssh`, `rewrite_hostfwd_target`) | forward, `guard_done`, retry and restart counts | probe, detect, rewrite, restart | address changes, a silent monitor, a half-done rewrite, a wedged guest | the port leads to the guest; every wait ends | `WaitChannel` |
| pipeline (`main`), with hooks and export | where main is; the guest's memory, the image, the asset | the whole build, run after run | every step may fail, a force-kill loses what was checked, a cancelled build leaves a VM | only a checked image is exported, and it holds what was checked | `Pipeline` |
| downloads and media (`download*`, `createVM`, `_prep_vhd_disk`) | cells of the file, cached files | probe, fetch in parts, resume, unpack | short chunks in a pre-sized file, ignored ranges, leftovers | the medium is whole | `Download` |
| screen text, answer files, console session (`processOpts`, `waitForText`, `vnc_capture`, `ConsoleSession`) | log or screen, line of the file, dump offset, connection | wait for a text, type, dump, drain | typing blind, a log truncated by a relaunch, an undrained console | keys meet their questions; waits end | `AnswerFile` |
| release watch (`upstream_check.py`, `watch.yml`) | confs on main, open issues | detect, land, push, notify, report | upstream changes its naming, main moves, a run is cut off | no release missed and no landing untold in silence | `Watch` |
| ports and state files (`free_port`, `write_state`) | port numbers | find, bind | another process in between | | not modelled |

How they interact. `main` calls `clearVM`, fetches the medium (`createVM` or
`_prep_vhd_disk`), installs (`installOpts` hook or `processOpts`), calls
`start_and_wait` (whose login wait is replaced, for ReactOS, by the
waitForLoginTag hook), runs the enablessh hook as a gate, confirms with
`_wait_telnet` or `_wait_ssh`, which may restart the guest through `_restart`,
installs packages, shuts down, exports, and boots the result for a check. What
reaches into the guest goes through the forwarded port: `telnet_exec` or ssh at
the host's end, slirp's forward, `run_server` and `serve_conn` in the guest. The
shared state is the pid file, the serial log (written by QEMU, read by every
wait), the monitor, the console connection, and inside the guest the registry
hive. `Pipeline` composes the others by their outcomes: a boot that reaches its
login prompt or not (`VmLifecycle`, `AnswerFile`), an image synced or cut
(`VmLifecycle`), a channel that answers or not (`WaitChannel`), an effect that
is in memory or on disk (`DurableChannel`), a medium or none (`Download`).

## 2. Modules

### ServeConn, ByteRelay

`ServeConn` is `serve_conn` with the shell and the client as processes of their
own. `pc` is the pump's place in the loop:

| `pc` | code (`files/anyvmtd.c`) | actions |
|---|---|---|
| `start` | pipes and `CreateProcess`, 284-313 | `Start`, `StartFails` |
| `loop` | peek and read, 316-321, 329 | `ReadChild`, `LoopTurn` |
| `send` | `send_all` | `SendSome`, `SendFails` |
| `select` | `select`, `recv`, 330-358 | `SelectTimeout`, `Recv`, `RecvEof`, `RecvError` |
| `write` | `write_all` | `WriteSome`, `WriteFails` |
| `tail` | stop and end tests, 364-376 | `TurnEnd` |
| `close`, `wait` | after the loop, 379-387 | `CloseStdin`, `Reap` |

A byte is its number, so loss, repetition and reordering show. Every call that
can transfer part of a buffer chooses how much. The stdin pipe, the stdout pipe
and the TCP buffers have capacities, and a blocked call is a disabled action.
`ByteRelay` is the promise without pipes or pump: bytes in order, EOF after all
input, completion after all output. The mapping stands at the end of
`ServeConn`.

### TelnetCodec, IacFilter, EatIac

`TelnetCodec` gives the three conversions as functions of one buffer over an
alphabet of protocol roles. One turn of a loop is a token (`FilterToken`,
`EatToken`): the bytes it passes on, the refusal it sends, what it keeps, and the
position of the next turn; `Parse` puts the turns together from a position on.
`Cut` says when a buffer ends inside a sequence, `Held` what `iac_filter` then
keeps. `IacFilter` feeds `Filter` chunk by chunk and keeps
the carry; `EatIac` feeds `Eat`, which has none, with what `Escape` produced.
`Filter` of the whole stream is the reference for `Filter` of its chunks.

### AnyvmtdServer

Two processes of the daemon, one started by the service manager and the copy
that `anyvminst.cmd` launches by hand when `sc start` fails ("direct"), compete
for the port. `daemon` is each one's place in `main`,
`service_main` and `run_server`; `ctrl` is `service_ctrl` on the dispatcher's
thread. `report_status` is two steps, the write of the shared `g_status` and the
call, so that the two threads may interleave in it; `overlap` remembers that
they did. A session is "quiet", "loud" (the shell has output on every turn) or
"stuck" (the pump is in `send_all` towards a client, or in `write_all` towards a
shell, that does not read): only in a quiet one does `serve_conn` look at
`g_stop`. After an `accept` that fails the connection still waits.

### DurableChannel

The guest: second stage, `sc create`, `sc start` or the direct launch, the hive
in memory (`key`) and in the image (`disk`), the DHCP lease of each boot. The
script registers a service and no Run key, whatever anyvmtd's comments say
(section 4), so nothing but the service manager starts the daemon in a later
boot. The host: the phases of the hook, the gate over its transcript, `main`'s confirm
with its one restart, the export. Power-off may be orderly or a kill.

### VmLifecycle

`pc` walks through `clearVM`, `destroyVM` (`destroy`, `term`, `remove`, with its
return place in `back`), `start_and_wait` (`launch`, `login`, `recheck`),
`shutdown_and_wait` (`up`, `button`) and `_wait_vm_down` (`wait` is the head of
the loop, `read` what follows the sleep, because the guest may change in
between). The serial log is its last line and whether it has grown. The guest
may panic, wedge, ignore requests, halt with or without a banner, sync in
silence, or power off. `conf` holds what the conf file decides. The login path
is the one of guests without a waitForLoginTag hook. QEMU does not die by
itself while the guest runs (it does in `Pipeline` and `AnswerFile`).

### WaitChannel

The guest's lease, slirp's flow table and the serial log on one side, the
forward on the other; `detect`, `remove`, `add`, `wedge` and `sleep` are the
stretches of one turn of `_wait_ssh`. `_wait_telnet` is the same loop with at
most one restart and no wedge cutoff. The wait is modelled from QEMU's launch
on. A monitor command is answered, executed without an answer in time, or never
delivered (`Outcomes`). `steady` counts how long the flow table has shown the
same address to a host that heard its monitor; `unheard` says that the last
rewrite had a command nobody answered.

### Pipeline

`main` from the conf file to the exit code, every kind of conf in `conf`, `pc`
naming the stretch of `main`. A build's work is a set of effects (the system,
the channel, the key file, postBuild, packages, the extra script); `mem` is what
the running guest has of them, `disk` what its image has, `art` what the image
had when it was exported. A step works on `mem`; an orderly power-off makes
`disk` equal to `mem`, a kill or a dead QEMU leaves any part of the difference
(`cut` remembers it), a boot starts from `disk`. Hooks inside the guest may have
done nothing, because their status is ignored; those on the host stop the build.
`qemu = "lost"` is a QEMU whose pid file was never written, because the build
was cancelled between `Popen` and `write_state`. `Rebuild` starts `build.py`
again in the workspace the last run left.

### Download

The body is `Parts` cells, one per worker, each holding its data, a hole or junk
(data of another cell). `Chunk`, `Gather`, `Resume` and `Size` are the threads
and the fallback of `download`; the server may end a connection anywhere and may
answer a request for a range with the whole body (`ignored`). Around it are the
files one run leaves to the next: `plain`, the medium, and `pack`, the archive
it came in, for each kind of link that `createVM` and `_prep_vhd_disk` know.
`Swept` are the kinds whose unpacked medium `clearVM` removes. `ranges` stands
for a server that advertises them and a body large enough to be fetched in
parts. A damaged zip is noticed by `_unzip_single_img`, or ends the build with
an error it does not catch. A prebuilt medium of a beforeBuild hook is never fetched and is left out, as is
`VM_PRE_DISK_LINK`, a plain download onto a path that `clearVM` has emptied.

### AnswerFile

The guest asks one question per line, in order; what it prints is a sequence of
anchors and of lines that match nothing. The host polls for the line's anchor,
types the line's groups of keys, and after the last line settles, boots, and
looks for the login prompt, twice at most. `console` chooses between the serial
log (with its drain thread, `conn`, `drains`, `sock`, the dump's offset `pos`,
and in `dumped` the numbers of the lines dumped so far, in that order) and the screen (which shows as many lines as the guest has not cleared,
and needs a QEMU to be captured). A send that fails on an open connection loses its
keys and ends the drain thread. Two lines may wait for the same text. Left
out: the OCR engines, `waitForText`'s hook argument, `startWeb`'s thread.

### Watch

Upstream's releases go through draft, candidate and final, with assets named
either way; the workflow run detects, lands, pushes against a main that may move
each time, notifies or reports. `watch.py`, which writes the conf, belongs to
base-builder and is taken by what the workflow relies on: nothing to do, a conf
(new, or the refresh of one on main), or a rejection. The maintainer closes issues. Runs may be cancelled and calls
may fail, `Faults` times.

## 3. Runs

Every module with a state machine has a passing run. A run named "violation"
checks one sentence of the code's own comments, which the model refutes.

| run | shows | bounds, and why they are enough |
|---|---|---|
| `session` | conservation both ways, EOF order, drained end, who may leave, refinement of `ByteRelay`; a half-closed session completes unless pump and shell block each other | 4 input bytes against pipes of 1 and buffers of 2, output up to 2 per byte (8) against a pipe of 3 and buffers of 2: every buffer fills, every transfer can be short, every place can be interrupted, and the mutual block is reachable |
| `iac_inbound` | chunking does not matter; output and carry fit | all streams of 5 bytes over 7 roles, in all divisions: the longest sequence that is parsed is 5 bytes (`IAC SB x IAC SE`) |
| `iac_host` | transcript right and offers refused between cuts (`ConversationIntact`) | 3 units, each up to 5 bytes; `recv` may return all |
| `server` | an ended service was reported as stopped, but for two named cases; no client waits for ever; a stop ends the loop unless the shell never falls silent or the pump waits for somebody who does not read | the service and the copy started by hand, two clients: one in a session, one behind it; the backlog itself is `listen`'s 4 |
| `durable` | the hooks end; a gate passed in a later boot proves the registration in the shipped image, because the script registers a service only | waits of 2 or 3 polls: each can end by its event or its bound; at most four boots |
| `durable_gate` | the gate accepts the fallback | violation |
| `lifecycle` | one QEMU, no busy guest cut, zombies seen, all waits end | two boots and shutdowns, both attempts of each, the silence bounds distinct (2, 3) and below the wait's (5) |
| `channel` | guard and forward agree; a guest that moves is followed until the guard is done; the wait ends | three addresses (expected and two others), 3 probes, 1 restart, wedge cutoff after 1, monitor commands answered, unheard or lost |
| `pipeline` | the image is idle when QEMU starts on it or it is exported; nothing unchecked is exported; what was checked is in the asset, and works if it was verified; a green build leaves no QEMU | every conf, one restart, two builds, so that each state a build can leave is one a build starts from |
| `download` | downloads from servers that keep to their ranges are whole, and so are media unpacked in the same run; which leftovers can be taken for the medium or fail a build, and that no other can; every download ends | three workers (first, middle and last part), two attempts each, two runs |
| `answers` | keys meet their questions, half an install is not booted, the log is dumped in order and each line once, the login prompt is this boot's; waits end; the console does not block the guest unless a send failed | every file of two lines, anchors alike or not, two groups of keys, a screen of two lines, waits of two polls, two boots, logs up to four lines |
| `watch` | only final releases land, every landing is told, no release is missed in silence | two versions, published in either order, two push attempts, two faults |

Runs with `CHECK_DEADLOCK FALSE`: each of these programs ends (a session, a
stream, a build, a daemon that is stopped), and the model then has no step left.
`watch` has a run every night and is checked for deadlock.

Time is counted in polls. The real bounds are larger numbers of the same kind;
what matters is which of two bounds is reached first, and the environment
decides freely when its events come.

Some properties speak of all behaviours but one, which the code has and which is
then named in the property: `ChunkingInvisible` excepts a cut `IAC SE`,
`ConversationIntact` a cut at the host, `HalfCloseCompletes` the mutual block,
`GuardMeansForwarded` a rewrite nobody answered, `EndMeansStopped` two
overlapping reports and a start without a handle, `StopEnds` a session that is
loud or stuck, `MediumWhole` files found in place and single streams,
`LeftoverNeverFatal` a damaged zip, xz or qcow2, `GuestNeverBlocked` a failed send, `AssetComplete` a guest that went down unsynced,
`FetchedWhole` a server that ignores ranges, `KeysOnPrompt` repeated anchors and
lost keys, `EndsWhileWatched` a screen that cannot be captured, `LandingTold` a
run cut off after its push. Section 4 lists them.

### Fairness

* `ServeConn`: the pump is a running thread (`WF(Pump)`); the shell reads,
  prints and leaves after end-of-file; the client reads what it is sent.
  Nobody is obliged to send, close, stop or exit.
* `AnyvmtdServer`: both processes and both threads of the service run, and an
  `accept` of a connection that waits does not fail for ever. No session is obliged to end and no shell to fall silent; where that matters it is
  the premise of the property (`WaitingEnds`, `StopEnds`).
* `DurableChannel`, `VmLifecycle`, `WaitChannel`: the build process runs. Nothing
  is assumed of guest, QEMU or network, so the waits end by their bounds alone.
* `Pipeline`: none; it is checked for safety only, since each of its waits is
  bounded by the module that models the wait.
* `Download`: the build runs, and every read of a connection returns, with data
  or without: `DL_READ_TIMEOUT` is set on each of them.
* `AnswerFile`: the host and the console's drain thread run. The guest need not
  do anything.
* `Watch`: cron starts a run each night, one at a time, and a runner gives each
  step an end (the job's time limit). Cancellations and failing calls are
  bounded in number, since an outage without end reports nothing.

## 4. What was found

One disagreement has a run:

| where | finding | run |
|---|---|---|
| `host_enablessh.py:51` | "running standalone" in the daemon's log satisfies the search for RUNNING | `durable_gate` |

The others were met while modelling. The models follow the code; where a
property would trip over one, it names the case as an exception.

The daemon and its protocol:

* `anyvmtd.c:359`: pump and shell can block each other, each in a write to a
  full pipe (`Entangled`).
* `anyvmtd.c:360`: a failed write to the shell ends the session before the
  shell's last output is sent (line 370 promises a drained pipe).
* `anyvmtd.c:155`: a subnegotiation whose `IAC SE` is cut is not finished by the
  next call.
* `anyvmtd.c:174`: DONT and WONT are answered, which lines 92-95 do not say and
  `_telnet_eat_iac` does not do.
* `build.py:3572`: the host's parser keeps nothing across `recv`, though the
  daemon's comment says that was fixed.
* `anyvmtd.c:479`: `g_status` is shared by `service_ctrl` and `service_main`
  without a lock; STOP_PENDING may be the last status of a service that has
  ended.
* `anyvmtd.c:502`: without a handle `service_main` returns and the manager is
  never told; the service stays START_PENDING.
* `anyvmtd.c:322`, `360`: a pump that sends to a client, or writes to a shell,
  which does not read never gets to the test of `g_stop` at 367, so a stop does
  not end it (`StopEnds`).
* `anyvmtd.c:427-432`: "the install script registers both a service and a Run
  key on purpose", and 534-539 count on the "belt-and-braces Run-key
  registration". `anyvminst.cmd` registers the service alone (45-46) and calls
  itself "the ONLY path" (5-7); nothing else in the repository writes a Run key.
  `LaterBootProves` depends on that: with a Run key the daemon of a later boot
  would prove nothing about the service.
* `anyvminst.cmd:8-10`: "a silent failure here cannot ship". A registration that
  failed falls back to the direct copy, which passes the gate (`durable_gate`),
  and a later boot of the shipped image starts nothing.
* `anyvmtd.c:507`: RUNNING is reported before the port is bound, so `sc query`
  says RUNNING of a service about to find the port taken.

QEMU, the channel and the pipeline:

* `build.py:372`: an unreachable monitor counts as a rewritten forward.
* `build.py:3884`: the guard stops looking after its first success in a boot,
  also when the guest then moves (3838: "Every retry we ALSO run the layered IP
  probe").
* `build.py:3903`: the wedge cutoff's log says "no guest IP"; its condition is
  that the guard is not done, which also holds for an address whose rewrite
  failed.
* `build.py:2652`: the 300 s console cutoff applies to sparc64 too, where the
  comment above the latch (2629-2630) allows only the banner or the full
  timeout. `SyncNeverCut` excepts console builds.
* `build.py:3942`: "waitForText returns 0 on both match and timeout by design";
  it returns 1 on a timeout (2912-2914). The re-check makes it harmless.
* `build.py:4485`: the wait after a postBuild hook is `_wait_ssh` also for
  telnet guests, so a telnet guest with a postBuild hook never builds.
* `build.py:4741`, `4813`: a failed verification check returns with its VM
  running, which the comment at 4817 sets out to prevent. The next build's
  `clearVM` finds it by its pid file (`ImageIdle`).
* `build.py:1924`: a build cancelled between `Popen` and `write_state` leaves a
  QEMU no later build finds; the next launch fails on the port.

Media and answer files:

* `build.py:2463`: an ISO whose download was interrupted is there, so the next
  run uses it; the same for `.img`, `.qcow2` and `.xz` links in
  `_prep_vhd_disk`, where a damaged `.qcow2` or `.xz` fails every later run.
* `build.py:4156-4163`, `2463-2468`: the unpackings of a `.qcow2.gz` and of a bz2
  ISO write, through the shell's redirection, to the very file whose presence
  the next run takes for the medium. One that failed or was cut off leaves a
  partial `.download.qcow2` or ISO, which the next run converts or boots. The
  comment at 4051-4054 promises that a failure "also aborts (FATAL + exit 1)
  rather than silently leaving a corrupt qcow2 that only blows up much later at
  boot": the run that fails aborts, the one after it does not notice.
  `MediumWhole` excepts these two when the file was found in place.
* `build.py:4040`: `_unzip_single_img` "returns False [...] when the archive is
  unreadable/corrupt [...] so the caller can re-download once", but catches only
  `BadZipFile`, `OSError` and `EOFError`. Damage inside a compressed member
  raises `zlib.error`, which nothing catches: the build ends before it
  downloads, `<os>.imgzip` stays, and every later build ends the same way
  (`UnpackArchive`, `LeftoverNeverFatal`). A tar archive is replaced as 4104-4106 say.
* `build.py:2015`: a single-stream download takes a body of any length.
* `build.py:4094`, `4125`: "The extracted .img is KEPT" is stale: `clearVM`
  removes it since it removes `<os>.img`. The archive is what is kept.
* `build.py:2190`: a send that fails, also for want of room within a second, sets
  `_stop` and so ends the drain thread of a connection that stays open; the
  class's comment (2140-2144) says that without the drain the guest's console
  blocks.
* `build.py:2764`: `vnc_capture` has no bound, so a VNC guest whose QEMU is gone
  holds `waitForText` past its deadline.
* `build.py:3417`: an anchor equal to an earlier one matches what is still on
  the screen; and after the last anchor nothing is waited for, so a guest that
  dies there is found out by its first boot only.

Release watch:

* `upstream_check.py:158`: the error still speaks of "a *-iso.zip asset", the
  rule the comment above `ASSET_RE` has replaced.
* `watch.yml:113`: a run that is cut off between push and notification is never
  made up for; the next run has nothing to land and so nothing to tell.

## 5. Proofs

Each proof module extends the module it is about and proves its theorems from
the named assumptions on the constants and nothing else. `AnyvmtdProofs` has both
parts of the daemon, `TelnetProofs` both ends of the protocol, `DownloadProofs`
what comes from the network; so that one module can extend both, the variables
and specifications of `AnyvmtdServer`, `EatIac` and `Watch` have names of their
own (`ServerSpec`, `HostSpec`, `WatchSpec`). The types of each module
(`TypeOK`, `ServerTypeOK`, `WatchTypeOK`; `Types` and `HostTypes` for the sequences of the telnet modules) are
proved rather than run.

| module | for all | theorems (property) |
|---|---|---|
| `AnyvmtdProofs` | capacities, amounts of input and output; for the server, numbers of connections | `TypeCorrect`, `InputConserved` (`InputIntact`), `OutputConserved` (`OutputIntact`), `EofIsLast` (`EofAfterAllInput`), `DrainedIsSent` (`DrainedMeansSent`), `ListenerServed` (`StaysForListener`), `ImplementsRelay` (`RelaySpec`); `ServerTypeCorrect`, `EndIsStopped` (`EndMeansStopped`) |
| `TelnetProofs` | bytes, lengths of buffers and conversations, sizes of `recv` | `FilterJoin`, `EatJoin`, `EscapedIsRead`; `ChunksAreInvisible` (`ChunkingInvisible`), `OutputAlwaysFits` (`OutputFits`), `ConversationsAreIntact` (`ConversationIntact`) |
| `DurableChannelProofs` | bounds of the hook's phases | `TypeCorrect`, `LaterBootIsProof` (`LaterBootProves`) |
| `VmLifecycleProofs` | bounds of the waits, reboots | `TypeCorrect`, `NoneLeft` (`NoQemuLeft`), `PowerOffSeen` (`PowerOffNoticed`), `DownIsClean` (`DownMeansClean`), `SyncSpared` (`SyncNeverCut`) |
| `WaitChannelProofs` | addresses, bounds of the waits | `TypeCorrect`, `ForwardIsCurrent` (`ForwardOfThisBoot`), `GuardedIsForwarded` (`GuardMeansForwarded`), `GuestIsFollowed` (`FollowsGuest`) |
| `PipelineProofs` | restarts, builds in the workspace | `TypeCorrect`, `ImageStaysIdle` (`ImageIdle`), `AssetIsComplete` (`AssetComplete`), `VerifiedWorks` (`VerifiedAssetWorks`) |
| `DownloadProofs` | workers, attempts, runs; for the watch, versions, pushes, faults | `TypeCorrect`, `DownloadIsWhole` (`FetchedWhole`), `MediumIsWhole` (`MediumWhole`), `LeftoversAreReplaced` (`LeftoverNeverFatal`); for `Watch` `WatchTypeCorrect`, `OnlyFinals` (`OnlyFinalLands`), `LandingsAreTold` (`LandingTold`) |
| `AnswerFileProofs` | lines, screens, patience, log lengths | `TypeCorrect`, `KeysAreOnPrompt` (`KeysOnPrompt`), `InstallIsAnswered` (`InstallAnswered`), `LogIsDumped` (`DumpedWhole`), `LoginIsCurrent` (`LoginOfThisBoot`) |

In each module `IInv` (and `ServerInv`, `HostInv`, `WatchInv`) is
the inductive strengthening, a conjunction of named parts; one lemma per part shows that every step keeps it, `Inductive` puts them
together, and each theorem follows from `Inductive`. TLC was run on every `IInv`
before it was proved. Why the properties alone do not carry themselves:

* `ServeConn`. The conservation equations are inductive once the types are
  known: every step moves a prefix of one sequence to the end of its neighbour,
  or appends the next number (`Chunk`, `MoveHead`, `AppendLast`). End-of-file
  order and drained end are not: when the shell sees EOF one has to know that
  the pump holds nothing (`Held`) and that the half-close came from an empty
  socket buffer after which nothing is sent (`EofInv`); at the drained end, that
  the shell is gone and the pipe empty and stays so (`DrainedInv`). The
  refinement needs the prefixes explicitly (`InputPrefix`, `OutputPrefix`:
  either end has read `1 .. n`); `RelayStep` maps each step to a step of
  `ByteRelay` or a stutter.
* `AnyvmtdServer`. The last report is right because, as long as the two threads
  have not met in `report_status`, no handler runs once the main thread writes
  its last status; if they have, there was a stop and `g_status` holds one of the
  two last words; and a service without a handle was never told to stop
  (`LastWord`).
* The codec. What `Parse` yields is shown by induction from the end of the buffer
  backwards (`Backward`, from `Least`: a non-empty set of numbers has a least
  element). Two facts carry the rest: a token does not look behind its position,
  so a suffix is parsed as it is within a longer buffer (`FilterShift`,
  `EatFrom`), and a token that is complete stays the same when bytes are
  appended (`TokenKept`, `EatKept`). `FilterJoin` follows: up to the cut both
  parses agree, and from the cut on the joined buffer is read as the held bytes
  followed by the next chunk (`CutJoin`), because the body of a subnegotiation
  that is thrown away holds no end (`DropBody`). Its hypothesis is the code's own
  exception, a cut between IAC and SE.
* `IacFilter`. The property speaks of bytes and refusals only; to keep it over the
  next `recv`, the carry too must be what one call would have held back (`Whole`),
  and no unsplit subnegotiation may end in IAC. `OutputFits` is by cases on what
  is held: a lone IAC yields at most as many bytes as follow it, a longer carry is
  a token of its own that yields nothing (`CarryBound`).
* `EatIac`. All that was sent, read or not, ends between two sequences, and one
  reading of it would give the shell's output and the offers' answers
  (`Readable`); the chunks read so far are one reading of their concatenation
  (`ReadSoFar`). A step that sends appends whole sequences (`ByteUnit`,
  `CommandUnit`), one that receives moves a prefix. A prefix read is then a prefix
  of the whole reading (`EatJoin`).
* `DurableChannel`. In a boot after the script's only the service manager starts
  the daemon, from a key that is in the image (`Registered`); `Counted` bounds
  how far a build can have come in boots and polls.
* `VmLifecycle`. What the host takes to be gone is gone (`Found`); the banner
  and a power-off come after the sync, and the log is cut at each launch
  (`Synced`); from the ack on host and guest count the same silence
  (`Silences`), which is what makes the early kill's bound one of the guest.
* `WaitChannel`. What the host has seen of the guest's address and heard from
  the monitor, for each stretch of a turn.
* `Pipeline`. A place in `main` says which steps have succeeded (`Passed`); what
  has succeeded is in the guest while it runs and in the image when it does not
  (`Backed`, `Kept`), so the export cannot lose it unless a guest was cut; and
  the verification runs exactly what was exported (`Verified`).
* `Download`. A worker that is through and has not given up has left its data,
  and a resumed download has its first `got` cells (`Placed`); where the medium
  comes from at each place, and what is known of it there (`Sourced`).
* `Watch`. A release found eligible stays final (`LandsFinal`), because upstream's
  releases only move forward; the newest exists because a finite set of numbers has
  a greatest (`Greatest`); every conf on main was told, or landed by a run that was
  cut off, or is the one this run is about to tell (`Heard`).
* `AnswerFile`. A text on the screen was printed by this boot's guest
  (`Printed`); with distinct anchors and no key lost, host and guest are at the
  same question or one apart (`Together`); once the log is
  known to be new, what was dumped are the lines up to the dump's offset, in
  order, and the offset is within the log (`Dumped`, `Continued`).

Every invariant and every safety action property of the passing runs has its
theorem. Only model-checked are the liveness properties (`HalfCloseCompletes`,
`BuildEnds` of `DurableChannel` and `VmLifecycle`, `WaitEnds`, `FetchEnds`,
`EndsWhileWatched`, `GuestNeverBlocked`, `WaitingEnds`, `StopEnds`,
`NoSilentMiss`): liveness under fairness needs ENABLED, which is outside the
prover's reach.

## 6. Plan

Done: (1) `ServeConn` with `ByteRelay`, (2) the telnet framing, (3)
`DurableChannel`, (4) `VmLifecycle`, (5) `WaitChannel`, (6) `Pipeline`, (7)
`Download`, (8) `AnswerFile`, (9) `AnyvmtdServer`, (10) `Watch`; and the proofs
of section 5.

Left:

* That `Pipeline`'s one-step boots and shutdowns are implemented by
  `VmLifecycle`, as a refinement rather than by reading both.
* The screen text and key injection beyond what `AnswerFile` needs.

## 7. Not modelled

* `build_qemu_args`, `build_guest_profile`: string assembly from the conf.
* `setup`: package managers of the build host.
* `free_port` and the state files' ports: what other processes of the host do
  between a look at a port and its use. The consequence, a QEMU that does not
  start or dies at once, is an outcome of every launch in `Pipeline`. That a
  stale monitor or VNC port may by then belong to another builder's VM is not
  modelled.
* Process numbers: a stale pid file may name a process that is not QEMU.
* OCR engines, key names and their bytes, mouse helpers, `startWeb`'s thread
  (which writes a picture for a viewer and takes part in nothing).
* `inputFile` and its variants: a detached `nc` hands a file to whoever connects.
* `inject.sh` and `unattend.inf` beyond when they act and that they may fail.
* What a hook may change in `build.py`'s globals.
* The build matrix and `rerun.yml`: GitHub's runners count the attempts.

## 8. Running

    tlc -workers 2 -config ServeConn.cfg ServeConn
    tlapm AnyvmtdProofs.tla         (likewise the other *Proofs modules)

`PROJECT.json` lists the runs, the mutants (one change of the model per
property, as a plausible bug would make it, under which the property fails),
the source lines of every definition, the hazards and the theorems.
