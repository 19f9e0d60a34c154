------------------------------ MODULE VmLifecycle ------------------------------
(***************************************************************************)
(* The QEMU process of a build (build.py): main()'s clean slate, then      *)
(* start_and_wait and shutdown_and_wait as often as the build reboots its  *)
(* guest.  Underneath: launch_qemu, pid_alive, destroyVM, _wait_vm_down.   *)
(*                                                                         *)
(* Host and guest share the process, the monitor and the serial log.  Time *)
(* passes in polls (5 s in _wait_vm_down, 3 s in waitForText, 1 s in       *)
(* destroyVM).                                                             *)
(***************************************************************************)
EXTENDS Naturals

CONSTANTS LoginMax,   \* VM_LOGIN_MAX_SECONDS, in polls
          AckMax,     \* the 60 s of silence after a poweroff ack, in polls
          ConsoleMax, \* the 300 s of silence of a console build, in polls
          DownMax,    \* VM_SHUTDOWN_MAX_SECONDS, in polls
          TermMax,    \* the ten looks destroyVM takes after SIGTERM
          Reboots     \* how often the build restarts its guest (bound)

ASSUME PollsAssumption ==
  /\ LoginMax \in Nat /\ DownMax \in Nat /\ TermMax \in Nat /\ Reboots \in Nat
  /\ AckMax \in Nat \ {0} /\ ConsoleMax \in Nat \ {0}

VARIABLES
  conf,     \* sparc64: VM_ARCH; console: VM_USE_CONSOLE_BUILD
  qemu,     \* the process named by the pid file: "none", "running", "zombie"
  pidFile,  \* <os>.pid exists
  guest,    \* what the guest is doing
  clean,    \* the file systems in the image are consistent
  ordered,  \* a shutdown request has reached the guest
  tail,     \* last line of the serial log: "other", "ack", "banner"
  grown,    \* the serial log differs from what the last poll saw
  mute,     \* polls without growth since the guest began to shut down
  pc,       \* where the host is
  back,     \* where destroyVM returns to
  attempt,  \* start_and_wait's attempt
  elapsed,  \* polls of the current wait
  stalled,  \* polls of it since the log last grew
  ack,      \* poweroff_ack
  ended,    \* how the last _wait_vm_down ended
  lateness, \* polls since the guest powered QEMU off
  reboots   \* restarts done

guestVars == <<qemu, guest, clean, ordered, tail, grown, lateness>>
waitVars  == <<elapsed, stalled, ack, mute>>
vars == <<conf, pidFile, guestVars, waitVars, pc, back, attempt, ended, reboots>>

Init ==
  /\ conf \in [sparc64 : BOOLEAN, console : BOOLEAN]
  /\ qemu \in {"none", "running"}      \* a VM left behind by a previous run
  /\ pidFile = (qemu = "running")
  /\ guest = IF qemu = "running" THEN "login" ELSE "off"
  /\ clean = (qemu = "none") /\ ordered = FALSE
  /\ tail = "other" /\ grown = FALSE /\ mute = 0 /\ lateness = 0
  /\ pc = "clear" /\ back = "launch" /\ attempt = 1
  /\ elapsed = 0 /\ stalled = 0 /\ ack = FALSE
  /\ ended = "none" /\ reboots = 0

-----------------------------------------------------------------------------
(* The guest. *)

GuestStep(from, to) == qemu = "running" /\ guest = from /\ guest' = to
HostIdle == UNCHANGED <<conf, pidFile, waitVars, pc, back, attempt, ended, reboots>>

Prints(line) == tail' = line /\ grown' = TRUE
Silent == UNCHANGED <<tail, grown>>

ReachesLogin == /\ GuestStep("booting", "login") /\ Prints("other")
                /\ UNCHANGED <<qemu, clean, ordered, lateness>> /\ HostIdle

(* A kernel panic, or a controller that lost its interrupts. *)
Wedges == /\ \E s \in {"booting", "login", "stopping"} : GuestStep(s, "wedged")
          /\ Silent /\ UNCHANGED <<qemu, clean, ordered, lateness>> /\ HostIdle

(* Shutdown begins, with or without a "poweroff by root:" on the console. *)
Obeys == /\ ordered /\ GuestStep("login", "stopping")
         /\ Prints("ack") \/ Silent
         /\ UNCHANGED <<qemu, clean, ordered, lateness>> /\ HostIdle

Chatters == /\ qemu = "running" /\ guest \in {"booting", "stopping"} /\ ~grown
            /\ Prints("other")
            /\ UNCHANGED <<qemu, guest, clean, ordered, lateness>> /\ HostIdle

DisksSynced == /\ GuestStep("stopping", "synced") /\ clean' = TRUE
               /\ Silent /\ UNCHANGED <<qemu, ordered, lateness>> /\ HostIdle

Halts == /\ GuestStep("synced", "halted")
         /\ Prints("banner") \/ Silent
         /\ UNCHANGED <<qemu, clean, ordered, lateness>> /\ HostIdle

PowersOff == /\ GuestStep("synced", "off") /\ qemu' = "zombie"
             /\ Silent /\ UNCHANGED <<clean, ordered, lateness>> /\ HostIdle

(* QEMU obeys a pending SIGTERM. *)
TermTakes == /\ pc = "term" /\ qemu = "running"
             /\ qemu' = "zombie" /\ guest' = "off"
             /\ Silent /\ UNCHANGED <<clean, ordered, lateness>> /\ HostIdle

Guest == \/ ReachesLogin \/ Wedges \/ Obeys \/ Chatters \/ DisksSynced
         \/ Halts \/ PowersOff \/ TermTakes

-----------------------------------------------------------------------------
(* pid_alive and destroyVM. *)

PidAliveCountsZombies == pidFile /\ qemu # "none"

(* A live process, and not a zombie that nobody has waited for. *)
PidAlive == pidFile /\ qemu = "running"

Destroy(from) == pc' = "destroy" /\ back' = from

(* SIGTERM, if there is anything to kill. *)
DestroyBegins == /\ pc = "destroy"
                 /\ pc' = IF PidAlive THEN "term" ELSE "remove"
                 /\ elapsed' = 0
                 /\ UNCHANGED <<conf, pidFile, guestVars, stalled, ack, mute, back,
                                attempt, ended, reboots>>

DestroyGivesUp ==
  /\ pc = "term"
  /\ elapsed' = elapsed + 1
  /\ pc' = IF ~PidAlive \/ elapsed' > TermMax THEN "remove" ELSE "term"
  /\ UNCHANGED <<conf, pidFile, guestVars, stalled, ack, mute, back, attempt, ended,
                 reboots>>

DestroyAwaits ==
  /\ pc = "term"
  /\ pc' = IF PidAlive THEN "term" ELSE "remove"
  /\ UNCHANGED <<conf, pidFile, guestVars, waitVars, back, attempt, ended, reboots>>

(* Ten looks, one a second; then SIGKILL for a QEMU that is still there. *)
DestroyWaits ==
  /\ pc = "term"
  /\ elapsed' = elapsed + 1
  /\ \/ ~PidAlive /\ pc' = "remove" /\ UNCHANGED guestVars
     \/ PidAlive /\ elapsed' <= TermMax /\ pc' = "term" /\ UNCHANGED guestVars
     \/ /\ PidAlive /\ elapsed' > TermMax /\ pc' = "remove"
        /\ qemu' = "zombie" /\ guest' = "off"
        /\ UNCHANGED <<clean, ordered, tail, grown, lateness>>
  /\ UNCHANGED <<conf, pidFile, stalled, ack, mute, back, attempt, ended, reboots>>

DestroyEnds == /\ pc = "remove"
               /\ pidFile' = FALSE /\ pc' = back
               /\ UNCHANGED <<conf, guestVars, waitVars, back, attempt, ended, reboots>>

(* clearVM: kill what a previous run left behind, remove its files. *)
ClearVM == /\ pc = "clear"
           /\ IF PidAlive THEN Destroy("launch") /\ UNCHANGED pidFile
              ELSE pc' = "launch" /\ pidFile' = FALSE /\ UNCHANGED back
           /\ UNCHANGED <<conf, guestVars, waitVars, attempt, ended, reboots>>

-----------------------------------------------------------------------------
(* start_and_wait. *)

LaunchKeepsLog ==
  /\ pc = "launch"
  /\ qemu' = "running" /\ guest' = "booting" /\ clean' = FALSE
  /\ ordered' = FALSE /\ grown' = FALSE /\ lateness' = 0
  /\ pidFile' = TRUE /\ elapsed' = 0 /\ pc' = "login"
  /\ UNCHANGED <<conf, tail, stalled, ack, mute, back, attempt, ended, reboots>>

(* launch_qemu: a new serial log, a new pid file. *)
Launch == /\ pc = "launch"
          /\ qemu' = "running" /\ guest' = "booting" /\ clean' = FALSE
          /\ ordered' = FALSE /\ tail' = "other" /\ grown' = FALSE /\ lateness' = 0
          /\ pidFile' = TRUE /\ elapsed' = 0 /\ pc' = "login"
          /\ UNCHANGED <<conf, stalled, ack, mute, back, attempt, ended, reboots>>

(* QEMU is gone a second later: startVM returns 1 and the build stops. *)
LaunchFails == /\ pc = "launch"
               /\ qemu' = "zombie" /\ guest' = "off" /\ pidFile' = TRUE
               /\ pc' = "failed"
               /\ UNCHANGED <<conf, clean, ordered, tail, grown, lateness, waitVars, back,
                              attempt, ended, reboots>>

(* VM_LOGIN_TAG; a guest that is dead may have left it on the screen. *)
TagMayShow == guest \in {"login", "wedged"}
TagMayMiss == guest # "login"

(* waitForText: its result is ignored, the screen is looked at again. *)
LoginPoll == /\ pc = "login"
             /\ elapsed' = elapsed + 1
             /\ \/ TagMayShow /\ pc' = "recheck"
                \/ TagMayMiss /\ pc' = IF elapsed' >= LoginMax THEN "recheck" ELSE "login"
             /\ UNCHANGED <<conf, pidFile, guestVars, stalled, ack, mute, back, attempt,
                            ended, reboots>>

TagShown == /\ pc = "recheck" /\ TagMayShow
            /\ pc' = "up"
            /\ UNCHANGED <<conf, pidFile, guestVars, waitVars, back, attempt, ended, reboots>>

(* No login prompt: force-kill, and one more boot. *)
TagMissing == /\ pc = "recheck" /\ TagMayMiss
              /\ Destroy(IF attempt < 2 THEN "launch" ELSE "failed")
              /\ attempt' = IF attempt < 2 THEN attempt + 1 ELSE attempt
              /\ UNCHANGED <<conf, pidFile, guestVars, waitVars, ended, reboots>>

-----------------------------------------------------------------------------
(* shutdown_and_wait and _wait_vm_down. *)

(* VM_SHUTDOWN_CMD over ssh or telnet: delivered, or not. *)
Order == /\ pc = "up"
         /\ ordered' \in BOOLEAN
         /\ pc' = "button"
         /\ UNCHANGED <<conf, pidFile, qemu, guest, clean, tail, grown, lateness, waitVars,
                        back, attempt, ended, reboots>>

(* Half a minute later the power button, if QEMU is still there; the guest *)
(* may ignore it, or the monitor may not answer.  Then the wait begins.    *)
Button == /\ pc = "button"
          /\ ordered' \in IF PidAlive THEN {TRUE, ordered} ELSE {ordered}
          /\ elapsed' = 0 /\ stalled' = 0 /\ ack' = FALSE /\ mute' = 0
          /\ grown' = TRUE   \* last_size = -1
          /\ pc' = "wait"
          /\ UNCHANGED <<conf, pidFile, qemu, guest, clean, tail, lateness, back, attempt,
                         ended, reboots>>

(* `while isRunning() == 0:` and the sleep. *)
WaitLooks == /\ pc = "wait"
             /\ IF PidAlive THEN pc' = "read" /\ UNCHANGED ended
                ELSE pc' = "leave" /\ ended' = "poweroff"
             /\ UNCHANGED <<conf, pidFile, guestVars, waitVars, back, attempt, reboots>>

AckSeenAnywhere == ack \/ tail = "ack"

(* The latch; a silent sparc64 guest may still be writing. *)
AckSeen == ack \/ (tail = "ack" /\ ~conf.sparc64)

Stalled == IF grown THEN 0 ELSE stalled + 1
AckSilence == AckSeen /\ ~grown /\ Stalled >= AckMax
ConsoleSilence == conf.console /\ ~grown /\ Stalled >= ConsoleMax
OutOfTime == elapsed + 1 >= DownMax

Kill(how) == Destroy("leave") /\ ended' = how

(* What a poll makes of the log: the halt banner, silence after an ack,    *)
(* silence of the console, the bound; in this order.                       *)
WaitReads ==
  /\ pc = "read"
  /\ elapsed' = elapsed + 1
  /\ ack' = AckSeen /\ stalled' = Stalled
  /\ mute' = IF grown \/ guest \notin {"stopping", "wedged"} THEN 0 ELSE mute + 1
  /\ grown' = FALSE
  /\ lateness' = IF qemu = "running" THEN 0 ELSE lateness + 1
  /\ \/ tail = "banner" /\ Kill("banner")
     \/ tail # "banner" /\ AckSilence /\ Kill("ack")
     \/ tail # "banner" /\ ~AckSilence /\ ConsoleSilence /\ Kill("console")
     \/ tail # "banner" /\ ~AckSilence /\ ~ConsoleSilence /\ OutOfTime /\ Kill("timeout")
     \/ /\ tail # "banner" /\ ~AckSilence /\ ~ConsoleSilence /\ ~OutOfTime
        /\ pc' = "wait" /\ UNCHANGED <<back, ended>>
  /\ UNCHANGED <<conf, pidFile, qemu, guest, clean, ordered, tail, attempt, reboots>>

(* The build boots the guest again, or goes on to the export. *)
Leave == /\ pc = "leave"
         /\ \/ pc' = "over" /\ UNCHANGED <<attempt, reboots>>
            \/ /\ reboots < Reboots /\ reboots' = reboots + 1
               /\ attempt' = 1 /\ pc' = "launch"
         /\ UNCHANGED <<conf, pidFile, guestVars, waitVars, back, ended>>

Host == \/ ClearVM \/ DestroyBegins \/ DestroyWaits \/ DestroyEnds
        \/ Launch \/ LaunchFails \/ LoginPoll \/ TagShown \/ TagMissing
        \/ Order \/ Button \/ WaitLooks \/ WaitReads \/ Leave

Next == Guest \/ Host

Spec == Init /\ [][Next]_vars

(* The build process runs; nothing is assumed of the guest or of QEMU. *)
FairSpec == Spec /\ WF_vars(Host)

-----------------------------------------------------------------------------
(* Types, and every counter of a wait within its bound. *)
TypeOK ==
  /\ conf \in [sparc64 : BOOLEAN, console : BOOLEAN]
  /\ qemu \in {"none", "running", "zombie"} /\ pidFile \in BOOLEAN
  /\ guest \in {"off", "booting", "login", "stopping", "synced", "halted", "wedged"}
  /\ clean \in BOOLEAN /\ ordered \in BOOLEAN /\ ack \in BOOLEAN /\ grown \in BOOLEAN
  /\ tail \in {"other", "ack", "banner"}
  /\ pc \in {"clear", "destroy", "term", "remove", "launch", "login", "recheck", "up",
             "button", "wait", "read", "leave", "over", "failed"}
  /\ back \in {"launch", "leave", "failed"} /\ attempt \in 1 .. 2
  /\ elapsed \in 0 .. LoginMax + DownMax + TermMax + 1
  /\ stalled \in 0 .. DownMax + 1 /\ mute \in 0 .. DownMax + 1
  /\ lateness \in 0 .. DownMax + 1 /\ reboots \in 0 .. Reboots
  /\ ended \in {"none", "poweroff", "banner", "ack", "console", "timeout"}

(* No QEMU runs when the next one is launched, when the image is exported, *)
(* or when the build has given up on its boots: a survivor would hold the  *)
(* forwarded port and the image's write lock.                              *)
NoQemuLeft == pc \in {"launch", "over", "failed"} => qemu # "running"

EarlyKill == pc = "read" /\ pc' = "destroy" /\ ended' # "timeout"

(* A guest that is still busy shutting down is killed before the bound only *)
(* after it acknowledged the shutdown and then kept silent for the whole of *)
(* AckMax, and never on sparc64; console builds have a cutoff of their own. *)
SyncNeverCut ==
  [][(EarlyKill /\ ~conf.console)
       => \/ guest \in {"synced", "halted", "off"}
          \/ ~conf.sparc64 /\ ack' /\ mute' >= AckMax]_vars

(* A guest that powers QEMU off is found out by the next look: its zombie  *)
(* is not taken for a VM that ignores the shutdown (pid_alive).            *)
PowerOffNoticed == lateness <= 1

(* A wait that ends with a power-off or with the halt banner leaves a      *)
(* consistent image: the banner is never one of an earlier boot.           *)
DownMeansClean == (pc = "leave" /\ ended \in {"poweroff", "banner"}) => clean

(* Every boot and every shutdown ends, whatever the guest does. *)
BuildEnds == <>(pc \in {"over", "failed"})
=============================================================================
