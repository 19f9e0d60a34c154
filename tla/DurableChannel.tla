---------------------------- MODULE DurableChannel ----------------------------
(***************************************************************************)
(* How the ReactOS build decides that the telnet channel of its image will *)
(* still be there after the image is exported.                             *)
(*                                                                         *)
(* The guest: second stage runs anyvminst.cmd once, which registers the    *)
(* anyvmtd service (sc create), starts it (sc start) or, if that fails,    *)
(* launches the daemon by hand.  Its key is in memory until the hive is    *)
(* written, and the DHCP lease of the first boot may be lost for good.     *)
(* The host: hooks/host_waitForLoginTag.py (phases 1 to 3),                *)
(* hooks/host_enablessh.py (the gate), and main()'s _wait_telnet with its  *)
(* restart, shutdown and export.                                           *)
(***************************************************************************)
EXTENDS Naturals

CONSTANTS Idle,      \* VM_SERIAL_IDLE_SECONDS, in polls
          SettleMax, \* VM_SECOND_STAGE_MAX_SECONDS, in polls
          Tries      \* max_retries of _wait_telnet

ASSUME BoundsAssumption == Idle \in Nat /\ SettleMax \in Nat /\ Tries \in Nat

VARIABLES
  power,      \* the QEMU process runs
  boot,       \* number of boots after the install
  script,     \* anyvminst.cmd: "second" (not yet), "create", "start", "direct", "over"
  scriptBoot, \* the boot in which the script ended (0: not yet)
  daemon,     \* anyvmtd: "off", "service" or "standalone"
  key,        \* the service key in the running guest's registry
  disk,       \* the service key in the image
  logged,     \* kinds of lines in C:\anyvm\anyvmtd.log
  dhcp,       \* "asking", "leased" or "failed"
  hpc,        \* where the build is
  waited,     \* polls of phase 1, or probes of _wait_telnet
  quiet,      \* polls since the serial log last grew
  passed,     \* the boot in which the gate passed (0: not yet)
  atGate,     \* what the daemon was when the gate passed
  restarted   \* main()'s restart_cb has been used

guestVars == <<power, boot, script, scriptBoot, daemon, key, disk, logged, dhcp>>
hostVars  == <<hpc, waited, quiet, passed, atGate, restarted>>
vars == <<guestVars, hostVars>>

Init ==
  /\ power = TRUE /\ boot = 1 /\ script = "second" /\ scriptBoot = 0
  /\ daemon = "off" /\ key = FALSE /\ disk = FALSE /\ logged = {} /\ dhcp = "asking"
  /\ hpc = "phase1" /\ waited = 0 /\ quiet = 0
  /\ passed = 0 /\ atGate = "off" /\ restarted = FALSE

(* The hostfwd leads to the guest's leased address, and something listens. *)
Reachable == power /\ daemon # "off" /\ dhcp = "leased"

-----------------------------------------------------------------------------
(* The guest. *)

SecondStageEnds == /\ power /\ script = "second"
                   /\ script' = "create"
                   /\ UNCHANGED <<power, boot, scriptBoot, daemon, key, disk, logged, dhcp, hostVars>>

ScCreate == /\ power /\ script = "create"
            /\ key' \in {TRUE, key}
            /\ script' = "start"
            /\ UNCHANGED <<power, boot, scriptBoot, daemon, disk, logged, dhcp, hostVars>>

(* Started by the SCM, anyvmtd's service_main reports RUNNING and listens. *)
ScStart == /\ power /\ script = "start" /\ key
           /\ daemon' = "service" /\ logged' = logged \cup {"listening"}
           /\ script' = "over" /\ scriptBoot' = boot
           /\ UNCHANGED <<power, boot, key, disk, dhcp, hostVars>>

ScStartFails == /\ power /\ script = "start"
                /\ script' = "direct"
                /\ UNCHANGED <<power, boot, scriptBoot, daemon, key, disk, logged, dhcp, hostVars>>

(* `if errorlevel 1`: main() cannot connect to the SCM, says that it is    *)
(* "running standalone", and serves all the same.                          *)
LaunchDirectly == /\ power /\ script = "direct"
                  /\ daemon' = IF daemon = "off" THEN "standalone" ELSE daemon
                  /\ logged' = logged \cup {"running standalone", "listening"}
                  /\ script' = "over" /\ scriptBoot' = boot
                  /\ UNCHANGED <<power, boot, key, disk, dhcp, hostVars>>

FlushHive == /\ power /\ disk # key
             /\ disk' = key
             /\ UNCHANGED <<power, boot, script, scriptBoot, daemon, key, logged, dhcp, hostVars>>

(* start= auto: on any later boot the SCM starts what is registered. *)
AutoStart == /\ power /\ boot > 1 /\ key /\ daemon = "off"
             /\ daemon' = "service" /\ logged' = logged \cup {"listening"}
             /\ UNCHANGED <<power, boot, script, scriptBoot, key, disk, dhcp, hostVars>>

DhcpAnswers == /\ power /\ dhcp = "asking"
               /\ dhcp' = "leased"
               /\ UNCHANGED <<power, boot, script, scriptBoot, daemon, key, disk, logged, hostVars>>

(* The request times out while second stage is churning, for this boot. *)
DhcpGivesUp == /\ power /\ dhcp = "asking" /\ script # "over"
               /\ dhcp' = "failed"
               /\ UNCHANGED <<power, boot, script, scriptBoot, daemon, key, disk, logged, hostVars>>

Guest == \/ SecondStageEnds \/ ScCreate \/ ScStart \/ ScStartFails \/ LaunchDirectly
         \/ FlushHive \/ AutoStart \/ DhcpAnswers \/ DhcpGivesUp

TurnOffIntoSnapshot(orderly) ==
  /\ power' = FALSE /\ daemon' = "off"
  /\ disk' = (orderly /\ key)
  /\ script' \in IF script = "over" THEN {"over"} ELSE {"second", "over"}
  /\ UNCHANGED <<boot, scriptBoot, key, logged, dhcp>>

(* An orderly power-off writes the hive; a killed QEMU leaves the image as *)
(* it is.  A script cut short may or may not be run again.                 *)
TurnOff(orderly) ==
  /\ power' = FALSE /\ daemon' = "off"
  /\ disk' = IF orderly THEN key ELSE disk
  /\ script' \in IF script = "over" THEN {"over"} ELSE {"second", "over"}
  /\ UNCHANGED <<boot, scriptBoot, key, logged, dhcp>>

TurnOn == /\ power' = TRUE /\ boot' = boot + 1
          /\ daemon' = "off" /\ key' = disk /\ dhcp' = "asking"
          /\ UNCHANGED <<script, scriptBoot, disk, logged>>

-----------------------------------------------------------------------------
(* hooks/host_waitForLoginTag.py *)

(* A start_and_wait that returned goes on where it was called from: to the *)
(* gate, or back into main()'s _wait_telnet with a fresh count.            *)
Answered == /\ hpc' = IF passed = 0 THEN "gate" ELSE "confirm"
            /\ waited' = 0
            /\ UNCHANGED <<quiet, passed, atGate, restarted>>

Phase1Answers == /\ hpc = "phase1" /\ Reachable
                 /\ Answered /\ UNCHANGED guestVars

Phase1PollUnbounded ==
  /\ hpc = "phase1"
  /\ quiet' \in {0, quiet + 1}
  /\ waited' = IF waited > SettleMax THEN waited ELSE waited + 1
  /\ hpc' = IF quiet' >= Idle THEN "powerdown" ELSE "phase1"
  /\ UNCHANGED <<guestVars, passed, atGate, restarted>>

(* A poll nobody answered: the serial log has grown or not; settle, give   *)
(* up at the cap (destroyVM, exit 1), or wait on.                          *)
Phase1Poll ==
  /\ hpc = "phase1"
  /\ quiet' \in {0, quiet + 1}
  /\ waited' = waited + 1
  /\ \/ quiet' >= Idle /\ hpc' = "powerdown" /\ UNCHANGED guestVars
     \/ quiet' < Idle /\ waited' > SettleMax /\ hpc' = "failed" /\ TurnOff(FALSE)
     \/ quiet' < Idle /\ waited' <= SettleMax /\ hpc' = "phase1" /\ UNCHANGED guestVars
  /\ UNCHANGED <<passed, atGate, restarted>>

(* shutdownVM, then _wait_vm_down: the guest obeys the power button, or    *)
(* is killed at the bound.                                                 *)
PowerDown == /\ hpc = "powerdown"
             /\ \E orderly \in BOOLEAN : TurnOff(orderly)
             /\ hpc' = "relaunch"
             /\ UNCHANGED <<waited, quiet, passed, atGate, restarted>>

(* The second boot; startVM may fail. *)
Relaunch == /\ hpc = "relaunch"
            /\ \/ TurnOn /\ hpc' = "phase3"
               \/ UNCHANGED guestVars /\ hpc' = "failed"
            /\ waited' = 0
            /\ UNCHANGED <<quiet, passed, atGate, restarted>>

Phase3Answers == /\ hpc = "phase3" /\ Reachable
                 /\ Answered /\ UNCHANGED guestVars

(* _wait_telnet without a restart_cb: the probes run out, destroyVM, exit. *)
Phase3Poll ==
  /\ hpc = "phase3"
  /\ waited' = waited + 1
  /\ \/ waited' > Tries /\ hpc' = "failed" /\ TurnOff(FALSE)
     \/ waited' <= Tries /\ hpc' = "phase3" /\ UNCHANGED guestVars
  /\ UNCHANGED <<quiet, passed, atGate, restarted>>

-----------------------------------------------------------------------------
(* hooks/host_enablessh.py, and the rest of main() *)

(* The transcript: what sc query prints, then the daemon's own log. *)
Transcript == (IF daemon = "service" THEN {"state running"} ELSE {}) \cup logged

MentionsRunning(text) == text \cap {"state running", "running standalone"} # {}

GatePasses == /\ hpc = "gate" /\ Reachable
              /\ MentionsRunning(Transcript)
              /\ passed' = boot /\ atGate' = daemon
              /\ hpc' = "confirm" /\ waited' = 0
              /\ UNCHANGED <<guestVars, quiet, restarted>>

(* The session dropped, a marker is missing, or nothing is RUNNING: exit 1 *)
(* (the VM is left as it is).                                              *)
GateFails == /\ hpc = "gate"
             /\ hpc' = "failed"
             /\ UNCHANGED <<guestVars, waited, quiet, passed, atGate, restarted>>

Confirm == /\ hpc = "confirm" /\ Reachable
           /\ hpc' = "shutdown"
           /\ UNCHANGED <<guestVars, waited, quiet, passed, atGate, restarted>>

(* _wait_telnet(restart_cb=_restart): one restart, then the build fails. *)
ConfirmPoll ==
  /\ hpc = "confirm"
  /\ waited' = waited + 1
  /\ \/ waited' > Tries /\ restarted /\ hpc' = "failed" /\ UNCHANGED restarted
     \/ waited' > Tries /\ ~restarted /\ hpc' = "restart" /\ restarted' = TRUE
     \/ waited' <= Tries /\ hpc' = "confirm" /\ UNCHANGED restarted
  /\ UNCHANGED <<guestVars, quiet, passed, atGate>>

(* _restart: power off, start again, and through the hook's phases.  Its   *)
(* result is ignored: a VM that does not start is polled all the same.     *)
RestartDown == /\ hpc = "restart" /\ power
               /\ \E orderly \in BOOLEAN : TurnOff(orderly)
               /\ UNCHANGED hostVars

RestartUp == /\ hpc = "restart" /\ ~power
             /\ \/ TurnOn /\ hpc' = "phase1"
                \/ UNCHANGED guestVars /\ hpc' = "confirm"
             /\ waited' = 0 /\ quiet' = 0
             /\ UNCHANGED <<passed, atGate, restarted>>

(* shutdown_and_wait, then exportOVA of the idle image. *)
Export == /\ hpc = "shutdown"
          /\ \E orderly \in BOOLEAN : TurnOff(orderly)
          /\ hpc' = "shipped"
          /\ UNCHANGED <<waited, quiet, passed, atGate, restarted>>

Host == \/ Phase1Answers \/ Phase1Poll \/ PowerDown \/ Relaunch
        \/ Phase3Answers \/ Phase3Poll \/ GatePasses \/ GateFails
        \/ Confirm \/ ConfirmPoll \/ RestartDown \/ RestartUp \/ Export

Next == Guest \/ Host

Spec == Init /\ [][Next]_vars

(* The build process keeps running; nothing is assumed of the guest. *)
FairSpec == Spec /\ WF_vars(Host)

-----------------------------------------------------------------------------
LogLines == {"listening", "running standalone"}

(* Types, and the counters within their bounds: at most four boots, one    *)
(* restart with the hook's own power cycle included.                       *)
TypeOK ==
  /\ power \in BOOLEAN /\ boot \in 1 .. 4
  /\ script \in {"second", "create", "start", "direct", "over"}
  /\ scriptBoot \in 0 .. 4 /\ daemon \in {"off", "service", "standalone"}
  /\ key \in BOOLEAN /\ disk \in BOOLEAN
  /\ logged \subseteq LogLines
  /\ dhcp \in {"asking", "leased", "failed"}
  /\ hpc \in {"phase1", "powerdown", "relaunch", "phase3", "gate", "confirm",
              "restart", "shutdown", "shipped", "failed"}
  /\ waited \in 0 .. SettleMax + Tries + 1 /\ quiet \in 0 .. Idle + 1
  /\ passed \in 0 .. 4 /\ atGate \in {"off", "service", "standalone"}
  /\ restarted \in BOOLEAN

(* A gate passed in a boot after the one in which anyvminst.cmd ended      *)
(* proves the registration: the SCM started the daemon, from a key that    *)
(* was in the image, and no later power-off takes the key out again, so    *)
(* the exported image has it.  This rests on anyvminst.cmd registering a   *)
(* service and nothing else: with the Run key that anyvmtd.c:427-432 and   *)
(* 534-539 speak of, a later boot's daemon would prove nothing.            *)
LaterBootProves ==
  (hpc = "shipped" /\ scriptBoot # 0 /\ passed > scriptBoot) => disk

(* Every build ends: each wait of the hook carries its own bound and every *)
(* one of them is fatal (host_waitForLoginTag.py's header), and main()'s   *)
(* restart happens once.                                                   *)
BuildEnds == <>(hpc \in {"shipped", "failed"})

(* host_enablessh.py: "REGISTERED and RUNNING, not merely listening". *)
GateSeesService == (passed # 0) => atGate = "service"
=============================================================================
