------------------------------- MODULE Pipeline -------------------------------
(***************************************************************************)
(* main() of build.py from the conf file to the exit code, run after run   *)
(* in the same workspace.  What a step does to the guest is an effect; it  *)
(* is in the memory of the running guest first (mem), in the work image    *)
(* once the guest has synced it (disk), and in the release asset if it was *)
(* there when the image was exported (art).                                *)
(*                                                                         *)
(* Waits and boots are taken by their outcomes: VmLifecycle, WaitChannel,  *)
(* DurableChannel and AnswerFile have their steps.  QEMU is launched in a      *)
(* session of its own and survives an interrupted build.                   *)
(***************************************************************************)
EXTENDS Naturals

CONSTANTS MaxRestarts, \* VM_SSH_MAX_RESTARTS
          Builds       \* runs of build.py in the workspace (bound)

ASSUME PipelineAssumption == MaxRestarts \in Nat /\ Builds \in Nat \ {0}

(* What a build may do to its guest; "keys" is a well-formed               *)
(* authorized_keys, "channel" the sshd or telnetd that answers the host.   *)
Effects == {"system", "channel", "keys", "post", "pkgs", "extra"}

(* What the conf file and the hooks directory decide. *)
Confs == [medium : {"iso", "vhd", "none"}, telnet : BOOLEAN, installHook : BOOLEAN,
          gateHook : BOOLEAN, postHook : BOOLEAN, pkgs : BOOLEAN, extra : BOOLEAN,
          verify : {"no", "ssh", "rsync"}]

VARIABLES
  conf,
  pc,       \* where main() is; "green" and "red" are its exits
  qemu,     \* "none", "up", or "lost": running without a pid file
  mem, disk, art,
  exported, \* this build has written its asset
  passed,   \* what this build has seen succeed
  cut,      \* a guest of this build went down without having synced
  try,      \* attempt of the step that has two
  restarts, \* restarts done by _wait_ssh or _wait_telnet
  builds

guestVars == <<qemu, mem, disk>>
madeVars  == <<art, exported, passed, cut>>
vars == <<conf, pc, guestVars, madeVars, try, restarts, builds>>

Init ==
  /\ conf \in Confs
  /\ pc = "load" /\ qemu = "none" /\ mem = {} /\ disk = {}
  /\ art = {} /\ exported = FALSE /\ passed = {} /\ cut = FALSE
  /\ try = 1 /\ restarts = 0 /\ builds = 1

Rest == UNCHANGED <<conf, try, restarts, builds>>
Goto(place) == pc' = place
Fail == Goto("red") /\ UNCHANGED <<guestVars, madeVars>>

-----------------------------------------------------------------------------
(* Guests, hooks and power. *)

(* A guest-side hook's exit status is ignored; it may have done nothing,   *)
(* and does nothing to a guest that is gone.                               *)
InGuest(e) == /\ mem' = mem \/ (qemu = "up" /\ mem' = mem \cup e)
              /\ UNCHANGED <<qemu, disk>>

(* A host-side hook that fails is fatal (sys.exit), the VM left as it is.  *)
HostHook(next) == \/ Goto(next) /\ UNCHANGED <<guestVars, madeVars>>
                  \/ Fail

(* QEMU starts unless another one holds the forwarded port and the image. *)
Launch == qemu = "none" /\ qemu' = "up" /\ mem' = disk /\ UNCHANGED disk

(* start_and_wait: the login prompt; no QEMU after its last attempt (a     *)
(* failed attempt is killed, a failed launch has none); or a               *)
(* waitForLoginTag hook that exits, and leaves its QEMU running.           *)
StartAndWait(next, otherwise) ==
  \/ "system" \in disk /\ Launch /\ Goto(next)
  \/ UNCHANGED guestVars /\ Goto(otherwise)
  \/ Launch /\ Goto("red")

SomeSynced == \E synced \in SUBSET (mem \ disk) : disk' = disk \cup synced

(* The guest powers off, everything synced; or is killed, anything lost.   *)
PowerDown ==
  \/ qemu = "up" /\ disk' = mem /\ UNCHANGED cut
  \/ qemu = "up" /\ cut' = TRUE /\ SomeSynced
  \/ qemu # "up" /\ UNCHANGED <<disk, cut>>

Down == /\ PowerDown
        /\ qemu' = IF qemu = "up" THEN "none" ELSE qemu
        /\ mem' = disk'
        /\ UNCHANGED <<art, exported, passed>>

Destroy == qemu' = (IF qemu = "up" THEN "none" ELSE qemu) /\ mem' = disk /\ UNCHANGED disk

-----------------------------------------------------------------------------
(* Clean slate, media, install. *)

Load == /\ pc = "load"
        /\ Goto("clear") \/ Goto("red")
        /\ Rest /\ UNCHANGED <<guestVars, madeVars>>

ClearForgetsVM == /\ pc = "clear"
                  /\ disk' = {} /\ mem' = {} /\ UNCHANGED qemu
                  /\ Goto("before") /\ Rest /\ UNCHANGED madeVars

(* clearVM: a VM of an earlier run is killed, its disk removed.  One that  *)
(* has no pid file is not found.                                           *)
ClearVM == /\ pc = "clear"
           /\ qemu' = IF qemu = "up" THEN "none" ELSE qemu
           /\ disk' = {} /\ mem' = {}
           /\ Goto("before") /\ Rest /\ UNCHANGED madeVars

(* The beforeBuild hook, then setup(), either of which may give up. *)
BeforeBuild == pc = "before" /\ HostHook("create") /\ Rest

(* An empty disk, and QEMU with the medium attached. *)
CreateVM == Launch /\ Goto("install")

(* The disk is the system already. *)
CreateVMFromVHD == disk' = {"system"} /\ mem' = disk' /\ Goto("boot") /\ UNCHANGED qemu

(* A download, a launch or a hook may fail, or there is nothing to build. *)
Create ==
  /\ pc = "create"
  /\ \/ conf.medium = "iso" /\ CreateVM
     \/ conf.medium = "vhd" /\ CreateVMFromVHD
     \/ Goto("red") /\ UNCHANGED guestVars
  /\ Rest /\ UNCHANGED madeVars

Installed == disk' = {} \/ (qemu = "up" /\ disk' = {"system"})

(* host_installOpts.py: QEMU exits at the installer's reboot, or dies      *)
(* half-way, which looks the same; or the bound runs out (destroyVM, exit).*)
(* Then inject.sh works on the idle image, or fails.                       *)
InstallHook ==
  /\ pc = "install" /\ conf.installHook
  /\ \/ Installed /\ Goto("boot")
     \/ disk' = {} /\ Goto("red")
  /\ qemu' = "none" /\ mem' = disk'
  /\ Rest /\ UNCHANGED madeVars

(* processOpts: the answer file is typed to the end, or a text it waits    *)
(* for never appears; the VM is destroyed either way.                      *)
InstallAnswers ==
  /\ pc = "install" /\ ~conf.installHook
  /\ \/ Installed /\ Goto("boot")
     \/ disk' = {} /\ Goto("red")
  /\ qemu' = "none" /\ mem' = disk'
  /\ Rest /\ UNCHANGED madeVars

FirstBoot == /\ pc = "boot" /\ StartAndWait("gate", "red")
             /\ Rest /\ UNCHANGED madeVars

-----------------------------------------------------------------------------
(* The channel. *)

(* enablessh over telnet: the hook is a gate; without a hook there is no   *)
(* channel to build on.                                                    *)
TelnetGate ==
  /\ pc = "gate" /\ conf.telnet
  /\ \/ conf.gateHook /\ InGuest({"channel"}) /\ Goto("reach")
     \/ Goto("red") /\ UNCHANGED guestVars
  /\ Rest /\ UNCHANGED madeVars

(* enablessh.local: the builder's enablessh.txt, then the key, twice, and  *)
(* the newline that ends it.  What is typed may be cut short anywhere.     *)
EnableSshLocal == SUBSET {"channel", "keys"}

(* As root over ssh, or pasted, piped or served to a root shell at the     *)
(* console; how far it got is not looked at.                               *)
EnableSshBranch == \E e \in EnableSshLocal : InGuest(e)

(* The enablessh hook, which may exit, or one of the branches. *)
SshGate == /\ pc = "gate" /\ ~conf.telnet /\ EnableSshBranch
           /\ Goto("reach") \/ (conf.gateHook /\ Goto("red"))
           /\ Rest /\ UNCHANGED madeVars

Answers == qemu = "up" /\ "channel" \in mem

Reach == /\ pc = "reach" /\ Answers
         /\ passed' = passed \cup {"reached"} /\ Goto("post")
         /\ Rest /\ UNCHANGED <<guestVars, art, exported, cut>>

(* The probes run out: a restart, as often as allowed, or the build fails. *)
ReachFails ==
  /\ pc = "reach"
  /\ IF restarts < MaxRestarts
     THEN Goto("restart") /\ restarts' = restarts + 1
     ELSE Goto("red") /\ UNCHANGED restarts
  /\ UNCHANGED <<conf, guestVars, madeVars, try, builds>>

(* _restart; the result of its start_and_wait is ignored, the exit of a    *)
(* hook inside it is not.                                                  *)
RestartDown == /\ pc = "restart" /\ Down /\ Goto("restarted") /\ Rest

RestartUp == /\ pc = "restarted"
             /\ StartAndWait("reach", "reach")
             /\ Rest /\ UNCHANGED madeVars

(* The postBuild hooks, guest side then host side, and a reboot. *)
PostBuild ==
  /\ pc = "post"
  /\ \/ ~conf.postHook /\ Goto("pkgs") /\ UNCHANGED guestVars
     \/ conf.postHook /\ InGuest({"post"}) /\ Goto("postdown")
     \/ conf.postHook /\ InGuest({"post"}) /\ Goto("red")
  /\ Rest /\ UNCHANGED madeVars

PostDown == pc = "postdown" /\ Down /\ Goto("postup") /\ Rest

PostUp == /\ pc = "postup" /\ StartAndWait("postreach", "red")
          /\ Rest /\ UNCHANGED madeVars

(* The second wait is always _wait_ssh, without a restart: a telnet guest  *)
(* never answers it.                                                       *)
PostReach ==
  /\ pc = "postreach"
  /\ \/ Answers /\ ~conf.telnet /\ Goto("pkgs")
     \/ Goto("red")
  /\ Rest /\ UNCHANGED <<guestVars, madeVars>>

-----------------------------------------------------------------------------
(* Packages, the extra script, the key file. *)

(* A script piped through ssh reports success only if it ran to its end. *)
Runs(e) == /\ Answers /\ ~conf.telnet
           /\ mem' = mem \cup {e} /\ UNCHANGED <<qemu, disk>>
           /\ passed' = passed \cup {e} /\ UNCHANGED <<art, exported, cut>>

InstallPackages ==
  /\ pc = "pkgs"
  /\ \/ ~conf.pkgs /\ Goto("extra") /\ UNCHANGED <<guestVars, madeVars>>
     \/ conf.pkgs /\ Runs("pkgs") /\ Goto("extra")
  /\ Rest

(* One reroll: reboot once and try again. *)
PackagesFail ==
  /\ pc = "pkgs" /\ conf.pkgs
  /\ Goto(IF try = 1 THEN "reroll" ELSE "red") /\ try' = 2
  /\ UNCHANGED <<conf, guestVars, madeVars, restarts, builds>>

RerollDown == pc = "reroll" /\ Down /\ Goto("rerollup") /\ Rest
RerollUp == /\ pc = "rerollup" /\ StartAndWait("pkgs", "red")
            /\ Rest /\ UNCHANGED madeVars

(* VM_EXTRA_SCRIPT, whose exit status is checked; then the finalize hook. *)
ExtraScript ==
  /\ pc = "extra"
  /\ \/ ~conf.extra /\ Goto("keys") /\ UNCHANGED <<guestVars, madeVars>>
     \/ conf.extra /\ Runs("extra") /\ Goto("keys")
     \/ Fail
  /\ Rest

(* The file is read and judged; or the guest says it is not there; or, over *)
(* telnet, without an ssh answer and after two lost connections, skipped.  *)
KeysJudged ==
  /\ pc = "keys" /\ ~conf.telnet /\ Answers
  /\ IF "keys" \in mem THEN passed' = passed \cup {"keys"} /\ Goto("down")
                       ELSE UNCHANGED passed /\ Goto("red")
  /\ Rest /\ UNCHANGED <<guestVars, art, exported, cut>>

KeysSkipped == /\ pc = "keys" /\ Goto("down")
               /\ Rest /\ UNCHANGED <<guestVars, madeVars>>

-----------------------------------------------------------------------------
(* Shutdown, export, verification. *)

SkipsShutdown == pc = "down" /\ Goto("finalize") /\ Rest /\ UNCHANGED <<guestVars, madeVars>>

ShutDown == pc = "down" /\ Down /\ Goto("finalize") /\ Rest

FinalizeImage == pc = "finalize" /\ HostHook("export") /\ Rest

(* qemu-img convert into a new file, which replaces the work image, and    *)
(* zstd of that; each may fail, which is fatal.                            *)
Export ==
  /\ pc = "export"
  /\ \/ /\ art' = disk /\ exported' = TRUE
        /\ Goto(IF conf.verify = "no" THEN "green" ELSE "verify")
        /\ UNCHANGED <<guestVars, passed, cut>>
     \/ Fail
  /\ try' = 1 /\ UNCHANGED <<conf, restarts, builds>>

(* The verification boot of the work image. *)
VerifyBoot == /\ pc = "verify"
              /\ \/ Launch /\ Goto("poll")
                 \/ Goto("red") /\ UNCHANGED guestVars
              /\ Rest /\ UNCHANGED madeVars

VerifyReady == /\ pc = "poll" /\ "system" \in mem /\ Answers
               /\ Goto("checks")
               /\ Rest /\ UNCHANGED <<guestVars, madeVars>>

VerifyTimeoutPasses == /\ pc = "poll" /\ Goto("checks")
                       /\ Rest /\ UNCHANGED <<guestVars, madeVars>>

(* VM_VERIFY_SSH_MAX_SECONDS: killed, and one more boot. *)
VerifyTimeout == /\ pc = "poll" /\ Destroy
                 /\ Goto(IF try = 1 THEN "verify" ELSE "red") /\ try' = 2
                 /\ UNCHANGED <<conf, madeVars, restarts, builds>>

(* rsync must print its version, which needs its package. *)
RsyncRuns == (conf.verify = "rsync" /\ conf.pkgs) => "pkgs" \in mem

(* GITHUB_ANYVM does not come through ssh. *)
SendEnvFails == Goto("red")

(* A check that fails leaves the verification VM running. *)
Checks ==
  /\ pc = "checks"
  /\ \/ SendEnvFails
     \/ RsyncRuns /\ Goto("teardown")
     \/ conf.verify = "rsync" /\ Goto("red")
  /\ Rest /\ UNCHANGED <<guestVars, madeVars>>

Teardown == pc = "teardown" /\ Destroy /\ Goto("green") /\ Rest /\ UNCHANGED madeVars

Main == \/ Load \/ ClearVM \/ BeforeBuild \/ Create \/ InstallHook \/ InstallAnswers
        \/ FirstBoot \/ TelnetGate \/ SshGate \/ Reach \/ ReachFails
        \/ RestartDown \/ RestartUp \/ PostBuild \/ PostDown \/ PostUp \/ PostReach
        \/ InstallPackages \/ PackagesFail \/ RerollDown \/ RerollUp \/ ExtraScript
        \/ KeysJudged \/ KeysSkipped \/ ShutDown \/ FinalizeImage \/ Export
        \/ VerifyBoot \/ VerifyReady \/ VerifyTimeout \/ Checks \/ Teardown

-----------------------------------------------------------------------------
(* The world around the build. *)

Over == pc \in {"green", "red"}

Launching == {"create", "boot", "restarted", "postup", "rerollup", "verify"}

(* The build is cancelled.  A QEMU that was just being launched runs on,   *)
(* with or without its pid file.                                           *)
Interrupted ==
  /\ ~Over
  /\ Goto("red")
  /\ qemu' \in IF pc \in Launching /\ qemu = "none" THEN {"none", "up", "lost"} ELSE {qemu}
  /\ Rest /\ UNCHANGED <<mem, disk, madeVars>>

(* QEMU dies, which every later look takes for a power-off. *)
QemuDies == /\ qemu # "none" /\ qemu' = "none"
            /\ SomeSynced /\ mem' = disk'
            /\ cut' = (cut \/ ~exported)
            /\ UNCHANGED <<pc, art, exported, passed>> /\ Rest

(* Another build in the same workspace. *)
Rebuild ==
  /\ Over /\ builds < Builds
  /\ builds' = builds + 1 /\ Goto("load")
  /\ art' = {} /\ exported' = FALSE /\ passed' = {} /\ cut' = FALSE
  /\ try' = 1 /\ restarts' = 0
  /\ UNCHANGED <<conf, guestVars>>

Next == Main \/ Interrupted \/ QemuDies \/ Rebuild

Spec == Init /\ [][Next]_vars

-----------------------------------------------------------------------------
Places == {"load", "clear", "before", "create", "install", "boot", "gate", "reach",
           "restart", "restarted", "post", "postdown", "postup", "postreach", "pkgs",
           "reroll", "rerollup", "extra", "keys", "down", "finalize", "export",
           "verify", "poll", "checks", "teardown", "green", "red"}

(* What a build has seen succeed. *)
Marks == {"reached", "pkgs", "extra", "keys"}

(* Types; what is in the image is in the guest that runs from it. *)
TypeOK ==
  /\ conf \in Confs /\ pc \in Places
  /\ qemu \in {"none", "up", "lost"}
  /\ disk \subseteq mem /\ mem \subseteq Effects /\ art \subseteq Effects
  /\ exported \in BOOLEAN /\ cut \in BOOLEAN
  /\ passed \subseteq Marks
  /\ try \in 1 .. 2 /\ restarts \in 0 .. MaxRestarts /\ builds \in 1 .. Builds

(* Whenever QEMU is launched, and while hooks and qemu-img work on the     *)
(* image, no QEMU the build knows of runs, whatever an earlier or an       *)
(* interrupted build left behind: "Could not set up host forwarding rule". *)
(* And a green build leaves none that would hold the port of the next.     *)
ImageIdle == /\ pc \in Launching \cup {"finalize", "export"} => qemu # "up"
             /\ pc = "green" => qemu = "none"

Wanted == {"system", "channel"} \cup (IF conf.pkgs THEN {"pkgs"} ELSE {})
          \cup (IF conf.extra THEN {"extra"} ELSE {}) \cup (passed \cap {"keys"})

(* An image is exported only after the guest has answered and every        *)
(* configured step has reported success ("refusing to ship").  Then it     *)
(* contains what they did and the key file that was judged, provided no    *)
(* guest of the build was killed, or died, unsynced.                       *)
AssetComplete ==
  exported => /\ "reached" \in passed
              /\ conf.pkgs => "pkgs" \in passed
              /\ conf.extra => "extra" \in passed
              /\ ~cut => Wanted \subseteq art

(* With a verification boot a green build has shipped an image that boots  *)
(* and answers, and whose rsync package is there, even after a force-kill. *)
VerifiedAssetWorks ==
  (pc = "green" /\ conf.verify # "no")
    => /\ {"system", "channel"} \subseteq art
       /\ (conf.verify = "rsync" /\ conf.pkgs) => "pkgs" \in art

=============================================================================
