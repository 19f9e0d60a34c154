----------------------------- MODULE PipelineProofs -----------------------------
(***************************************************************************)
(* Proofs about Pipeline, for any number of restarts and of builds.        *)
(***************************************************************************)
EXTENDS Pipeline, TLAPS

USE PipelineAssumption DEF PipelineAssumption

(* The places of a build, in its order. *)
Early     == {"load", "clear", "before", "create", "install", "boot", "gate"}
Reaching  == {"reach", "restart", "restarted"}
Provision == {"post", "postdown", "postup", "postreach", "pkgs", "reroll", "rerollup"}
Late      == {"keys", "down", "finalize", "export"}
Verifying == {"verify", "poll", "checks", "teardown"}

(* Where no QEMU that the build knows of may run. *)
Quiet == {"before", "create", "boot", "restarted", "postup", "rerollup", "finalize",
          "export", "verify"}

Flags == exported \in BOOLEAN /\ cut \in BOOLEAN

(* The QEMU process.  One without a pid file ends the build at its first   *)
(* launch.                                                                 *)
Known ==
  /\ qemu \in {"none", "up", "lost"}
  /\ pc \in Places
  /\ pc \in Quiet => qemu # "up"
  /\ pc \in {"install", "gate"} \cup Reaching \cup Provision \cup {"extra"} \cup Late
            \cup Verifying \cup {"green"} => qemu # "lost"
  /\ pc = "green" => qemu = "none"

(* A guest that is not running has nothing that is not in its image. *)
Backed == qemu # "up" => mem = disk

(* What has been seen to succeed when the build is at a place. *)
Passed ==
  /\ pc \in Early => passed = {} /\ ~exported
  /\ exported => pc \in Verifying \cup {"green", "red"}
  /\ pc \in Reaching => passed = {}
  /\ pc \in Provision \cup {"extra"} \cup Late \/ exported => "reached" \in passed
  /\ pc \in {"extra"} \cup Late \/ exported => (conf.pkgs => "pkgs" \in passed)
  /\ pc \in Late \/ exported => (conf.extra => "extra" \in passed)

(* Until the export, what has succeeded is in the guest or in its image;   *)
(* then in the asset.                                                      *)
Kept ==
  /\ (pc \in {"gate"} \cup Reaching \cup Provision \cup {"extra"} \cup Late /\ ~cut)
       => /\ "system" \in mem
          /\ "reached" \in passed => "channel" \in mem
          /\ \A e \in {"pkgs", "extra", "keys"} : e \in passed => e \in mem
  /\ (exported /\ ~cut)
       => /\ "system" \in art /\ "channel" \in art
          /\ \A e \in {"pkgs", "extra", "keys"} : e \in passed => e \in art

(* The verification boot runs what was exported, and changes nothing. *)
Verified ==
  /\ pc \in Verifying => mem = disk /\ art = disk /\ exported
  /\ pc \in {"checks", "teardown"} \/ (pc = "green" /\ conf.verify # "no")
       => "system" \in art /\ "channel" \in art
  /\ pc = "teardown" \/ (pc = "green" /\ conf.verify # "no")
       => ((conf.verify = "rsync" /\ conf.pkgs) => "pkgs" \in art)

IInv == TypeOK /\ Known /\ Backed /\ Passed /\ Kept /\ Verified


(* No QEMU where none may run. *)
LEMMA KnownStep ==
  ASSUME Known, [Next]_vars
  PROVE  Known'
<1> USE DEF Known, Places, Quiet, Reaching, Provision, Late, Verifying, Goto,
      Rest, guestVars, madeVars
<1>1. CASE Load \/ ClearVM \/ BeforeBuild
  BY <1>1 DEF Load, Fail, ClearVM, BeforeBuild, HostHook
<1>2. CASE Create
  BY <1>2 DEF Create, CreateVM, CreateVMFromVHD, Launch
<1>3. CASE InstallHook \/ InstallAnswers
  BY <1>3 DEF InstallHook, Installed, InstallAnswers
<1>4. CASE FirstBoot \/ RestartUp \/ PostUp \/ RerollUp
  BY <1>4 DEF FirstBoot, StartAndWait, Launch, RestartUp, PostUp, RerollUp
<1>5. CASE RestartDown \/ PostDown \/ RerollDown \/ ShutDown
  BY <1>5 DEF RestartDown, Down, PowerDown, SomeSynced, PostDown, RerollDown,
     ShutDown
<1>6. CASE TelnetGate \/ SshGate
  BY <1>6 DEF TelnetGate, InGuest, SshGate, EnableSshBranch, EnableSshLocal
<1>7. CASE Reach \/ ReachFails \/ PostReach
  BY <1>7 DEF Reach, Answers, ReachFails, PostReach
<1>8. CASE PostBuild
  BY <1>8 DEF PostBuild, InGuest
<1>9. CASE InstallPackages \/ PackagesFail \/ ExtraScript
  BY <1>9 DEF InstallPackages, Runs, Answers, PackagesFail, ExtraScript, Fail
<1>10. CASE KeysJudged \/ KeysSkipped \/ FinalizeImage
  BY <1>10 DEF KeysJudged, Answers, KeysSkipped, FinalizeImage, HostHook, Fail
<1>11. CASE Export
  BY <1>11 DEF Export, Fail
<1>12. CASE VerifyBoot \/ VerifyReady \/ VerifyTimeout
  BY <1>12 DEF VerifyBoot, Launch, VerifyReady, Answers, VerifyTimeout,
     Destroy
<1>13. CASE Checks \/ Teardown
  BY <1>13 DEF Checks, SendEnvFails, RsyncRuns, Teardown, Destroy
<1>14. CASE Interrupted
  BY <1>14 DEF Interrupted, Over, Launching
<1>15. CASE QemuDies
  BY <1>15 DEF QemuDies, SomeSynced
<1>16. CASE Rebuild
  BY <1>16 DEF Rebuild, Over
<1>17. CASE UNCHANGED vars
  BY <1>17 DEF vars
<1> QED
  BY <1>1, <1>2, <1>3, <1>4, <1>5, <1>6, <1>7, <1>8, <1>9, <1>10, <1>11,
     <1>12, <1>13, <1>14, <1>15, <1>16, <1>17
  DEF Next, Main

(* Whatever is in memory only is in a guest that runs. *)
LEMMA BackedStep ==
  ASSUME Known, Backed, [Next]_vars
  PROVE  Backed'
<1> USE DEF Known, Quiet, Backed, Goto, Rest, guestVars, madeVars
<1>1. CASE Load \/ ClearVM \/ BeforeBuild
  BY <1>1 DEF Load, Fail, ClearVM, BeforeBuild, HostHook
<1>2. CASE Create
  BY <1>2 DEF Create, CreateVM, CreateVMFromVHD, Launch
<1>3. CASE InstallHook \/ InstallAnswers
  BY <1>3 DEF InstallHook, Installed, InstallAnswers
<1>4. CASE FirstBoot \/ RestartUp \/ PostUp \/ RerollUp
  BY <1>4 DEF FirstBoot, StartAndWait, Launch, RestartUp, PostUp, RerollUp
<1>5. CASE RestartDown \/ PostDown \/ RerollDown \/ ShutDown
  BY <1>5 DEF RestartDown, Down, PowerDown, SomeSynced, PostDown, RerollDown,
     ShutDown
<1>6. CASE TelnetGate \/ SshGate
  BY <1>6 DEF TelnetGate, InGuest, SshGate, EnableSshBranch, EnableSshLocal
<1>7. CASE Reach \/ ReachFails \/ PostReach
  BY <1>7 DEF Reach, Answers, ReachFails, PostReach
<1>8. CASE PostBuild
  BY <1>8 DEF PostBuild, InGuest
<1>9. CASE InstallPackages \/ PackagesFail \/ ExtraScript
  BY <1>9 DEF InstallPackages, Runs, Answers, PackagesFail, ExtraScript, Fail
<1>10. CASE KeysJudged \/ KeysSkipped \/ FinalizeImage
  BY <1>10 DEF KeysJudged, Answers, KeysSkipped, FinalizeImage, HostHook, Fail
<1>11. CASE Export
  BY <1>11 DEF Export, Fail
<1>12. CASE VerifyBoot \/ VerifyReady \/ VerifyTimeout
  BY <1>12 DEF VerifyBoot, Launch, VerifyReady, Answers, VerifyTimeout,
     Destroy
<1>13. CASE Checks \/ Teardown
  BY <1>13 DEF Checks, SendEnvFails, RsyncRuns, Teardown, Destroy
<1>14. CASE Interrupted
  BY <1>14 DEF Interrupted, Over, Launching
<1>15. CASE QemuDies
  BY <1>15 DEF QemuDies, SomeSynced
<1>16. CASE Rebuild
  BY <1>16 DEF Rebuild, Over
<1>17. CASE UNCHANGED vars
  BY <1>17 DEF vars
<1> QED
  BY <1>1, <1>2, <1>3, <1>4, <1>5, <1>6, <1>7, <1>8, <1>9, <1>10, <1>11,
     <1>12, <1>13, <1>14, <1>15, <1>16, <1>17
  DEF Next, Main

(* What a place in the build says of the steps before it. *)
LEMMA PassedStep ==
  ASSUME Known, Flags, Passed, [Next]_vars
  PROVE  Passed'
<1> USE DEF Flags, Known, Places, Passed, Early, Reaching, Provision, Late,
      Verifying, Goto, Rest, guestVars, madeVars
<1>1. CASE Load \/ ClearVM \/ BeforeBuild
  BY <1>1 DEF Load, Fail, ClearVM, BeforeBuild, HostHook
<1>2. CASE Create
  BY <1>2 DEF Create, CreateVM, CreateVMFromVHD, Launch
<1>3. CASE InstallHook \/ InstallAnswers
  BY <1>3 DEF InstallHook, Installed, InstallAnswers
<1>4. CASE FirstBoot \/ RestartUp \/ PostUp \/ RerollUp
  BY <1>4 DEF FirstBoot, StartAndWait, Launch, RestartUp, PostUp, RerollUp
<1>5. CASE RestartDown \/ PostDown \/ RerollDown \/ ShutDown
  BY <1>5 DEF RestartDown, Down, PowerDown, SomeSynced, PostDown, RerollDown,
     ShutDown
<1>6. CASE TelnetGate \/ SshGate
  BY <1>6 DEF TelnetGate, InGuest, SshGate, EnableSshBranch, EnableSshLocal
<1>7. CASE Reach \/ ReachFails \/ PostReach
  BY <1>7 DEF Reach, Answers, ReachFails, PostReach
<1>8. CASE PostBuild
  BY <1>8 DEF PostBuild, InGuest
<1>9. CASE InstallPackages \/ PackagesFail \/ ExtraScript
  BY <1>9 DEF InstallPackages, Runs, Answers, PackagesFail, ExtraScript, Fail
<1>10. CASE KeysJudged \/ KeysSkipped \/ FinalizeImage
  BY <1>10 DEF KeysJudged, Answers, KeysSkipped, FinalizeImage, HostHook, Fail
<1>11. CASE Export
  BY <1>11 DEF Export, Fail
<1>12. CASE VerifyBoot \/ VerifyReady \/ VerifyTimeout
  BY <1>12 DEF VerifyBoot, Launch, VerifyReady, Answers, VerifyTimeout,
     Destroy
<1>13. CASE Checks \/ Teardown
  BY <1>13 DEF Checks, SendEnvFails, RsyncRuns, Teardown, Destroy
<1>14. CASE Interrupted
  BY <1>14 DEF Interrupted, Over, Launching
<1>15. CASE QemuDies
  BY <1>15 DEF QemuDies, SomeSynced
<1>16. CASE Rebuild
  BY <1>16 DEF Rebuild, Over
<1>17. CASE UNCHANGED vars
  BY <1>17 DEF vars
<1> QED
  BY <1>1, <1>2, <1>3, <1>4, <1>5, <1>6, <1>7, <1>8, <1>9, <1>10, <1>11,
     <1>12, <1>13, <1>14, <1>15, <1>16, <1>17
  DEF Next, Main

(* No uncut shutdown, and no export, loses what has succeeded. *)
LEMMA KeptStep ==
  ASSUME Known, Backed, Passed, Kept, [Next]_vars
  PROVE  Kept'
<1> USE DEF Known, Places, Quiet, Backed, Passed, Kept, Early, Reaching,
      Provision, Late, Verifying, Goto, Rest, guestVars, madeVars
<1>1. CASE Load \/ ClearVM \/ BeforeBuild
  BY <1>1 DEF Load, Fail, ClearVM, BeforeBuild, HostHook
<1>2. CASE Create
  BY <1>2 DEF Create, CreateVM, CreateVMFromVHD, Launch
<1>3. CASE InstallHook \/ InstallAnswers
  BY <1>3 DEF InstallHook, Installed, InstallAnswers
<1>4. CASE FirstBoot \/ RestartUp \/ PostUp \/ RerollUp
  BY <1>4 DEF FirstBoot, StartAndWait, Launch, RestartUp, PostUp, RerollUp
<1>5. CASE RestartDown \/ PostDown \/ RerollDown \/ ShutDown
  BY <1>5 DEF RestartDown, Down, PowerDown, SomeSynced, PostDown, RerollDown,
     ShutDown
<1>6. CASE TelnetGate \/ SshGate
  BY <1>6 DEF TelnetGate, InGuest, SshGate, EnableSshBranch, EnableSshLocal
<1>7. CASE Reach \/ ReachFails \/ PostReach
  BY <1>7 DEF Reach, Answers, ReachFails, PostReach
<1>8. CASE PostBuild
  BY <1>8 DEF PostBuild, InGuest
<1>9. CASE InstallPackages \/ PackagesFail \/ ExtraScript
  BY <1>9 DEF InstallPackages, Runs, Answers, PackagesFail, ExtraScript, Fail
<1>10. CASE KeysJudged \/ KeysSkipped \/ FinalizeImage
  BY <1>10 DEF KeysJudged, Answers, KeysSkipped, FinalizeImage, HostHook, Fail
<1>11. CASE Export
  BY <1>11 DEF Export, Fail
<1>12. CASE VerifyBoot \/ VerifyReady \/ VerifyTimeout
  BY <1>12 DEF VerifyBoot, Launch, VerifyReady, Answers, VerifyTimeout,
     Destroy
<1>13. CASE Checks \/ Teardown
  BY <1>13 DEF Checks, SendEnvFails, RsyncRuns, Teardown, Destroy
<1>14. CASE Interrupted
  BY <1>14 DEF Interrupted, Over, Launching
<1>15. CASE QemuDies
  BY <1>15 DEF QemuDies, SomeSynced
<1>16. CASE Rebuild
  BY <1>16 DEF Rebuild, Over
<1>17. CASE UNCHANGED vars
  BY <1>17 DEF vars
<1> QED
  BY <1>1, <1>2, <1>3, <1>4, <1>5, <1>6, <1>7, <1>8, <1>9, <1>10, <1>11,
     <1>12, <1>13, <1>14, <1>15, <1>16, <1>17
  DEF Next, Main

(* The image under verification is the asset. *)
LEMMA VerifiedStep ==
  ASSUME Known, Backed, Passed, Verified, [Next]_vars
  PROVE  Verified'
<1> USE DEF Known, Quiet, Backed, Passed, Verified, Early, Reaching,
      Provision, Late, Verifying, Goto, Rest, guestVars, madeVars
<1>1. CASE Load \/ ClearVM \/ BeforeBuild
  BY <1>1 DEF Load, Fail, ClearVM, BeforeBuild, HostHook
<1>2. CASE Create
  BY <1>2 DEF Create, CreateVM, CreateVMFromVHD, Launch
<1>3. CASE InstallHook \/ InstallAnswers
  BY <1>3 DEF InstallHook, Installed, InstallAnswers
<1>4. CASE FirstBoot \/ RestartUp \/ PostUp \/ RerollUp
  BY <1>4 DEF FirstBoot, StartAndWait, Launch, RestartUp, PostUp, RerollUp
<1>5. CASE RestartDown \/ PostDown \/ RerollDown \/ ShutDown
  BY <1>5 DEF RestartDown, Down, PowerDown, SomeSynced, PostDown, RerollDown,
     ShutDown
<1>6. CASE TelnetGate \/ SshGate
  BY <1>6 DEF TelnetGate, InGuest, SshGate, EnableSshBranch, EnableSshLocal
<1>7. CASE Reach \/ ReachFails \/ PostReach
  BY <1>7 DEF Reach, Answers, ReachFails, PostReach
<1>8. CASE PostBuild
  BY <1>8 DEF PostBuild, InGuest
<1>9. CASE InstallPackages \/ PackagesFail \/ ExtraScript
  BY <1>9 DEF InstallPackages, Runs, Answers, PackagesFail, ExtraScript, Fail
<1>10. CASE KeysJudged \/ KeysSkipped \/ FinalizeImage
  BY <1>10 DEF KeysJudged, Answers, KeysSkipped, FinalizeImage, HostHook, Fail
<1>11. CASE Export
  BY <1>11 DEF Export, Fail
<1>12. CASE VerifyBoot \/ VerifyReady \/ VerifyTimeout
  BY <1>12 DEF VerifyBoot, Launch, VerifyReady, Answers, VerifyTimeout,
     Destroy
<1>13. CASE Checks \/ Teardown
  BY <1>13 DEF Checks, SendEnvFails, RsyncRuns, Teardown, Destroy
<1>14. CASE Interrupted
  BY <1>14 DEF Interrupted, Over, Launching
<1>15. CASE QemuDies
  BY <1>15 DEF QemuDies, SomeSynced
<1>16. CASE Rebuild
  BY <1>16 DEF Rebuild, Over
<1>17. CASE UNCHANGED vars
  BY <1>17 DEF vars
<1> QED
  BY <1>1, <1>2, <1>3, <1>4, <1>5, <1>6, <1>7, <1>8, <1>9, <1>10, <1>11,
     <1>12, <1>13, <1>14, <1>15, <1>16, <1>17
  DEF Next, Main

(* Booleans. *)
LEMMA FlagsStep ==
  ASSUME Flags, [Next]_vars
  PROVE  Flags'
<1> USE DEF Flags, Goto, Rest, guestVars, madeVars
<1>1. CASE Load \/ ClearVM \/ BeforeBuild
  BY <1>1 DEF Load, Fail, ClearVM, BeforeBuild, HostHook
<1>2. CASE Create
  BY <1>2 DEF Create, CreateVM, CreateVMFromVHD, Launch
<1>3. CASE InstallHook \/ InstallAnswers
  BY <1>3 DEF InstallHook, Installed, InstallAnswers
<1>4. CASE FirstBoot \/ RestartUp \/ PostUp \/ RerollUp
  BY <1>4 DEF FirstBoot, StartAndWait, Launch, RestartUp, PostUp, RerollUp
<1>5. CASE RestartDown \/ PostDown \/ RerollDown \/ ShutDown
  BY <1>5 DEF RestartDown, Down, PowerDown, SomeSynced, PostDown, RerollDown,
     ShutDown
<1>6. CASE TelnetGate \/ SshGate
  BY <1>6 DEF TelnetGate, InGuest, SshGate, EnableSshBranch, EnableSshLocal
<1>7. CASE Reach \/ ReachFails \/ PostReach
  BY <1>7 DEF Reach, Answers, ReachFails, PostReach
<1>8. CASE PostBuild
  BY <1>8 DEF PostBuild, InGuest
<1>9. CASE InstallPackages \/ PackagesFail \/ ExtraScript
  BY <1>9 DEF InstallPackages, Runs, Answers, PackagesFail, ExtraScript, Fail
<1>10. CASE KeysJudged \/ KeysSkipped \/ FinalizeImage
  BY <1>10 DEF KeysJudged, Answers, KeysSkipped, FinalizeImage, HostHook, Fail
<1>11. CASE Export
  BY <1>11 DEF Export, Fail
<1>12. CASE VerifyBoot \/ VerifyReady \/ VerifyTimeout
  BY <1>12 DEF VerifyBoot, Launch, VerifyReady, Answers, VerifyTimeout,
     Destroy
<1>13. CASE Checks \/ Teardown
  BY <1>13 DEF Checks, SendEnvFails, RsyncRuns, Teardown, Destroy
<1>14. CASE Interrupted
  BY <1>14 DEF Interrupted, Over, Launching
<1>15. CASE QemuDies
  BY <1>15 DEF QemuDies, SomeSynced
<1>16. CASE Rebuild
  BY <1>16 DEF Rebuild, Over
<1>17. CASE UNCHANGED vars
  BY <1>17 DEF vars
<1> QED
  BY <1>1, <1>2, <1>3, <1>4, <1>5, <1>6, <1>7, <1>8, <1>9, <1>10, <1>11,
     <1>12, <1>13, <1>14, <1>15, <1>16, <1>17
  DEF Next, Main

(* What an effect and a mark are. *)
LEMMA Members ==
  /\ \A e \in {"system", "channel", "keys", "post", "pkgs", "extra"} : e \in Effects
  /\ \A e \in {"reached", "pkgs", "extra", "keys"} : e \in Marks
  /\ \A e \in EnableSshLocal : e \subseteq Effects
  BY DEF Effects, Marks, EnableSshLocal

Sets == disk \subseteq mem /\ mem \subseteq Effects /\ art \subseteq Effects /\ passed \subseteq Marks

(* Effects and marks. *)
LEMMA SetsStep ==
  ASSUME Sets, [Next]_vars
  PROVE  Sets'
<1> USE Members DEF Sets, Goto, Rest, guestVars, madeVars
<1>1. CASE Load \/ ClearVM \/ BeforeBuild
  BY <1>1 DEF Load, Fail, ClearVM, BeforeBuild, HostHook
<1>2. CASE Create
  BY <1>2 DEF Create, CreateVM, CreateVMFromVHD, Launch
<1>3. CASE InstallHook \/ InstallAnswers
  BY <1>3 DEF InstallHook, Installed, InstallAnswers
<1>4. CASE FirstBoot \/ RestartUp \/ PostUp \/ RerollUp
  BY <1>4 DEF FirstBoot, StartAndWait, Launch, RestartUp, PostUp, RerollUp
<1>5. CASE RestartDown \/ PostDown \/ RerollDown \/ ShutDown
  BY <1>5 DEF RestartDown, Down, PowerDown, SomeSynced, PostDown, RerollDown,
     ShutDown
<1>6. CASE TelnetGate \/ SshGate
  BY <1>6 DEF TelnetGate, InGuest, SshGate, EnableSshBranch
<1>7. CASE Reach \/ ReachFails \/ PostReach
  BY <1>7 DEF Reach, Answers, ReachFails, PostReach
<1>8. CASE PostBuild
  BY <1>8 DEF PostBuild, InGuest
<1>9. CASE InstallPackages \/ PackagesFail \/ ExtraScript
  BY <1>9 DEF InstallPackages, Runs, Answers, PackagesFail, ExtraScript, Fail
<1>10. CASE KeysJudged \/ KeysSkipped \/ FinalizeImage
  BY <1>10 DEF KeysJudged, Answers, KeysSkipped, FinalizeImage, HostHook, Fail
<1>11. CASE Export
  BY <1>11 DEF Export, Fail
<1>12. CASE VerifyBoot \/ VerifyReady \/ VerifyTimeout
  BY <1>12 DEF VerifyBoot, Launch, VerifyReady, Answers, VerifyTimeout,
     Destroy
<1>13. CASE Checks \/ Teardown
  BY <1>13 DEF Checks, SendEnvFails, RsyncRuns, Teardown, Destroy
<1>14. CASE Interrupted
  BY <1>14 DEF Interrupted, Over, Launching
<1>15. CASE QemuDies
  BY <1>15 DEF QemuDies, SomeSynced
<1>16. CASE Rebuild
  BY <1>16 DEF Rebuild, Over
<1>17. CASE UNCHANGED vars
  BY <1>17 DEF vars
<1> QED
  BY <1>1, <1>2, <1>3, <1>4, <1>5, <1>6, <1>7, <1>8, <1>9, <1>10, <1>11,
     <1>12, <1>13, <1>14, <1>15, <1>16, <1>17
  DEF Next, Main

Scalars ==
  /\ conf \in Confs
  /\ try \in 1 .. 2 /\ restarts \in 0 .. MaxRestarts /\ builds \in 1 .. Builds

(* Counters. *)
LEMMA ScalarsStep ==
  ASSUME Scalars, [Next]_vars
  PROVE  Scalars'
<1> USE DEF Scalars, Goto, Rest, guestVars, madeVars
<1>1. CASE Load \/ ClearVM \/ BeforeBuild
  BY <1>1 DEF Load, Fail, ClearVM, BeforeBuild, HostHook
<1>2. CASE Create
  BY <1>2 DEF Create, CreateVM, CreateVMFromVHD, Launch
<1>3. CASE InstallHook \/ InstallAnswers
  BY <1>3 DEF InstallHook, Installed, InstallAnswers
<1>4. CASE FirstBoot \/ RestartUp \/ PostUp \/ RerollUp
  BY <1>4 DEF FirstBoot, StartAndWait, Launch, RestartUp, PostUp, RerollUp
<1>5. CASE RestartDown \/ PostDown \/ RerollDown \/ ShutDown
  BY <1>5 DEF RestartDown, Down, PowerDown, SomeSynced, PostDown, RerollDown,
     ShutDown
<1>6. CASE TelnetGate \/ SshGate
  BY <1>6 DEF TelnetGate, InGuest, SshGate, EnableSshBranch
<1>7. CASE Reach \/ ReachFails \/ PostReach
  BY <1>7 DEF Reach, Answers, ReachFails, PostReach
<1>8. CASE PostBuild
  BY <1>8 DEF PostBuild, InGuest
<1>9. CASE InstallPackages \/ PackagesFail \/ ExtraScript
  BY <1>9 DEF InstallPackages, Runs, Answers, PackagesFail, ExtraScript, Fail
<1>10. CASE KeysJudged \/ KeysSkipped \/ FinalizeImage
  BY <1>10 DEF KeysJudged, Answers, KeysSkipped, FinalizeImage, HostHook, Fail
<1>11. CASE Export
  BY <1>11 DEF Export, Fail
<1>12. CASE VerifyBoot \/ VerifyReady \/ VerifyTimeout
  BY <1>12 DEF VerifyBoot, Launch, VerifyReady, Answers, VerifyTimeout,
     Destroy
<1>13. CASE Checks \/ Teardown
  BY <1>13 DEF Checks, SendEnvFails, RsyncRuns, Teardown, Destroy
<1>14. CASE Interrupted
  BY <1>14 DEF Interrupted, Over, Launching
<1>15. CASE QemuDies
  BY <1>15 DEF QemuDies, SomeSynced
<1>16. CASE Rebuild
  BY <1>16 DEF Rebuild, Over
<1>17. CASE UNCHANGED vars
  BY <1>17 DEF vars
<1> QED
  BY <1>1, <1>2, <1>3, <1>4, <1>5, <1>6, <1>7, <1>8, <1>9, <1>10, <1>11,
     <1>12, <1>13, <1>14, <1>15, <1>16, <1>17
  DEF Next, Main

LEMMA InitIInv == Init => IInv
<1> SUFFICES ASSUME Init PROVE IInv
  OBVIOUS
<1>1. TypeOK
  <2>1. Flags
    BY DEF Init, Flags
  <2>2. Sets
    BY DEF Init, Sets
  <2>3. Scalars /\ pc \in Places
    BY DEF Init, Scalars, Places
  <2> QED
    BY <2>1, <2>2, <2>3 DEF Init, TypeOK, Flags, Sets, Scalars
<1>2. Known /\ Backed /\ Passed
  BY DEF Init, Known, Places, Quiet, Backed, Passed, Early, Reaching, Provision, Late,
     Verifying
<1>3. Kept /\ Verified
  BY DEF Init, Kept, Verified, Reaching, Provision, Late, Verifying
<1> QED
  BY <1>1, <1>2, <1>3 DEF IInv

LEMMA Inductive == Spec => []IInv
<1>1. IInv /\ [Next]_vars => IInv'
  <2> SUFFICES ASSUME IInv, [Next]_vars PROVE IInv'
    OBVIOUS
  <2>1. Flags /\ Sets /\ Scalars
    BY DEF IInv, TypeOK, Flags, Sets, Scalars
  <2>2. Flags' /\ Sets' /\ Scalars'
    BY <2>1, FlagsStep, SetsStep, ScalarsStep
  <2>3. Known' /\ Backed' /\ Passed' /\ Kept' /\ Verified'
    BY <2>1, KnownStep, BackedStep, PassedStep, KeptStep, VerifiedStep DEF IInv
  <2>4. TypeOK'
    BY <2>2, <2>3 DEF TypeOK, Flags, Sets, Scalars, Known
  <2> QED
    BY <2>3, <2>4 DEF IInv
<1> QED
  BY InitIInv, <1>1, PTL DEF Spec

(* Types, whatever earlier or interrupted builds left. *)
THEOREM TypeCorrect == Spec => []TypeOK
  BY Inductive, PTL DEF IInv

(* No QEMU of the build runs at a launch or at the export. *)
THEOREM ImageStaysIdle == Spec => []ImageIdle
<1>1. IInv => ImageIdle
  BY DEF IInv, Known, ImageIdle, Quiet, Launching
<1> QED
  BY Inductive, <1>1, PTL

(* What is exported was checked, and contains what was checked. *)
THEOREM AssetIsComplete == Spec => []AssetComplete
<1>1. IInv => AssetComplete
  BY DEF IInv, Passed, Kept, AssetComplete, Wanted
<1> QED
  BY Inductive, <1>1, PTL

(* What a verified build ships boots and answers. *)
THEOREM VerifiedWorks == Spec => []VerifiedAssetWorks
<1>1. IInv => VerifiedAssetWorks
  BY DEF IInv, Verified, VerifiedAssetWorks
<1> QED
  BY Inductive, <1>1, PTL
=============================================================================
