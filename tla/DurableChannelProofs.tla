------------------------- MODULE DurableChannelProofs -------------------------
(***************************************************************************)
(* Proofs about DurableChannel, for any bounds of the host's waits.        *)
(***************************************************************************)
EXTENDS DurableChannel, TLAPS

USE BoundsAssumption DEF BoundsAssumption

(* How far a build can have come in its boots and polls. *)
Counted ==
  /\ hpc \in {"phase1", "powerdown", "relaunch"} => boot <= IF restarted THEN 3 ELSE 1
  /\ hpc \in {"phase3", "gate", "confirm", "shutdown"} => boot <= IF restarted THEN 4 ELSE 2
  /\ hpc = "restart" => restarted /\ boot <= 2
  /\ hpc = "phase1" => waited <= SettleMax /\ (quiet < Idle \/ quiet = 0)
  /\ hpc \in {"phase3", "confirm"} => waited <= Tries

(* In a boot after the script's, only the service manager starts the       *)
(* daemon, and only from a key that is in the image.                       *)
Registered ==
  /\ scriptBoot # 0 => script = "over" /\ scriptBoot <= boot
  /\ scriptBoot # 0 /\ scriptBoot < boot => (key <=> disk) /\ daemon # "standalone"
  /\ daemon = "service" => key
  /\ passed <= boot
  /\ scriptBoot # 0 /\ scriptBoot < passed => key /\ disk

IInv == TypeOK /\ Counted /\ Registered

LEMMA InitIInv == Init => IInv
<1>1. Init => TypeOK
  <2>1. Init => power \in BOOLEAN /\ key \in BOOLEAN /\ disk \in BOOLEAN /\ restarted \in BOOLEAN
    BY DEF Init
  <2> QED
    BY <2>1 DEF Init, TypeOK
<1>2. Init => Counted /\ Registered
  BY DEF Init, Counted, Registered
<1> QED
  BY <1>1, <1>2 DEF IInv

(* The Boolean part of TypeOK. *)
Flags == power \in BOOLEAN /\ key \in BOOLEAN /\ disk \in BOOLEAN /\ restarted \in BOOLEAN

LEMMA FlagsStep ==
  ASSUME Flags, [Next]_vars
  PROVE  Flags'
<1>1. ASSUME NEW orderly \in BOOLEAN, TurnOff(orderly)
      PROVE  power' \in BOOLEAN /\ key' \in BOOLEAN /\ disk' \in BOOLEAN
  BY <1>1 DEF Flags, TurnOff
<1>2. TurnOn => power' \in BOOLEAN /\ key' \in BOOLEAN /\ disk' \in BOOLEAN
  BY DEF Flags, TurnOn
<1>3. CASE Guest
  <2>1. restarted' = restarted
    BY <1>3 DEF Guest, SecondStageEnds, ScCreate, ScStart, ScStartFails, LaunchDirectly,
       FlushHive, AutoStart, DhcpAnswers, DhcpGivesUp, hostVars
  <2>2. CASE ScCreate
    BY <2>1, <2>2 DEF Flags, ScCreate
  <2>3. CASE FlushHive
    BY <2>1, <2>3 DEF Flags, FlushHive
  <2>4. CASE UNCHANGED <<power, key, disk>>
    BY <2>1, <2>4 DEF Flags
  <2> QED
    BY <1>3, <2>2, <2>3, <2>4 DEF Guest, SecondStageEnds, ScStart, ScStartFails,
       LaunchDirectly, AutoStart, DhcpAnswers, DhcpGivesUp
<1>4. CASE Host
  <2>1. /\ \/ UNCHANGED guestVars
           \/ \E orderly \in BOOLEAN : TurnOff(orderly)
           \/ TurnOn
        /\ restarted' = restarted \/ restarted' = TRUE
    BY <1>4 DEF Host, Phase1Answers, Phase1Poll, PowerDown, Relaunch, Phase3Answers,
       Phase3Poll, GatePasses, GateFails, Confirm, ConfirmPoll, RestartDown, RestartUp,
       Export, Answered, hostVars
  <2>2. restarted' \in BOOLEAN
    BY <2>1 DEF Flags
  <2>3. UNCHANGED guestVars => power' \in BOOLEAN /\ key' \in BOOLEAN /\ disk' \in BOOLEAN
    BY DEF Flags, guestVars
  <2> QED
    BY <1>1, <1>2, <2>1, <2>2, <2>3 DEF Flags
<1>5. CASE UNCHANGED vars
  BY <1>5 DEF Flags, vars, guestVars, hostVars
<1> QED
  BY <1>3, <1>4, <1>5 DEF Next

(* The guest keeps the types, and changes nothing the host counts with. *)
LEMMA GuestTypes ==
  ASSUME TypeOK, Counted, Flags', Guest
  PROVE  TypeOK' /\ Counted'
<1> USE DEF TypeOK, Flags, hostVars
<1>1. "listening" \in LogLines /\ "running standalone" \in LogLines
  BY DEF LogLines
<1>2. UNCHANGED <<boot, hpc, waited, quiet, restarted>>
  BY DEF Guest, SecondStageEnds, ScCreate, ScStart, ScStartFails, LaunchDirectly,
     FlushHive, AutoStart, DhcpAnswers, DhcpGivesUp
<1>3. Counted'
  BY <1>2 DEF Counted
<1>4. CASE SecondStageEnds \/ ScStartFails
  BY <1>3, <1>4 DEF SecondStageEnds, ScStartFails
<1>5. CASE ScCreate
  BY <1>3, <1>5 DEF ScCreate
<1>6. CASE ScStart
  <2>1. logged' \subseteq LogLines
    BY <1>1, <1>6 DEF ScStart
  <2> QED
    BY <1>3, <1>6, <2>1 DEF ScStart
<1>7. CASE LaunchDirectly
  <2>1. logged' \subseteq LogLines
    BY <1>1, <1>7 DEF LaunchDirectly
  <2>2. /\ script' = "over" /\ scriptBoot' = boot /\ daemon' \in {"standalone", daemon}
        /\ UNCHANGED <<power, boot, key, disk, dhcp, hpc, waited, quiet, passed, atGate, restarted>>
    BY <1>7 DEF LaunchDirectly
  <2> QED
    BY <1>3, <2>1, <2>2
<1>8. CASE AutoStart
  BY <1>1, <1>3, <1>8 DEF AutoStart
<1>9. CASE FlushHive \/ DhcpAnswers \/ DhcpGivesUp
  BY <1>3, <1>9 DEF FlushHive, DhcpAnswers, DhcpGivesUp
<1> QED
  BY <1>4, <1>5, <1>6, <1>7, <1>8, <1>9 DEF Guest

(* The host's waits stay within their bounds. *)
LEMMA HostTypes ==
  ASSUME TypeOK, Counted, Flags', Host
  PROVE  TypeOK' /\ Counted'
<1> USE DEF TypeOK, Counted, Flags, guestVars, hostVars
<1>1. CASE Phase1Answers \/ Phase3Answers
  BY <1>1 DEF Phase1Answers, Phase3Answers, Answered
<1>2. CASE Phase1Poll
  BY <1>2 DEF Phase1Poll, TurnOff, TurnOn
<1>3. CASE PowerDown
  BY <1>3 DEF PowerDown, TurnOff, TurnOn
<1>4. CASE Relaunch
  BY <1>4 DEF Relaunch, TurnOff, TurnOn
<1>5. CASE Phase3Poll
  BY <1>5 DEF Phase3Poll, TurnOff, TurnOn
<1>6. CASE GatePasses \/ GateFails \/ Confirm
  BY <1>6 DEF GatePasses, GateFails, Confirm
<1>7. CASE ConfirmPoll
  BY <1>7 DEF ConfirmPoll
<1>8. CASE RestartDown
  BY <1>8 DEF RestartDown, TurnOff, TurnOn
<1>9. CASE RestartUp
  BY <1>9 DEF RestartUp, TurnOff, TurnOn
<1>10. CASE Export
  BY <1>10 DEF Export, TurnOff, TurnOn
<1> QED
  BY <1>1, <1>2, <1>3, <1>4, <1>5, <1>6, <1>7, <1>8, <1>9, <1>10 DEF Host

(* The registration, as the guest makes it. *)
LEMMA GuestRegisters ==
  ASSUME TypeOK, Registered, Guest
  PROVE  Registered'
<1> USE DEF TypeOK, Registered, hostVars
<1>1. CASE SecondStageEnds \/ ScStartFails
  BY <1>1 DEF SecondStageEnds, ScStartFails
<1>4. CASE ScCreate
  <2>1. scriptBoot = 0 /\ scriptBoot' = 0 /\ passed' <= boot'
    BY <1>4 DEF ScCreate
  <2>2. (key' = TRUE \/ key' = key) /\ daemon' = daemon
    BY <1>4 DEF ScCreate
  <2> QED
    BY <2>1, <2>2
<1>5. CASE ScStart
  <2>1. script' = "over" /\ scriptBoot' = boot' /\ passed' <= boot' /\ boot' \in Nat /\ passed' \in Nat
    BY <1>5 DEF ScStart
  <2>2. key'
    BY <1>5 DEF ScStart
  <2> QED
    BY <2>1, <2>2
<1>6. CASE LaunchDirectly
  <2>1. /\ script' = "over" /\ scriptBoot' = boot /\ daemon' \in {"standalone", daemon}
        /\ UNCHANGED <<boot, key, passed>>
    BY <1>6 DEF LaunchDirectly
  <2>2. daemon' = "service" => key'
    BY <2>1
  <2> QED
    BY <2>1, <2>2
<1>2. CASE FlushHive
  BY <1>2 DEF FlushHive
<1>3. CASE AutoStart \/ DhcpAnswers \/ DhcpGivesUp
  BY <1>3 DEF AutoStart, DhcpAnswers, DhcpGivesUp
<1> QED
  BY <1>1, <1>2, <1>3, <1>4, <1>5, <1>6 DEF Guest

(* Power-offs and boots: what was in the image stays there. *)
LEMMA PowerRegisters ==
  ASSUME TypeOK, Registered, passed' = passed,
         (\E orderly \in BOOLEAN : TurnOff(orderly)) \/ TurnOn
  PROVE  Registered'
<1>1. CASE \E orderly \in BOOLEAN : TurnOff(orderly)
  BY <1>1 DEF TypeOK, Registered, TurnOff
<1>2. CASE TurnOn
  BY <1>2 DEF TypeOK, Registered, TurnOn
<1> QED
  BY <1>1, <1>2

(* A gate that passes in a later boot has seen the service itself: nothing *)
(* else listens there.                                                     *)
LEMMA GateRegisters ==
  ASSUME TypeOK, Registered, GatePasses
  PROVE  Registered'
BY DEF TypeOK, Registered, GatePasses, Reachable, guestVars

LEMMA HostRegisters ==
  ASSUME TypeOK, Registered, Host
  PROVE  Registered'
<1>1. CASE UNCHANGED guestVars /\ passed' = passed
  BY <1>1 DEF Registered, guestVars
<1>2. CASE passed' = passed /\ ((\E orderly \in BOOLEAN : TurnOff(orderly)) \/ TurnOn)
  BY <1>2, PowerRegisters
<1>3. CASE GatePasses
  BY <1>3, GateRegisters
<1> QED
  BY <1>1, <1>2, <1>3 DEF Host, Phase1Answers, Phase1Poll, PowerDown, Relaunch,
     Phase3Answers,
     Phase3Poll, GateFails, Confirm, ConfirmPoll, RestartDown, RestartUp, Export, Answered, hostVars

LEMMA Inductive == Spec => []IInv
<1>1. IInv /\ [Next]_vars => IInv'
  <2> SUFFICES ASSUME IInv, [Next]_vars PROVE IInv'
    OBVIOUS
  <2>4. Flags'
    BY FlagsStep DEF IInv, TypeOK, Flags
  <2>1. CASE Guest
    BY <2>1, <2>4, GuestTypes, GuestRegisters DEF IInv
  <2>2. CASE Host
    BY <2>2, <2>4, HostTypes, HostRegisters DEF IInv
  <2>3. CASE UNCHANGED vars
    BY <2>3 DEF IInv, TypeOK, Counted, Registered, vars, guestVars, hostVars
  <2> QED
    BY <2>1, <2>2, <2>3 DEF Next
<1> QED
  BY InitIInv, <1>1, PTL DEF Spec

(* Types; at most four boots, every poll counter within its wait's bound.  *)
THEOREM TypeCorrect == Spec => []TypeOK
  BY Inductive, PTL DEF IInv

(* A gate passed in a boot after the one in which anyvminst.cmd ended      *)
(* proves that the exported image has the registration.                    *)
THEOREM LaterBootIsProof == Spec => []LaterBootProves
<1>1. IInv => LaterBootProves
  BY DEF IInv, TypeOK, Registered, LaterBootProves
<1> QED
  BY Inductive, <1>1, PTL
=============================================================================
