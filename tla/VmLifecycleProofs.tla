--------------------------- MODULE VmLifecycleProofs ---------------------------
(***************************************************************************)
(* Proofs about VmLifecycle, for any bounds of the host's waits.           *)
(***************************************************************************)
EXTENDS VmLifecycle, TLAPS

USE PollsAssumption DEF PollsAssumption

Flags == /\ pidFile \in BOOLEAN /\ clean \in BOOLEAN /\ ordered \in BOOLEAN
         /\ ack \in BOOLEAN /\ grown \in BOOLEAN

(* Each wait's counter has not reached its bound while the wait goes on. *)
Counted ==
  /\ pc = "login" => elapsed < LoginMax \/ elapsed = 0
  /\ pc = "term" => elapsed <= TermMax
  /\ pc \in {"wait", "read"} => /\ elapsed < DownMax \/ elapsed = 0
                                /\ stalled <= elapsed /\ mute <= elapsed

(* What the host takes to be gone is gone. *)
Found ==
  /\ qemu = "running" => pidFile /\ lateness = 0
  /\ pc = "read" => lateness = 0
  /\ lateness <= 1
  /\ pc \in {"remove", "launch", "leave", "over", "failed"} => qemu # "running"

(* The file systems are consistent once the guest has synced, which the    *)
(* halt banner and a power-off come after.                                 *)
Synced ==
  /\ guest \in {"synced", "halted"} => clean
  /\ tail = "banner" => clean /\ guest \in {"halted", "off"}
  /\ pc \in {"login", "recheck", "up", "button", "wait", "read"} /\ qemu # "running" => clean
  /\ pc \in {"destroy", "term", "remove"} /\ back = "leave" /\ ended \in {"poweroff", "banner"} => clean
  /\ pc = "leave" /\ ended \in {"poweroff", "banner"} => clean

(* From the ack on, silence is counted alike by host and guest. *)
Down == {"stopping", "wedged", "synced", "halted", "off"}
Silences ==
  /\ ack => ~conf.sparc64
  /\ tail = "ack" => guest \in Down
  /\ pc \in {"wait", "read"} /\ ack => guest \in Down
  /\ (pc \in {"wait", "read"} /\ (ack \/ tail = "ack") /\ ~grown /\ guest \in {"stopping", "wedged"})
       => mute = stalled

IInv == TypeOK /\ Counted /\ Found /\ Synced /\ Silences

LEMMA InitIInv == Init => IInv
<1>1. Init => Flags
  BY DEF Init, Flags
<1>2. Init => TypeOK
  BY <1>1 DEF Init, TypeOK, Flags
<1>3. Init => Counted /\ Synced
  BY DEF Init, Counted, Synced
<1>4. Init => Found
  <2>1. Init => (qemu = "running" => pidFile)
    BY Zenon DEF Init
  <2> QED
    BY <2>1 DEF Init, Found
<1>5. Init => Silences
  BY DEF Init, Silences, Down
<1> QED
  BY <1>2, <1>3, <1>4, <1>5 DEF IInv

(* The Boolean part of TypeOK. *)
LEMMA FlagsStep ==
  ASSUME Flags, [Next]_vars
  PROVE  Flags'
<1> USE DEF Flags, guestVars, waitVars
<1>1. CASE Guest
  BY <1>1 DEF Guest, ReachesLogin, Wedges, Obeys, Chatters, DisksSynced, Halts,
     PowersOff,
     TermTakes, HostIdle, Prints, Silent
<1>2. CASE ClearVM \/ DestroyBegins \/ DestroyWaits \/ DestroyEnds
  BY <1>2 DEF ClearVM, DestroyBegins, DestroyWaits, DestroyEnds, Destroy
<1>3. CASE Launch \/ LaunchFails \/ LoginPoll \/ TagShown \/ TagMissing
  BY <1>3 DEF Launch, LaunchFails, LoginPoll, TagShown, TagMissing
<1>4. CASE Order \/ Button \/ WaitLooks \/ Leave
  BY <1>4 DEF Order, Button, WaitLooks, Leave
<1>5. CASE WaitReads
  BY <1>5 DEF WaitReads, AckSeen
<1>6. CASE UNCHANGED vars
  BY <1>6 DEF vars
<1> QED
  BY <1>1, <1>2, <1>3, <1>4, <1>5, <1>6 DEF Next, Host

(* Types and counters. *)
LEMMA TypeStep ==
  ASSUME TypeOK, Counted, Found, Flags', [Next]_vars
  PROVE  TypeOK' /\ Counted'
<1> USE DEF TypeOK, Counted, Flags, guestVars, waitVars
<1>1. CASE Guest
  BY <1>1 DEF Guest, ReachesLogin, Wedges, Obeys, Chatters, DisksSynced, Halts,
     PowersOff,
     TermTakes, HostIdle, GuestStep, Prints, Silent
<1>2. CASE ClearVM \/ DestroyBegins \/ DestroyEnds
  BY <1>2 DEF ClearVM, DestroyBegins, DestroyEnds, Destroy
<1>3. CASE DestroyWaits
  BY <1>3 DEF DestroyWaits
<1>4. CASE Launch \/ LaunchFails
  BY <1>4 DEF Launch, LaunchFails
<1>5. CASE LoginPoll
  BY <1>5 DEF LoginPoll
<1>6. CASE TagShown \/ TagMissing
  BY <1>6 DEF TagShown, TagMissing, Destroy
<1>7. CASE Order
  BY <1>7 DEF Order
<1>11. CASE Button
  BY <1>11 DEF Button
<1>8. CASE WaitLooks \/ Leave
  BY <1>8 DEF WaitLooks, Leave
<1>9. CASE WaitReads
  BY <1>9 DEF WaitReads, Stalled, OutOfTime, Kill, Destroy, Found
<1>10. CASE UNCHANGED vars
  BY <1>10 DEF vars
<1> QED
  BY <1>1, <1>2, <1>3, <1>4, <1>5, <1>6, <1>7, <1>8, <1>9, <1>10, <1>11
  DEF Next, Host

(* Whether QEMU runs, and whether the host knows. *)
LEMMA FoundStep ==
  ASSUME TypeOK, Found, [Next]_vars
  PROVE  Found'
<1> USE DEF TypeOK, Found, guestVars, waitVars, PidAlive
<1>1. CASE Guest
  BY <1>1 DEF Guest, ReachesLogin, Wedges, Obeys, Chatters, DisksSynced, Halts,
     PowersOff,
     TermTakes, HostIdle, GuestStep
<1>2. CASE ClearVM \/ DestroyBegins \/ DestroyEnds
  BY <1>2 DEF ClearVM, DestroyBegins, DestroyEnds, Destroy
<1>3. CASE DestroyWaits
  BY <1>3 DEF DestroyWaits
<1>4. CASE Launch \/ LaunchFails
  BY <1>4 DEF Launch, LaunchFails
<1>5. CASE LoginPoll \/ TagShown \/ TagMissing
  BY <1>5 DEF LoginPoll, TagShown, TagMissing, Destroy
<1>6. CASE Order \/ Button
  BY <1>6 DEF Order, Button
<1>7. CASE WaitLooks \/ Leave
  BY <1>7 DEF WaitLooks, Leave
<1>8. CASE WaitReads
  BY <1>8 DEF WaitReads, Kill, Destroy
<1>9. CASE UNCHANGED vars
  BY <1>9 DEF vars
<1> QED
  BY <1>1, <1>2, <1>3, <1>4, <1>5, <1>6, <1>7, <1>8, <1>9 DEF Next, Host

(* Whether the image is consistent. *)
LEMMA SyncedStep ==
  ASSUME TypeOK, Found, Synced, [Next]_vars
  PROVE  Synced'
<1> USE DEF TypeOK, Synced, guestVars, waitVars
<1>1. CASE Guest
  BY <1>1 DEF Guest, ReachesLogin, Wedges, Obeys, Chatters, DisksSynced, Halts,
     PowersOff,
     TermTakes, HostIdle, GuestStep, Prints, Silent
<1>2. CASE ClearVM \/ DestroyBegins \/ DestroyEnds
  BY <1>2 DEF ClearVM, DestroyBegins, DestroyEnds, Destroy
<1>3. CASE DestroyWaits
  BY <1>3 DEF DestroyWaits
<1>4. CASE Launch \/ LaunchFails
  BY <1>4 DEF Launch, LaunchFails
<1>5. CASE LoginPoll \/ TagShown \/ TagMissing
  BY <1>5 DEF LoginPoll, TagShown, TagMissing, Destroy
<1>6. CASE Order
  BY <1>6 DEF Order
<1>10. CASE Button
  BY <1>10 DEF Button
<1>7. CASE WaitLooks \/ Leave
  BY <1>7 DEF WaitLooks, Leave, PidAlive, Found
<1>8. CASE WaitReads
  BY <1>8 DEF WaitReads, Kill, Destroy
<1>9. CASE UNCHANGED vars
  BY <1>9 DEF vars
<1> QED
  BY <1>1, <1>2, <1>3, <1>4, <1>5, <1>6, <1>7, <1>8, <1>9, <1>10
  DEF Next, Host

(* What an ack stands for. *)
LEMMA SilencesStep ==
  ASSUME TypeOK, Silences, [Next]_vars
  PROVE  Silences'
<1> USE DEF TypeOK, Silences, Down, guestVars, waitVars
<1>1. CASE ReachesLogin \/ Chatters
  BY <1>1 DEF ReachesLogin, Chatters, HostIdle, GuestStep, Prints
<1>10. CASE Wedges
  BY <1>10 DEF Wedges, HostIdle, GuestStep, Silent
<1>11. CASE Obeys
  BY <1>11 DEF Obeys, HostIdle, GuestStep, Prints, Silent
<1>12. CASE DisksSynced \/ Halts \/ PowersOff \/ TermTakes
  BY <1>12 DEF DisksSynced, Halts, PowersOff, TermTakes, HostIdle, GuestStep,
     Prints, Silent
<1>2. CASE ClearVM \/ DestroyBegins \/ DestroyEnds
  BY <1>2 DEF ClearVM, DestroyBegins, DestroyEnds, Destroy
<1>3. CASE DestroyWaits
  BY <1>3 DEF DestroyWaits
<1>4. CASE Launch \/ LaunchFails
  BY <1>4 DEF Launch, LaunchFails
<1>5. CASE LoginPoll \/ TagShown \/ TagMissing
  BY <1>5 DEF LoginPoll, TagShown, TagMissing, Destroy
<1>6. CASE Order
  BY <1>6 DEF Order
<1>14. CASE Button
  <2>1. ~ack' /\ grown'
    BY <1>14 DEF Button
  <2>2. tail' = tail /\ guest' = guest
    BY <1>14 DEF Button
  <2> QED
    BY <2>1, <2>2
<1>7. CASE WaitLooks
  BY <1>7 DEF WaitLooks
<1>13. CASE Leave
  BY <1>13 DEF Leave
<1>8. CASE WaitReads
  BY <1>8 DEF WaitReads, Kill, Destroy, AckSeen, Stalled
<1>9. CASE UNCHANGED vars
  BY <1>9 DEF vars
<1> QED
  BY <1>1, <1>2, <1>3, <1>4, <1>5, <1>6, <1>7, <1>8, <1>9, <1>10, <1>11,
     <1>12, <1>13, <1>14 DEF Next, Host, Guest

LEMMA Inductive == Spec => []IInv
<1>1. IInv /\ [Next]_vars => IInv'
  <2> SUFFICES ASSUME IInv, [Next]_vars PROVE IInv'
    OBVIOUS
  <2>1. Flags'
    BY FlagsStep DEF IInv, TypeOK, Flags
  <2> QED
    BY <2>1, TypeStep, FoundStep, SyncedStep, SilencesStep DEF IInv
<1> QED
  BY InitIInv, <1>1, PTL DEF Spec

(* Types, and every counter of a wait within its bound. *)
THEOREM TypeCorrect == Spec => []TypeOK
  BY Inductive, PTL DEF IInv

(* No QEMU runs when the next is launched, at the export, or after a       *)
(* failure, whatever the guest does and whatever was left behind.          *)
THEOREM NoneLeft == Spec => []NoQemuLeft
<1>1. IInv => NoQemuLeft
  BY DEF IInv, Found, NoQemuLeft
<1> QED
  BY Inductive, <1>1, PTL

(* A power-off is noticed by the next look. *)
THEOREM PowerOffSeen == Spec => []PowerOffNoticed
<1>1. IInv => PowerOffNoticed
  BY DEF IInv, Found, PowerOffNoticed
<1> QED
  BY Inductive, <1>1, PTL

(* A power-off or the halt banner means a consistent image. *)
THEOREM DownIsClean == Spec => []DownMeansClean
<1>1. IInv => DownMeansClean
  BY DEF IInv, Synced, DownMeansClean
<1> QED
  BY Inductive, <1>1, PTL

(* A busy guest is never killed early but after an ack and a full silence. *)
THEOREM SyncSpared == Spec => SyncNeverCut
<1>1. ASSUME IInv, [Next]_vars, EarlyKill, ~conf.console
      PROVE  \/ guest \in {"synced", "halted", "off"}
             \/ ~conf.sparc64 /\ ack' /\ mute' >= AckMax
  <2>1. WaitReads
    BY <1>1 DEF EarlyKill, Next, Guest, Host, ReachesLogin, Wedges, Obeys, Chatters,
       DisksSynced, Halts, PowersOff, TermTakes, HostIdle, ClearVM, DestroyBegins,
       DestroyWaits, DestroyEnds, Launch, LaunchFails, LoginPoll, TagShown, TagMissing,
       Order, Button, WaitLooks, Leave, vars
  <2>2. CASE tail = "banner"
    BY <1>1, <2>2 DEF IInv, Synced
  <2>3. CASE tail # "banner"
    <3>1. AckSilence
      BY <1>1, <2>1, <2>3 DEF WaitReads, EarlyKill, Kill, ConsoleSilence, Destroy
    <3>2. ack' /\ ~conf.sparc64 /\ (ack \/ tail = "ack") /\ ~grown
      BY <1>1, <2>1, <3>1 DEF WaitReads, AckSilence, AckSeen, IInv, Silences
    <3>3. guest \in Down
      BY <2>1, <3>2, <1>1 DEF IInv, Silences, WaitReads
    <3>4. CASE guest \in {"synced", "halted", "off"}
      BY <3>4
    <3>5. CASE guest \in {"stopping", "wedged"}
      <4>1. mute = stalled
        BY <2>1, <3>2, <3>5, <1>1 DEF IInv, Silences, WaitReads
      <4>2. mute' = mute + 1
        BY <2>1, <3>2, <3>5 DEF WaitReads
      <4>3. stalled + 1 >= AckMax
        BY <3>1, <3>2 DEF AckSilence, Stalled
      <4> QED
        BY <4>1, <4>2, <4>3, <3>2
    <3> QED
      BY <3>3, <3>4, <3>5 DEF Down
  <2> QED
    BY <2>2, <2>3
<1>2. IInv /\ [Next]_vars
        => [(EarlyKill /\ ~conf.console)
              => \/ guest \in {"synced", "halted", "off"}
                 \/ ~conf.sparc64 /\ ack' /\ mute' >= AckMax]_vars
  BY <1>1
<1> QED
  BY Inductive, <1>2, PTL DEF Spec, SyncNeverCut
=============================================================================
