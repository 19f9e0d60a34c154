----------------------------- MODULE DownloadProofs -----------------------------
(***************************************************************************)
(* Proofs about Download, for any number of workers, attempts and runs;    *)
(* and, in the second part, about Watch, which decides what release's      *)
(* medium that is, for any set of versions and any number of faults.       *)
(***************************************************************************)
EXTENDS Download, Watch, FiniteSetTheorems, TLAPS

USE DownloadAssumption DEF DownloadAssumption

Fetching == {"single", "chunks", "resume", "size", "fetched"}

Flags == /\ ranges \in BOOLEAN /\ ignored \in BOOLEAN /\ reused \in BOOLEAN
         /\ fetched \in BOOLEAN /\ long \in BOOLEAN

(* No counter is past its bound. *)
Counted ==
  /\ \A i \in working : tries[i] < Attempts
  /\ pc = "resume" => stalls < Attempts
  /\ pc = "chunks" => stalls = 0 /\ got = 0

(* As long as the server keeps to the ranges: what a worker that is        *)
(* through leaves in the file, and what a resumed download has of it.      *)
Placed ==
  /\ pc = "single" => ~ranges
  /\ (pc \in Fetching /\ ~ignored) => ~long
  /\ (pc = "chunks" /\ ~ignored)
       => \A i \in Cells : i \notin working \cup failed => cell[i] = "data"
  /\ (pc = "resume" /\ ~ignored)
       => got <= Parts /\ \A i \in Cells : i <= got => cell[i] = "data"
  /\ (pc \in {"size", "fetched"} /\ ranges /\ ~ignored) => \A i \in Cells : cell[i] = "data"

(* Where the medium that is used comes from, and when an archive is known  *)
(* to be whole.                                                            *)
Sourced ==
  /\ pc \in Fetching => fetched
  /\ (pc = "unpack" /\ kind \notin Archives \cup {"xz"}) => fetched
  /\ (pc = "look" /\ kind \in Swept) => plain = "none"
  /\ (pc \in {"convert", "ready"} /\ kind \in Swept) => plain = "good"
  /\ (pc = "unpack" /\ ~reused /\ ranges /\ ~ignored)
       => IF IntoPlain THEN plain = "good" ELSE pack = "good"
  /\ (pc \in {"convert", "ready"} /\ ~reused /\ kind \in {"bz2", "gz"}) => plain = "good"
  /\ (pc \in {"convert", "ready"} /\ ~reused /\ ranges /\ ~ignored) => plain = "good"
  /\ (pc \in Fetching \cup {"probe"}) => ~reused
  /\ LeftoverNeverFatal
  /\ pc = "unpack" => IF IntoPlain THEN plain # "none" ELSE pack # "none"

IInv == TypeOK /\ Counted /\ Placed /\ Sourced

(* Booleans. *)
LEMMA FlagsStep ==
  ASSUME Flags, [Next]_vars
  PROVE  Flags'
<1> USE DEF Flags, Goto, Keep, Written, Empty, fileVars,
      bodyVars, workVars, seenVars
<1>1. CASE Clear \/ Look
  BY <1>1 DEF Clear, Look, Still
<1>2. CASE UnpackArchive
  BY <1>2 DEF UnpackArchive, Still
<1>3. CASE Unpack \/ UnpackIso
  BY <1>3 DEF Unpack, UnpackIso, Still
<1>4. CASE Convert
  BY <1>4 DEF Convert, Still
<1>5. CASE Probe
  BY <1>5 DEF Probe
<1>6. CASE Single
  BY <1>6 DEF Single
<1>7. ASSUME NEW i \in Cells, Chunk(i) PROVE Flags'
  BY <1>7 DEF Chunk, Overrun, TriesAgain, Finishes
<1>8. CASE Gather
  BY <1>8 DEF Gather
<1>9. CASE Resume
  <2>1. long' \in BOOLEAN
    <3>1. long' = (got' > Parts)
      BY <1>9, Zenon DEF Resume
    <3>2. (got' > Parts) \in BOOLEAN
      OBVIOUS
    <3> QED
      BY <3>1, <3>2, Zenon
  <2>2. UNCHANGED <<ranges, reused, fetched>>
    BY <1>9 DEF Resume
  <2>3. ignored' = ignored \/ ignored' = TRUE
    BY <1>9, Zenon DEF Resume
  <2> QED
    BY <2>1, <2>2, <2>3
<1>10. CASE ResumeEnds \/ Size
  BY <1>10 DEF ResumeEnds, Size
<1>11. CASE Fetched
  BY <1>11 DEF Fetched, Whole
<1>12. CASE Interrupted
  BY <1>12 DEF Interrupted, Over
<1>13. CASE NextRun
  BY <1>13 DEF NextRun, Over
<1>14. CASE UNCHANGED vars
  BY <1>14 DEF vars
<1> QED
  BY <1>1, <1>2, <1>3, <1>4, <1>5, <1>6, <1>7, <1>8, <1>9, <1>10, <1>11, <1>12,
     <1>13, <1>14
  DEF Next, Fetch, Build

(* Attempts. *)
LEMMA CountedStep ==
  ASSUME TypeOK, Counted, [Next]_vars
  PROVE  Counted'
<1> USE DEF TypeOK, Counted, Goto, Keep, Written, Empty, fileVars,
      bodyVars, workVars, seenVars
<1>1. CASE Clear \/ Look
  BY <1>1 DEF Clear, Look, Still
<1>2. CASE UnpackArchive
  BY <1>2 DEF UnpackArchive, Still
<1>3. CASE Unpack \/ UnpackIso
  BY <1>3 DEF Unpack, UnpackIso, Still
<1>4. CASE Convert
  BY <1>4 DEF Convert, Still
<1>5. CASE Probe
  BY <1>5 DEF Probe
<1>6. CASE Single
  BY <1>6 DEF Single
<1>7. ASSUME NEW i \in Cells, Chunk(i) PROVE Counted'
  BY <1>7 DEF Chunk, Overrun, TriesAgain, Finishes
<1>8. CASE Gather
  BY <1>8 DEF Gather
<1>9. CASE Resume
  BY <1>9 DEF Resume, Overrun
<1>10. CASE ResumeEnds \/ Size
  BY <1>10 DEF ResumeEnds, Size
<1>11. CASE Fetched
  BY <1>11 DEF Fetched, Whole
<1>12. CASE Interrupted
  BY <1>12 DEF Interrupted, Over
<1>13. CASE NextRun
  BY <1>13 DEF NextRun, Over
<1>14. CASE UNCHANGED vars
  BY <1>14 DEF vars
<1> QED
  BY <1>1, <1>2, <1>3, <1>4, <1>5, <1>6, <1>7, <1>8, <1>9, <1>10, <1>11, <1>12,
     <1>13, <1>14
  DEF Next, Fetch, Build

(* Types. *)
LEMMA TypeStep ==
  ASSUME TypeOK, Counted, Flags', [Next]_vars
  PROVE  TypeOK'
<1> USE DEF TypeOK, Counted, Flags, Files, Kinds, IntoPlain, Goto, Keep, Written,
   Empty, fileVars,
      bodyVars, workVars, seenVars
<1>1. CASE Clear \/ Look
  BY <1>1 DEF Clear, Look, Still
<1>2. CASE UnpackArchive
  BY <1>2 DEF UnpackArchive, Still
<1>3. CASE Unpack \/ UnpackIso
  BY <1>3 DEF Unpack, UnpackIso, Still
<1>4. CASE Convert
  BY <1>4 DEF Convert, Still
<1>5. CASE Probe
  BY <1>5 DEF Probe
<1>6. CASE Single
  BY <1>6 DEF Single
<1>7. ASSUME NEW i \in Cells, Chunk(i) PROVE TypeOK'
  BY <1>7 DEF Chunk, Overrun, TriesAgain, Finishes
<1>8. CASE Gather
  BY <1>8 DEF Gather
<1>9. CASE Resume
  BY <1>9 DEF Resume, Overrun
<1>10. CASE ResumeEnds \/ Size
  BY <1>10 DEF ResumeEnds, Size
<1>11. CASE Fetched
  BY <1>11 DEF Fetched, Whole
<1>12. CASE Interrupted
  BY <1>12 DEF Interrupted, Over
<1>13. CASE NextRun
  BY <1>13 DEF NextRun, Over
<1>14. CASE UNCHANGED vars
  BY <1>14 DEF vars
<1> QED
  BY <1>1, <1>2, <1>3, <1>4, <1>5, <1>6, <1>7, <1>8, <1>9, <1>10, <1>11, <1>12,
     <1>13, <1>14
  DEF Next, Fetch, Build

(* The bytes of a download. *)
LEMMA PlacedStep ==
  ASSUME TypeOK, Counted, Placed, [Next]_vars
  PROVE  Placed'
<1> USE DEF TypeOK, Counted, Placed, Fetching, Cells, Goto, Keep, Written, Empty,
   fileVars,
      bodyVars, workVars, seenVars
<1>1. CASE Clear \/ Look
  BY <1>1 DEF Clear, Look, Still
<1>2. CASE UnpackArchive
  BY <1>2 DEF UnpackArchive, Still
<1>3. CASE Unpack \/ UnpackIso
  BY <1>3 DEF Unpack, UnpackIso, Still
<1>4. CASE Convert
  BY <1>4 DEF Convert, Still
<1>5. CASE Probe
  BY <1>5 DEF Probe
<1>6. CASE Single
  BY <1>6 DEF Single
<1>7. ASSUME NEW i \in Cells, Chunk(i) PROVE Placed'
  BY <1>7 DEF Chunk, Overrun, TriesAgain, Finishes
<1>8. CASE Gather
  BY <1>8 DEF Gather
<1>9. CASE Resume
  BY <1>9 DEF Resume, Overrun
<1>10. CASE ResumeEnds \/ Size
  BY <1>10 DEF ResumeEnds, Size
<1>11. CASE Fetched
  BY <1>11 DEF Fetched, Whole
<1>12. CASE Interrupted
  BY <1>12 DEF Interrupted, Over
<1>13. CASE NextRun
  BY <1>13 DEF NextRun, Over
<1>14. CASE UNCHANGED vars
  BY <1>14 DEF vars
<1> QED
  BY <1>1, <1>2, <1>3, <1>4, <1>5, <1>6, <1>7, <1>8, <1>9, <1>10, <1>11, <1>12,
     <1>13, <1>14
  DEF Next, Fetch, Build

(* Files of this run and of earlier ones. *)
LEMMA SourcedStep ==
  ASSUME TypeOK, Placed, Sourced, [Next]_vars
  PROVE  Sourced'
<1> USE DEF TypeOK, Placed, Sourced, Fetching, Swept, Archives, LeftoverNeverFatal,
   IntoPlain, Files, Kinds, Goto,
   Keep, Written, Empty, fileVars,
      bodyVars, workVars, seenVars
<1>1. CASE Clear \/ Look
  BY <1>1 DEF Clear, Look, Still
<1>2. CASE UnpackArchive
  BY <1>2 DEF UnpackArchive, Still
<1>3. CASE Unpack \/ UnpackIso
  BY <1>3 DEF Unpack, UnpackIso, Still
<1>4. CASE Convert
  BY <1>4 DEF Convert, Still
<1>5. CASE Probe
  BY <1>5 DEF Probe
<1>6. CASE Single
  BY <1>6 DEF Single
<1>7. ASSUME NEW i \in Cells, Chunk(i) PROVE Sourced'
  BY <1>7 DEF Chunk, Overrun, TriesAgain, Finishes
<1>8. CASE Gather
  BY <1>8 DEF Gather
<1>9. CASE Resume
  BY <1>9 DEF Resume, Overrun
<1>10. CASE ResumeEnds \/ Size
  BY <1>10 DEF ResumeEnds, Size
<1>11. CASE Fetched
  BY <1>11 DEF Fetched, Whole
<1>12. CASE Interrupted
  BY <1>12 DEF Interrupted, Over
<1>13. CASE NextRun
  BY <1>13 DEF NextRun, Over
<1>14. CASE UNCHANGED vars
  BY <1>14 DEF vars
<1> QED
  BY <1>1, <1>2, <1>3, <1>4, <1>5, <1>6, <1>7, <1>8, <1>9, <1>10, <1>11, <1>12,
     <1>13, <1>14
  DEF Next, Fetch, Build

(* The invariant of a download initially. *)
LEMMA InitIInv == Init => IInv
<1> SUFFICES ASSUME Init PROVE IInv
  OBVIOUS
<1>1. Flags
  BY DEF Init, Idle, Flags
<1>2. TypeOK
  BY <1>1 DEF Init, Idle, TypeOK, Flags, Files, Cells, Empty, Kinds
<1>3. Counted
  BY DEF Init, Idle, Counted
<1>4. Placed /\ Sourced
  BY DEF Init, Idle, Placed, Sourced, Fetching, LeftoverNeverFatal
<1> QED
  BY <1>2, <1>3, <1>4 DEF IInv

(* The invariant of a download. *)
LEMMA Inductive == Spec => []IInv
<1>1. IInv /\ [Next]_vars => IInv'
  <2> SUFFICES ASSUME IInv, [Next]_vars PROVE IInv'
    OBVIOUS
  <2>1. Flags'
    BY FlagsStep DEF IInv, TypeOK, Flags
  <2> QED
    BY <2>1, CountedStep, TypeStep, PlacedStep, SourcedStep DEF IInv
<1> QED
  BY InitIInv, <1>1, PTL DEF Spec

(* Types, and no counter past its bound. *)
THEOREM TypeCorrect == Spec => []TypeOK
  BY Inductive, PTL DEF IInv

(* Whatever the workers and the connections do, a download that returns    *)
(* from a server that keeps to the ranges has every byte in its place.     *)
THEOREM DownloadIsWhole == Spec => []FetchedWhole
<1>1. IInv => FetchedWhole
  BY DEF IInv, TypeOK, Placed, Fetching, FetchedWhole, Whole
<1> QED
  BY Inductive, <1>1, PTL

(* The medium a build goes on with is whole if clearVM removes what that   *)
(* kind unpacks to, if it is a bz2 ISO or a .qcow2.gz fetched in this run, *)
(* or if it was fetched in this run from a server that keeps to its ranges *)
(* (MediumWhole says what else may be damaged).                            *)
THEOREM MediumIsWhole == Spec => []MediumWhole
<1>1. IInv => MediumWhole
  BY DEF IInv, Sourced, MediumWhole
<1> QED
  BY Inductive, <1>1, PTL

(* A build that fails without having downloaded has met a damaged file of  *)
(* an earlier run, never one of a packed image or of a tar archive.        *)
THEOREM LeftoversAreReplaced == Spec => []LeftoverNeverFatal
<1>1. IInv => LeftoverNeverFatal
  BY DEF IInv, Sourced, LeftoverNeverFatal
<1> QED
  BY Inductive, <1>1, PTL
-----------------------------------------------------------------------------
(* The release watch *)

(* A finite set of numbers has a greatest: a finite set without one would  *)
(* have a smallest such subset, which cannot lose an element.              *)
LEMMA Greatest ==
  ASSUME NEW S \in SUBSET Nat, IsFiniteSet(S), S # {}
  PROVE  \E m \in S : \A k \in S : m >= k
<1> DEFINE R == StrictSubsetOrdering(Nat)
           Bad == {A \in FiniteSubsetsOf(Nat) : A # {} /\ ~ \E m \in A : \A k \in A : m >= k}
<1>1. IsWellFoundedOn(R, FiniteSubsetsOf(Nat))
  BY FS_StrictSubsetOrderingWellFounded
<1>2. SUFFICES ASSUME Bad # {} PROVE FALSE
  BY DEF FiniteSubsetsOf
<1>3. PICK A \in Bad : \A B \in Bad : ~(<<B, A>> \in R)
  <2>1. Bad \subseteq FiniteSubsetsOf(Nat)
    OBVIOUS
  <2> HIDE DEF Bad, R
  <2> QED
    BY <1>1, <1>2, <2>1, WFMin
<1>4. PICK a \in A : TRUE
  BY <1>3
<1>5. A \ {a} \in FiniteSubsetsOf(Nat)
  BY <1>3, FS_Subset DEF FiniteSubsetsOf
<1>6. <<A \ {a}, A>> \in R
  BY <1>3, <1>4 DEF StrictSubsetOrdering, FiniteSubsetsOf
<1>7. A \ {a} \notin Bad
  BY <1>3, <1>6
<1>8. A \subseteq Nat /\ a \in Nat
  BY <1>3, <1>4 DEF FiniteSubsetsOf
<1>9. CASE A \ {a} = {}
  BY <1>3, <1>4, <1>8, <1>9
<1>10. CASE A \ {a} # {}
  <2>1. PICK m \in A \ {a} : \A k \in A \ {a} : m >= k
    BY <1>5, <1>7, <1>10
  <2>2. CASE m >= a
    <3>1. \A k \in A : m >= k
      BY <2>1, <2>2
    <3> QED
      BY <1>3, <2>1, <3>1
  <2>3. CASE ~(m >= a)
    <3>1. \A k \in A : a >= k
      BY <1>8, <2>1, <2>3
    <3> QED
      BY <1>3, <1>4, <3>1
  <2> QED
    BY <2>2, <2>3
<1> QED
  BY <1>9, <1>10

(* The greatest of a finite set is in it. *)
LEMMA MaxIsIn ==
  ASSUME NEW S \in SUBSET Nat, IsFiniteSet(S), S # {}
  PROVE  Max(S) \in S
BY Greatest DEF Max

-----------------------------------------------------------------------------
(* The push loop begins at its first attempt and ends at its last. *)
PushesLeft == /\ step \in {"detect", "land"} => pushes = 0
              /\ step = "push" => pushes < Pushes

(* What the run is about to land was seen as a final release with media,   *)
(* and what upstream has published so stays.                               *)
LandsFinal ==
  /\ OnlyFinalLands
  /\ step \in {"land", "push", "notify"} => found \in Eligible

(* Every conf on main had its issue, or was landed by a run that was cut   *)
(* off, or is the one this run is about to tell.                           *)
Heard ==
  /\ issues \subseteq told
  /\ confs \subseteq told \cup hushed \cup {v \in {found} : step = "notify"}

WatchInv == WatchTypeOK /\ PushesLeft /\ LandsFinal /\ Heard

(* The invariant of the watch initially. *)
LEMMA WatchInitially == ASSUME WatchInit PROVE WatchInv
<1>1. WatchTypeOK
  <2>1. alarm \in BOOLEAN
    BY DEF WatchInit
  <2> QED
    BY <2>1, WatchAssumption DEF WatchInit, WatchTypeOK, ReleaseKinds, Steps
<1> QED
  BY <1>1 DEF WatchInit, WatchInv, PushesLeft, LandsFinal, OnlyFinalLands, Heard

(* The hook names an eligible release. *)
LEMMA NewestIsEligible ==
  ASSUME Eligible # {}
  PROVE  Max(Eligible) \in Eligible
<1>1. Eligible \in SUBSET Versions
  BY DEF Eligible
<1>2. Versions \subseteq Nat /\ IsFiniteSet(Versions)
  BY WatchAssumption
<1>3. Eligible \in SUBSET Nat /\ IsFiniteSet(Eligible)
  BY <1>1, <1>2, FS_Subset
<1> QED
  BY <1>3, MaxIsIn

(* A final release with media stays one. *)
LEMMA StaysFinal ==
  ASSUME WatchTypeOK, [WatchNext]_watchVars
  PROVE  Eligible \subseteq Eligible'
<1>1. CASE \E v \in Versions : Publishes(v)
  <2>1. PICK v \in Versions, next \in ReleaseKinds :
              Rank(release[v]) < Rank(next) /\ release' = [release EXCEPT ![v] = next]
    BY <1>1 DEF Publishes
  <2>2. release[v] \notin {"old", "new"}
    BY <2>1 DEF Rank, ReleaseKinds
  <2> QED
    BY <2>1, <2>2 DEF Eligible, WatchTypeOK
<1>2. CASE UNCHANGED release
  BY <1>2 DEF Eligible
<1> QED
  BY <1>1, <1>2 DEF WatchNext, watchVars, Closes, Night, Run, Detect, Land, Push,
     Notify, Report, DetectFails, NotifyFails, Cancelled, Main

(* The alarm is raised or not. *)
LEMMA AlarmStep ==
  ASSUME alarm \in BOOLEAN, [WatchNext]_watchVars
  PROVE  alarm' \in BOOLEAN
  BY DEF WatchNext, watchVars, Publishes, Closes, Night, Run, Detect, Land, Push,
     Notify, Report, DetectFails, NotifyFails, Cancelled, Told

(* Types, and the pushes that are left. *)
LEMMA WatchTypes ==
  ASSUME WatchTypeOK, PushesLeft, LandsFinal,
         [WatchNext]_watchVars
  PROVE  WatchTypeOK' /\ PushesLeft'
<1> USE DEF WatchTypeOK, Steps, PushesLeft, Main, Told,
            Fault
<1>a. alarm' \in BOOLEAN
  BY AlarmStep
<1>f. step \in {"land", "push", "notify"} => found \in Versions
  BY DEF LandsFinal, Eligible
<1>p. Pushes \in Nat \ {0} /\ Faults \in Nat
  BY WatchAssumption
<1>1. CASE \E v \in Versions : Publishes(v)
  BY <1>1, <1>a DEF Publishes
<1>2. CASE Closes
  BY <1>2, <1>a DEF Closes
<1>3. CASE Night
  BY <1>3, <1>a, <1>p DEF Night
<1>4. CASE Detect
  <2>1. Eligible \subseteq Versions
    BY DEF Eligible
  <2>2. found' \in Versions \cup {0}
    BY <1>4, <2>1, NewestIsEligible DEF Detect
  <2> QED
    BY <1>4, <1>a, <2>2 DEF Detect
<1>5. CASE Land
  BY <1>5, <1>a, <1>p DEF Land
<1>6. CASE Push
  BY <1>6, <1>a, <1>f, <1>p DEF Push
<1>7. CASE Notify
  BY <1>7, <1>a, <1>f DEF Notify
<1>8. CASE DetectFails \/ NotifyFails
  BY <1>8, <1>a, <1>f, <1>p DEF DetectFails, NotifyFails
<1>9. CASE Report \/ Cancelled
  BY <1>9, <1>a, <1>f, <1>p DEF Report, Cancelled
<1>10. CASE UNCHANGED watchVars
  BY <1>10 DEF watchVars
<1> QED
  BY <1>1, <1>2, <1>3, <1>4, <1>5, <1>6, <1>7, <1>8, <1>9, <1>10
  DEF WatchNext, Run

(* What is being landed stays a final release. *)
LEMMA LandsFinalStep ==
  ASSUME WatchInv, [WatchNext]_watchVars
  PROVE  LandsFinal'
<1>1. confs \subseteq Eligible
  BY DEF WatchInv, LandsFinal, OnlyFinalLands, WatchTypeOK, Eligible
<1>2. confs \subseteq Eligible' /\ (step \in {"land", "push", "notify"} => found \in Eligible')
  BY <1>1, StaysFinal DEF WatchInv, LandsFinal
<1>3. /\ confs' \subseteq confs \cup {v \in {found} : step = "push"}
      /\ step' \in {"push", "notify"} => step \in {"land", "push", "notify"} /\ found' = found
  BY DEF WatchNext, watchVars, Publishes, Closes, Night, Run, Detect, Land, Push,
     Notify, Report, DetectFails, NotifyFails, Cancelled, Told, Main
<1>4. step' = "land" => found' \in Eligible'
  <2>1. CASE Detect
    <3>1. Eligible' = Eligible
      BY <2>1 DEF Detect, Main, Eligible
    <3> QED
      BY <2>1, <3>1, NewestIsEligible DEF Detect
  <2>2. CASE step = "land" /\ found' = found
    BY <1>2, <2>2
  <2> QED
    BY <2>1, <2>2 DEF WatchNext, watchVars, Publishes, Closes, Night, Run, Detect, Land,
       Push, Notify, Report, DetectFails, NotifyFails, Cancelled, Main
<1>5. confs' \subseteq Eligible'
  BY <1>2, <1>3
<1> QED
  BY <1>2, <1>3, <1>4, <1>5 DEF LandsFinal, OnlyFinalLands, Eligible

(* What has landed has been told, or the run is still to tell. *)
LEMMA HeardStep ==
  ASSUME Heard, [WatchNext]_watchVars
  PROVE  Heard'
<1> USE DEF Heard, Main, Told
<1>1. CASE \E v \in Versions : Publishes(v)
  BY <1>1 DEF Publishes
<1>2. CASE Closes
  BY <1>2 DEF Closes
<1>3. CASE Night \/ Detect \/ Land \/ DetectFails
  BY <1>3 DEF Night, Detect, Land, DetectFails
<1>4. CASE Push
  BY <1>4 DEF Push
<1>5. CASE Notify
  BY <1>5 DEF Notify
<1>6. CASE NotifyFails
  BY <1>6 DEF NotifyFails
<1>7. CASE Report \/ Cancelled
  BY <1>7 DEF Report, Cancelled
<1>8. CASE UNCHANGED watchVars
  BY <1>8 DEF watchVars
<1> QED
  BY <1>1, <1>2, <1>3, <1>4, <1>5, <1>6, <1>7, <1>8 DEF WatchNext, Run

(* The invariant of the watch. *)
LEMMA WatchInductive == WatchSpec => []WatchInv
<1>1. WatchInit => WatchInv
  BY WatchInitially
<1>2. WatchInv /\ [WatchNext]_watchVars => WatchInv'
  BY WatchTypes, LandsFinalStep, HeardStep DEF WatchInv
<1> QED
  BY <1>1, <1>2, PTL DEF WatchSpec

(* Types of the release watch. *)
THEOREM WatchTypeCorrect == WatchSpec => []WatchTypeOK
<1>1. WatchInv => WatchTypeOK
  BY DEF WatchInv
<1> QED
  BY <1>1, WatchInductive, PTL

(* Whatever upstream publishes while a run is under way, no draft,         *)
(* candidate or bare tag ever has a conf on main.                          *)
THEOREM OnlyFinals == WatchSpec => []OnlyFinalLands
<1>1. WatchInv => OnlyFinalLands
  BY DEF WatchInv, LandsFinal
<1> QED
  BY <1>1, WatchInductive, PTL

(* Between runs each conf has had its issue, or its run was cut off. *)
THEOREM LandingsAreTold == WatchSpec => []LandingTold
<1>1. WatchInv => LandingTold
  BY DEF WatchInv, Heard, LandingTold
<1> QED
  BY <1>1, WatchInductive, PTL
===============================================================================
