-------------------------- MODULE WaitChannelProofs --------------------------
(***************************************************************************)
(* Proofs about WaitChannel, for any set of addresses and any bounds.      *)
(***************************************************************************)
EXTENDS WaitChannel, TLAPS

(* A wait that goes on has probes left. *)
Counted == pc \notin {"restart", "ready", "failed"} => retry <= MaxRetries

(* Every address the host can read is one of this boot's leases, the last  *)
(* of which the guest has; the guard rewrites only to another one than     *)
(* the forward was wired for.                                              *)
Evidence ==
  /\ lease \in leased \cup {None} /\ (lease = None => leased = {})
  /\ flows \in leased \cup {None} /\ printed \in leased \cup {None}
  /\ pc \in {"remove", "add"} => actual \in leased \ {Expected}

(* Until the guard is done the forward is as wired, or there is an address *)
(* other than Expected; afterwards no rewrite is under way.                *)
Rewrites ==
  /\ fwd # Expected => leased \ {Expected} # {}
  /\ guard => pc \notin {"detect", "remove", "add"} /\ leased # {}

(* A round of the guard while the flow table shows the lease and the       *)
(* monitor answers: it reads the lease, empties the port, and fills it.    *)
Excused == guard /\ (Moved \/ unheard)
Followed ==
  steady # 0 =>
    /\ flows = lease /\ lease # None
    /\ pc \in {"remove", "add"} => actual = lease
    /\ pc = "add" => fwd = None
    /\ pc \notin {"detect", "remove"} \/ steady = 2 => Excused \/ fwd \in {lease, None}

(* The Boolean part of TypeOK. *)
Flags == /\ listening \in BOOLEAN /\ storm \in BOOLEAN
         /\ removed \in BOOLEAN /\ guard \in BOOLEAN /\ unheard \in BOOLEAN

IInv == /\ TypeOK /\ Counted /\ Evidence /\ Rewrites
        /\ ForwardOfThisBoot /\ GuardMeansForwarded /\ Followed

USE WaitAssumption DEF WaitAssumption

(* The first probe finds QEMU as it was wired and the guard not yet run. *)
LEMMA InitIInv == Init => IInv
<1>1. Init => TypeOK
  <2>1. Init => Flags
    BY DEF Init, Flags
  <2> QED
    BY <2>1 DEF Init, TypeOK, Flags
<1>2. Init => /\ Counted /\ Evidence /\ Rewrites
              /\ ForwardOfThisBoot /\ GuardMeansForwarded /\ Followed
  BY DEF Init, Counted, Evidence, Rewrites, ForwardOfThisBoot, GuardMeansForwarded,
     Followed
<1> QED
  BY <1>1, <1>2 DEF IInv

(* Types and counters. *)
LEMMA TypeStep ==
  ASSUME TypeOK, Counted, [Next]_vars
  PROVE  TypeOK' /\ Counted'
<1> USE DEF TypeOK, Counted, guestVars, hostVars
<1>1. ASSUME NEW a \in Addresses, Leases(a)
      PROVE  TypeOK' /\ Counted'
  BY <1>1 DEF Leases
<1>11. CASE Listens \/ Connects \/ Disconnects \/ LosesInterrupts
  <2>1. Flags'
    BY <1>11 DEF Flags, Listens, Connects, Disconnects, LosesInterrupts
  <2> QED
    BY <1>11, <2>1 DEF Flags, Listens, Connects, Disconnects, LosesInterrupts
<1>2. CASE ProbeAnswers
  BY <1>2 DEF ProbeAnswers
<1>3. CASE ProbeFails
  BY <1>3 DEF ProbeFails
<1>4. CASE Detect
  BY <1>4 DEF Detect, Outcomes, Resteady
<1>5. CASE Remove
  BY <1>5 DEF Remove, Outcomes, Resteady
<1>6. CASE Add
  BY <1>6 DEF Add, Outcomes, Resteady
<1>7. CASE Wedge
  BY <1>7 DEF Wedge, RestartOrFail
<1>8. CASE Sleep
  BY <1>8 DEF Sleep, RestartOrFail
<1>9. CASE Restart
  <2>1. Flags'
    BY <1>9 DEF Flags, Restart
  <2> QED
    BY <1>9, <2>1 DEF Flags, Restart
<1>10. CASE UNCHANGED vars
  BY <1>10 DEF vars
<1> QED
  BY <1>1, <1>2, <1>3, <1>4, <1>5, <1>6, <1>7, <1>8, <1>9, <1>10, <1>11
  DEF Next, Guest, Host

(* What the guard can read. *)
LEMMA EvidenceStep ==
  ASSUME TypeOK, Evidence, [Next]_vars
  PROVE  Evidence'
<1> USE DEF TypeOK, Evidence, guestVars, hostVars
<1>1. CASE Guest
  BY <1>1 DEF Guest, Leases, Listens, Connects, Disconnects, LosesInterrupts
<1>2. CASE ProbeAnswers \/ ProbeFails
  BY <1>2 DEF ProbeAnswers, ProbeFails
<1>3. CASE Detect
  BY <1>3 DEF Detect, Outcomes, Resteady
<1>4. CASE Remove \/ Add
  BY <1>4 DEF Remove, Add, Outcomes, Resteady
<1>5. CASE Wedge \/ Sleep
  BY <1>5 DEF Wedge, Sleep, RestartOrFail
<1>6. CASE Restart
  BY <1>6 DEF Restart
<1>7. CASE UNCHANGED vars
  BY <1>7 DEF vars
<1> QED
  BY <1>1, <1>2, <1>3, <1>4, <1>5, <1>6, <1>7 DEF Next, Host

(* Where the port may lead. *)
LEMMA ForwardStep ==
  ASSUME TypeOK, Evidence, Rewrites, ForwardOfThisBoot, [Next]_vars
  PROVE  Rewrites' /\ ForwardOfThisBoot'
<1> USE DEF TypeOK, Evidence, Rewrites, ForwardOfThisBoot, guestVars, hostVars
<1>1. CASE Guest
  BY <1>1 DEF Guest, Leases, Listens, Connects, Disconnects, LosesInterrupts
<1>2. CASE ProbeAnswers \/ ProbeFails
  BY <1>2 DEF ProbeAnswers, ProbeFails
<1>3. CASE Detect
  BY <1>3 DEF Detect, Outcomes, Resteady
<1>4. CASE Remove \/ Add
  BY <1>4 DEF Remove, Add, Outcomes, Resteady
<1>5. CASE Wedge \/ Sleep
  BY <1>5 DEF Wedge, Sleep, RestartOrFail
<1>6. CASE Restart
  BY <1>6 DEF Restart
<1>7. CASE UNCHANGED vars
  BY <1>7 DEF vars
<1> QED
  BY <1>1, <1>2, <1>3, <1>4, <1>5, <1>6, <1>7 DEF Next, Host

(* A guest that takes another address has moved, for good. *)
LEMMA MovedForGood ==
  ASSUME Evidence, NEW a, Leases(a), leased # {}
  PROVE  Moved'
  BY DEF Evidence, Leases, Moved

(* The guard's own promise. *)
LEMMA GuardStep ==
  ASSUME TypeOK, Evidence, Rewrites, GuardMeansForwarded, [Next]_vars
  PROVE  GuardMeansForwarded'
<1> USE DEF GuardMeansForwarded, guestVars, hostVars
<1>1. ASSUME NEW a \in Addresses, Leases(a)
      PROVE  GuardMeansForwarded'
  BY <1>1, MovedForGood DEF Leases, Rewrites
<1>2. CASE Listens \/ Connects \/ Disconnects \/ LosesInterrupts
  BY <1>2 DEF Listens, Connects, Disconnects, LosesInterrupts, Moved
<1>3. CASE ProbeAnswers \/ ProbeFails
  BY <1>3 DEF ProbeAnswers, ProbeFails, Moved
<1>4. CASE Detect
  BY <1>4 DEF Detect, Outcomes, Resteady, TypeOK, Evidence, Rewrites, Moved
<1>5. CASE Remove
  BY <1>5 DEF Remove, Rewrites
<1>6. CASE Add
  BY <1>6 DEF Add, Outcomes, Resteady, TypeOK, Evidence, Moved
<1>7. CASE Wedge \/ Sleep
  BY <1>7 DEF Wedge, Sleep, RestartOrFail, Moved
<1>8. CASE Restart
  BY <1>8 DEF Restart
<1>9. CASE UNCHANGED vars
  BY <1>9 DEF vars, Moved
<1> QED
  BY <1>1, <1>2, <1>3, <1>4, <1>5, <1>6, <1>7, <1>8, <1>9 DEF Next, Guest, Host

(* What a whole round of the guard makes sure of. *)
LEMMA FollowStep ==
  ASSUME TypeOK, Evidence, Rewrites, ForwardOfThisBoot, GuardMeansForwarded, Followed, [Next]_vars
  PROVE  Followed'
<1> USE DEF Followed, guestVars, hostVars
<1>1. ASSUME NEW a \in Addresses, Leases(a) PROVE Followed'
  BY <1>1 DEF Leases
<1>2. CASE Connects \/ Disconnects
  BY <1>2 DEF Connects, Disconnects
<1>3. CASE Listens \/ LosesInterrupts
  BY <1>3 DEF Listens, LosesInterrupts, Excused, Moved
<1>4. CASE ProbeAnswers
  BY <1>4 DEF ProbeAnswers, Excused, Moved
<1>5. CASE ProbeFails
  BY <1>5 DEF ProbeFails, TypeOK, GuardMeansForwarded, Excused, Moved
<1>6. CASE Detect
  BY <1>6 DEF Detect, Outcomes, Resteady, TypeOK, Evidence, Rewrites, ForwardOfThisBoot,
             Excused, Moved
<1>7. CASE Remove
  BY <1>7 DEF Remove, Outcomes, Resteady, Excused, Moved
<1>8. CASE Add
  BY <1>8 DEF Add, Outcomes, Resteady, Excused, Moved
<1>9. CASE Wedge \/ Sleep
  BY <1>9 DEF Wedge, Sleep, RestartOrFail, Excused, Moved
<1>10. CASE Restart
  BY <1>10 DEF Restart
<1>11. CASE UNCHANGED vars
  BY <1>11 DEF vars, Excused, Moved
<1> QED
  BY <1>1, <1>2, <1>3, <1>4, <1>5, <1>6, <1>7, <1>8, <1>9, <1>10, <1>11 DEF Next,
     Guest, Host

LEMMA Inductive == Spec => []IInv
<1>1. IInv /\ [Next]_vars => IInv'
  BY TypeStep, EvidenceStep, ForwardStep, GuardStep, FollowStep DEF IInv
<1> QED
  BY InitIInv, <1>1, PTL DEF Spec

(* Types, and both counters within their bounds, for any guest. *)
THEOREM TypeCorrect == Spec => []TypeOK
  BY Inductive, PTL DEF IInv

(* The port leads to the address it was wired for, to nothing, or to one   *)
(* the guest has had in this boot.                                         *)
THEOREM ForwardIsCurrent == Spec => []ForwardOfThisBoot
  BY Inductive, PTL DEF IInv

(* Once the guard is done the port leads to a guest that kept its address, *)
(* unless a command of the rewrite went unanswered.                        *)
THEOREM GuardedIsForwarded == Spec => []GuardMeansForwarded
  BY Inductive, PTL DEF IInv

(* An address that the flow table shows for a whole round, with a monitor  *)
(* that answers, is where the port leads, or nowhere yet.                  *)
THEOREM GuestIsFollowed == Spec => []FollowsGuest
<1>1. IInv => FollowsGuest
  BY DEF IInv, TypeOK, Followed, Excused, FollowsGuest
<1> QED
  BY Inductive, <1>1, PTL
=============================================================================
