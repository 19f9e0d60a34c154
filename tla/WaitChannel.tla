----------------------------- MODULE WaitChannel -----------------------------
(***************************************************************************)
(* _wait_telnet and _wait_ssh (build.py): the host probes a forwarded port *)
(* until the guest answers.  QEMU forwards the port to one fixed guest     *)
(* address; the guest leases whatever it leases.  After a failed probe the *)
(* "hostfwd guard" looks for the guest's real address and rewrites the     *)
(* forward over the monitor, one remove and one add.  A wait that runs out *)
(* of probes, or whose guest looks wedged, restarts the guest.             *)
(*                                                                         *)
(* _wait_telnet is the case MaxRestarts = 1 without lost interrupts        *)
(* (_wait_telnet has no wedge cutoff), _wait_ssh the general one.          *)
(***************************************************************************)
EXTENDS Naturals

CONSTANTS Addresses,   \* guest addresses
          Expected,    \* SLIRP_EXPECTED_GUEST_IP, the target wired at launch
          None,        \* no address
          MaxRetries,  \* max_retries
          MaxRestarts, \* VM_SSH_MAX_RESTARTS
          WedgeAfter   \* probes before the wedge cutoff (6)

ASSUME WaitAssumption ==
  /\ Expected \in Addresses /\ None \notin Addresses
  /\ MaxRetries \in Nat /\ MaxRestarts \in Nat /\ WedgeAfter \in Nat

VARIABLES
  lease,     \* the guest's address
  leased,    \* every address it has had in this boot
  listening, \* its sshd or telnetd is up
  flows,     \* the address `info usernet` shows
  printed,   \* the last address in the serial log
  storm,     \* three more lost interrupts in the serial log than at the start
  fwd,       \* where QEMU forwards the port
  pc,        \* where the wait is
  actual,    \* what detect_guest_ip found
  removed,   \* rem_ok
  guard,     \* guard_done
  retry, restarts,
  steady,    \* failed probes (up to two) since flows has been the lease
             \* and the monitor has answered every command
  unheard    \* a command of the last rewrite went without an answer

guestVars == <<lease, leased, listening, flows, printed, storm>>
hostVars  == <<fwd, pc, actual, removed, guard, retry, restarts>>
vars == <<guestVars, hostVars, steady, unheard>>

Init ==
  /\ lease = None /\ leased = {} /\ listening = FALSE
  /\ flows = None /\ printed = None /\ storm = FALSE
  /\ fwd = Expected /\ pc = "probe" /\ actual = None /\ removed = FALSE
  /\ guard = FALSE /\ retry = 0 /\ restarts = 0 /\ steady = 0
  /\ unheard = FALSE

-----------------------------------------------------------------------------
(* The guest. *)

(* A first or another lease, with or without a "bound to" line on the console. *)
Leases(a) == /\ lease # a
             /\ lease' = a /\ leased' = leased \cup {a}
             /\ printed' \in {a, printed}
             /\ steady' = 0
             /\ UNCHANGED <<listening, flows, storm, hostVars, unheard>>

Listens == /\ ~listening /\ listening' = TRUE
           /\ UNCHANGED <<lease, leased, flows, printed, storm, hostVars, steady, unheard>>

(* An outbound connection appears in slirp's table ... *)
Connects == /\ lease # None /\ flows # lease
            /\ flows' = lease /\ steady' = 0
            /\ UNCHANGED <<lease, leased, listening, printed, storm, hostVars, unheard>>

(* ... and is forgotten. *)
Disconnects == /\ flows # None
               /\ flows' = None /\ steady' = 0
               /\ UNCHANGED <<lease, leased, listening, printed, storm, hostVars, unheard>>

LosesInterrupts == /\ ~storm /\ storm' = TRUE
                   /\ UNCHANGED <<lease, leased, listening, flows, printed, hostVars, steady, unheard>>

Guest == \/ \E a \in Addresses : Leases(a)
         \/ Listens \/ Connects \/ Disconnects \/ LosesInterrupts

-----------------------------------------------------------------------------
(* The wait. *)

Reachable == listening /\ lease # None /\ fwd = lease

ProbeAnswers == /\ pc = "probe" /\ Reachable
                /\ pc' = "ready"
                /\ UNCHANGED <<guestVars, fwd, actual, removed, guard, retry, restarts, steady, unheard>>

(* Nothing there, or too slow an answer. *)
ProbeFails == /\ pc = "probe"
              /\ pc' = IF guard THEN "wedge" ELSE "detect"
              /\ steady' = IF lease = None \/ flows # lease THEN 0
                           ELSE IF steady = 2 THEN 2 ELSE steady + 1
              /\ UNCHANGED <<guestVars, fwd, actual, removed, guard, retry, restarts, unheard>>

(* What a qmon command may come to: executed and answered; executed, but   *)
(* its answer comes too late; or never delivered.                          *)
Outcomes == {"answered", "unheard", "undelivered"}

Resteady(o) == steady' = IF o = "answered" THEN steady ELSE 0

(* detect_guest_ip: slirp's flow table first, then the serial log. *)
Detect ==
  /\ pc = "detect"
  /\ \E o \in Outcomes :
       /\ actual' = IF o = "answered" /\ flows # None THEN flows ELSE printed
       /\ Resteady(o)
  /\ guard' = (actual' = Expected)
  /\ pc' = IF actual' \in {None, Expected} THEN "wedge" ELSE "remove"
  /\ UNCHANGED <<guestVars, fwd, removed, retry, restarts, unheard>>

(* hostfwd_remove: "not found" when there is nothing to remove. *)
Remove ==
  /\ pc = "remove"
  /\ \E o \in Outcomes :
       /\ fwd' = IF o = "undelivered" THEN fwd ELSE None
       /\ removed' = ~(o = "answered" /\ fwd = None)
       /\ unheard' = (o # "answered")
       /\ Resteady(o)
  /\ pc' = "add"
  /\ UNCHANGED <<guestVars, actual, guard, retry, restarts>>

AddUnchecked ==
  /\ pc = "add"
  /\ fwd' \in {actual, fwd} /\ guard' = removed /\ pc' = "wedge"
  /\ UNCHANGED <<guestVars, actual, removed, retry, restarts, steady, unheard>>

(* hostfwd_add: "could not" when the port is taken, by the old forward or  *)
(* by somebody else.  No answer reads as success.                          *)
Add ==
  /\ pc = "add"
  /\ \E o \in Outcomes, free \in BOOLEAN :
       LET lands == o # "undelivered" /\ free /\ fwd = None IN
       /\ fwd' = IF lands THEN actual ELSE fwd
       /\ guard' = (removed /\ (lands \/ o # "answered"))
       /\ unheard' = (unheard \/ o # "answered")
       /\ Resteady(o)
  /\ pc' = "wedge"
  /\ UNCHANGED <<guestVars, actual, removed, retry, restarts>>

(* restart_cb, as often as allowed; otherwise the wait has failed. *)
RestartOrFail ==
  IF restarts < MaxRestarts THEN pc' = "restart" /\ restarts' = restarts + 1
                            ELSE pc' = "failed" /\ UNCHANGED restarts

LooksWedged == ~guard /\ retry >= WedgeAfter /\ storm

Wedge == /\ pc = "wedge"
         /\ IF LooksWedged THEN RestartOrFail ELSE pc' = "sleep" /\ UNCHANGED restarts
         /\ UNCHANGED <<guestVars, fwd, actual, removed, guard, retry, steady, unheard>>

SleepUncounted == /\ pc = "sleep" /\ pc' = "probe"
                  /\ UNCHANGED <<guestVars, fwd, actual, removed, guard, retry, restarts, steady, unheard>>

Sleep == /\ pc = "sleep"
         /\ retry' = retry + 1
         /\ IF retry' > MaxRetries THEN RestartOrFail ELSE pc' = "probe" /\ UNCHANGED restarts
         /\ UNCHANGED <<guestVars, fwd, actual, removed, guard, steady, unheard>>

RestartKeepsGuard ==
  /\ pc = "restart"
  /\ lease' = None /\ leased' = {} /\ listening' = FALSE
  /\ flows' = None /\ printed' = None /\ storm' = FALSE
  /\ fwd' = Expected /\ retry' = 0 /\ pc' = "probe" /\ steady' = 0 /\ unheard' = FALSE
  /\ UNCHANGED <<actual, removed, guard, restarts>>

RestartKeepsLog ==
  /\ pc = "restart"
  /\ lease' = None /\ leased' = {} /\ listening' = FALSE
  /\ flows' = None /\ storm' = FALSE
  /\ fwd' = Expected /\ guard' = FALSE /\ retry' = 0 /\ pc' = "probe" /\ steady' = 0 /\ unheard' = FALSE
  /\ UNCHANGED <<printed, actual, removed, restarts>>

(* A new QEMU with the forward as wired at launch, an empty flow table and *)
(* a new serial log (or no QEMU: the result of restart_cb is ignored).     *)
Restart == /\ pc = "restart"
           /\ lease' = None /\ leased' = {} /\ listening' = FALSE
           /\ flows' = None /\ printed' = None /\ storm' = FALSE
           /\ fwd' = Expected /\ guard' = FALSE /\ retry' = 0 /\ pc' = "probe"
           /\ steady' = 0 /\ unheard' = FALSE
           /\ UNCHANGED <<actual, removed, restarts>>

Host == \/ ProbeAnswers \/ ProbeFails \/ Detect \/ Remove \/ Add
        \/ Wedge \/ Sleep \/ Restart

Next == Guest \/ Host

Spec == Init /\ [][Next]_vars

(* The build process runs. *)
FairSpec == Spec /\ WF_vars(Host)

-----------------------------------------------------------------------------
(* Types, and both counters within their bounds. *)
TypeOK ==
  /\ lease \in Addresses \cup {None} /\ leased \subseteq Addresses
  /\ flows \in Addresses \cup {None} /\ printed \in Addresses \cup {None}
  /\ actual \in Addresses \cup {None} /\ fwd \in Addresses \cup {None}
  /\ listening \in BOOLEAN /\ storm \in BOOLEAN
  /\ removed \in BOOLEAN /\ guard \in BOOLEAN /\ unheard \in BOOLEAN
  /\ pc \in {"probe", "detect", "remove", "add", "wedge", "sleep", "restart", "ready", "failed"}
  /\ retry \in 0 .. MaxRetries + 1 /\ restarts \in 0 .. MaxRestarts /\ steady \in 0 .. 2

(* The guest has left an address it had earlier in this boot. *)
Moved == leased # {lease}

(* Once the guard is done (and, until the restart, never runs again) the   *)
(* port leads to a guest that has kept its address, also after a rewrite   *)
(* that failed half-way.  The exception is the code's: a command of the    *)
(* rewrite that nobody answered counts as landed.                          *)
GuardMeansForwarded == (guard /\ ~Moved /\ ~unheard) => fwd = lease

(* The port is never sent to an address that only an earlier boot had. *)
ForwardOfThisBoot == fwd \in leased \cup {Expected, None}

(* The wait ends, with at most MaxRestarts restarts, whatever guest and    *)
(* monitor do.                                                             *)
WaitEnds == <>(pc \in {"ready", "failed"})

(* "Every retry we ALSO run the layered IP probe ... When we detect a      *)
(* different actual IP we rewrite the hostfwd": an address that the flow   *)
(* table has shown for a whole round, with a monitor that answered, is     *)
(* what the port leads to, unless the add was refused.  The exceptions are *)
(* the code's: after its first success the guard no longer looks, so a     *)
(* guest that moves, or a rewrite that only seemed to land, is not         *)
(* followed.                                                               *)
FollowsGuest ==
  (steady = 2 /\ ~(guard /\ (Moved \/ unheard))) => fwd \in {lease, None}
=============================================================================
