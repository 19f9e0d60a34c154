------------------------------ MODULE AnswerFile ------------------------------
(***************************************************************************)
(* An installer driven by an answer file, and the first boot of what it    *)
(* installed (build.py): processOpts, waitForText and the screen text it   *)
(* reads, the keys and the console session they go through, and the       *)
(* waiting part of start_and_wait.                                         *)
(*                                                                         *)
(* The guest asks one question per line of the answer file and waits for   *)
(* each answer.  What it prints is a sequence of anchors (a question or    *)
(* the login prompt) and of lines that match nothing (0).  Time passes in  *)
(* polls of waitForText.                                                   *)
(***************************************************************************)
EXTENDS Naturals, Sequences

CONSTANTS Lines,    \* questions, and lines of the answer file
          Window,   \* lines on the screen, or in the tail of the console log
          Polls,    \* a line's timeout, and VM_LOGIN_MAX_SECONDS
          SockCap,  \* what the console connection holds unread
          MaxLog    \* lines a boot prints (bound)

ASSUME AnswerAssumption ==
  /\ Lines \in Nat \ {0} /\ Window \in Nat \ {0} /\ Polls \in Nat \ {0}
  /\ SockCap \in Nat \ {0} /\ MaxLog \in Nat /\ MaxLog > Lines

Groups == 2                \* of keys in a line: `string ...; enter`
Login == Lines + 1         \* VM_LOGIN_TAG
Boots == 2                 \* start_and_wait's attempts

VARIABLES
  anchor,   \* the answer file: what each line waits for
  timed,    \* its lines have timeouts
  console,  \* VM_USE_CONSOLE_BUILD
  boot,     \* 0: the installer
  qemu,     \* "up" or "gone"
  guest,    \* "works", "asks", "dead", or "done" with its work
  at,       \* the last question asked; Login from the login prompt on
  got,      \* groups of keys that reached each question
  log,      \* printed in this boot
  conn,     \* the boot whose console a session is connected to, if any (a set)
  drains,   \* its thread "reads", has "ended", or was ended by a send that "failed"
  sock,     \* output the session has not read
  pc, line, group, left,
  pos,      \* where _unseen_screen_text's next dump begins
  dumped,   \* numbers of the lines of this boot that were dumped, in that order
  first,    \* the first look at this boot's log: "none" yet, "short" of pos, "grown" past it
  lost, blind \* keys that did not arrive; keys typed at another question

fileVars == <<anchor, timed, console>>
guestVars == <<boot, qemu, guest, at, got, log>>
sessVars == <<conn, drains, sock>>
hostVars == <<pc, line, group, left>>
dumpVars == <<pos, dumped, first>>
vars == <<fileVars, guestVars, sessVars, hostVars, dumpVars, lost, blind>>

Init ==
  /\ anchor \in {a \in [1 .. Lines -> 1 .. Lines] : \A i \in 1 .. Lines : a[i] <= i}
  /\ timed \in BOOLEAN /\ console \in BOOLEAN
  /\ boot = 0 /\ qemu = "up" /\ guest = "works" /\ at = 0 /\ log = <<>>
  /\ got = [i \in 1 .. Lines |-> 0]
  /\ conn = {} /\ drains = "ended" /\ sock = 0
  /\ pc = "open" /\ line = 1 /\ group = 1 /\ left = Polls
  /\ pos = 0 /\ dumped = <<>> /\ first = "short" /\ lost = FALSE /\ blind = FALSE

-----------------------------------------------------------------------------
(* The guest and its console. *)

Connected == boot \in conn /\ qemu = "up"
HostStill == UNCHANGED <<fileVars, hostVars, dumpVars, lost, blind>>

(* QEMU hands a line to the log, and to a session if there is one: a full  *)
(* connection holds the guest up.                                          *)
Writes(text) == /\ qemu = "up" /\ guest = "works" /\ Len(log) < MaxLog
                /\ ~(Connected /\ sock = SockCap)
                /\ log' = Append(log, text)
                /\ sock' = IF Connected THEN sock + 1 ELSE sock

Asks == /\ at < Lines /\ boot = 0 /\ Writes(anchor[at + 1])
        /\ at' = at + 1 /\ guest' = "asks"
        /\ UNCHANGED <<boot, qemu, got, conn, drains>> /\ HostStill

LogsIn == /\ boot > 0 /\ Writes(Login) /\ guest' = "done" /\ at' = Login
          /\ UNCHANGED <<boot, qemu, got, conn, drains>> /\ HostStill

(* Room is left for the questions and the login prompt. *)
Chatters == /\ Len(log) + Lines - at < MaxLog /\ Writes(0)
            /\ UNCHANGED <<boot, qemu, guest, at, got, conn, drains>> /\ HostStill

Installs == /\ qemu = "up" /\ guest = "works" /\ boot = 0 /\ at = Lines /\ guest' = "done"
            /\ UNCHANGED <<boot, qemu, at, got, log, sessVars>> /\ HostStill

(* A panic or a wedge; or QEMU ends, at a reboot under -no-reboot or on    *)
(* its own, and closes the connection.                                     *)
Dies == /\ qemu = "up" /\ guest # "dead" /\ guest' = "dead" /\ UNCHANGED qemu
        /\ UNCHANGED <<boot, at, got, log, sessVars>> /\ HostStill

Exits == /\ qemu = "up" /\ qemu' = "gone"
         /\ UNCHANGED <<boot, guest, at, got, log, sessVars>> /\ HostStill

DrainQuits == /\ drains = "reads"
              /\ \/ sock > 0 /\ sock' = 0 /\ UNCHANGED drains
                 \/ sock = 0 /\ drains' = "ended" /\ UNCHANGED sock
              /\ UNCHANGED <<guestVars, conn>> /\ HostStill

(* ConsoleSession._drain: read and discard until QEMU closes; a timeout of *)
(* the read changes nothing.                                               *)
Drain == /\ drains = "reads"
         /\ \/ sock > 0 /\ sock' = 0 /\ UNCHANGED drains
            \/ sock = 0 /\ ~Connected /\ drains' = "ended" /\ UNCHANGED sock
         /\ UNCHANGED <<guestVars, conn>> /\ HostStill

-----------------------------------------------------------------------------
(* The host. *)

Goto(place) == pc' = place
Close == conn' = {} /\ drains' = "ended" /\ sock' = 0

(* openConsole: any earlier session is closed; main() goes on without one  *)
(* if the port cannot be reached.                                          *)
Open ==
  /\ pc = "open" /\ Goto("poll") /\ left' = Polls
  /\ IF ~console THEN UNCHANGED sessVars
     ELSE \/ qemu = "up" /\ conn' = {boot} /\ drains' = "reads" /\ sock' = 0
          \/ Close
  /\ UNCHANGED <<fileVars, guestVars, line, group, dumpVars, lost, blind>>

OnScreen(text, n) == \E i \in DOMAIN log : i + n > Len(log) /\ log[i] = text

(* tail_file of the log, or an OCR of the screen, which holds as much of   *)
(* it as the guest has not cleared.  vnc_capture waits for a QEMU.         *)
Screen == IF console THEN {Window} ELSE 1 .. Window
Captures == console \/ qemu = "up"

FirstLook == IF first # "none" THEN first ELSE IF Len(log) < pos THEN "short" ELSE "grown"

(* The numbers of the lines after a position. *)
After(n) == [i \in 1 .. Len(log) - n |-> n + i]

DumpFromTheStart ==
  /\ dumped' = dumped \o After(0)
  /\ pos' = Len(log)
  /\ first' = FirstLook

(* _unseen_screen_text in console mode: from pos to the end of the log; a  *)
(* log shorter than pos is a new one.                                      *)
Dump ==
  /\ dumped' = dumped \o After(IF Len(log) < pos THEN 0 ELSE pos)
  /\ pos' = Len(log)
  /\ first' = FirstLook

Anchor == IF boot = 0 THEN anchor[line] ELSE Login
Bounded == boot > 0 \/ timed

PollBlindly ==
  /\ pc = "poll" /\ Captures /\ (Bounded => left > 0)
  /\ IF console THEN Dump ELSE UNCHANGED dumpVars
  /\ left' = IF Bounded THEN left - 1 ELSE left
  /\ \E n \in Screen :
       Goto(IF OnScreen(Anchor, n) \/ left' = 0
            THEN (IF boot = 0 THEN "keys" ELSE "check") ELSE "poll")
  /\ UNCHANGED <<fileVars, guestVars, sessVars, line, group, lost, blind>>

(* One round of waitForText. *)
Poll ==
  /\ pc = "poll" /\ Captures /\ (Bounded => left > 0)
  /\ IF console THEN Dump ELSE UNCHANGED dumpVars
  /\ left' = IF Bounded THEN left - 1 ELSE left
  /\ \E n \in Screen :
       Goto(IF OnScreen(Anchor, n) THEN (IF boot = 0 THEN "keys" ELSE "check") ELSE "poll")
  /\ UNCHANGED <<fileVars, guestVars, sessVars, line, group, lost, blind>>

(* A group of keys that the guest gets: it answers the question the guest  *)
(* waits with, or is read ahead of the next one.                           *)
Arrives ==
  /\ got' = IF guest = "asks" /\ at = line THEN [got EXCEPT ![line] = @ + 1] ELSE got
  /\ guest' = IF guest = "asks" /\ group = Groups THEN "works" ELSE guest
  /\ blind' = (blind \/ (guest \in {"asks", "works"} /\ ~(guest = "asks" /\ at = line)))
  /\ UNCHANGED lost

Vanishes == lost' = TRUE /\ UNCHANGED <<got, guest, blind>>

(* ConsoleSession.send: an error, also one second without room in the      *)
(* connection, stops the session's thread.                                 *)
SendFails == /\ Connected /\ Vanishes
             /\ drains' = "failed" /\ sock' \in {sock, 0} /\ UNCHANGED conn

(* _run_keyseq types the groups of a line.  A send on a closed connection, *)
(* or without a session, does nothing; vncdotool's status is not looked at.*)
Type ==
  /\ pc = "keys"
  /\ \/ (IF console THEN Connected ELSE qemu = "up") /\ Arrives /\ UNCHANGED sessVars
     \/ (~console \/ ~Connected) /\ Vanishes /\ UNCHANGED sessVars
     \/ console /\ SendFails
  /\ IF group < Groups
     THEN group' = group + 1 /\ UNCHANGED <<pc, line, left>>
     ELSE /\ group' = 1 /\ left' = Polls
          /\ IF line < Lines THEN line' = line + 1 /\ Goto("poll")
                             ELSE Goto("settle") /\ UNCHANGED line
  /\ UNCHANGED <<fileVars, boot, qemu, at, log, dumpVars>>

GiveUpQuietly == /\ pc = "poll" /\ boot = 0 /\ timed /\ left = 0 /\ Goto("settle")
                 /\ UNCHANGED <<fileVars, guestVars, sessVars, line, group, left, dumpVars,
                                lost, blind>>

(* A timeout ends the answer file and the build: destroyVM, closeConsole.  *)
GiveUp == /\ pc = "poll" /\ boot = 0 /\ timed /\ left = 0 /\ Goto("failed")
          /\ qemu' = "gone" /\ Close
          /\ UNCHANGED <<fileVars, boot, guest, at, got, log, line, group, left, dumpVars,
                         lost, blind>>

(* A minute later the VM is down or killed.  The install may have had its  *)
(* console only because VM_NO_VNC_BUILD was not set.                       *)
Settle == /\ pc = "settle" /\ Goto("launch")
          /\ qemu' = "gone" /\ Close
          /\ console' \in {console, FALSE}
          /\ UNCHANGED <<anchor, timed, boot, guest, at, got, log, line, group, left,
                         dumpVars, lost, blind>>

LaunchKeepsLog ==
  /\ pc = "launch" /\ boot' = boot + 1 /\ at' = Lines /\ Goto("open")
  /\ qemu' = "up" /\ guest' = "works" /\ dumped' = <<>> /\ first' = "none"
  /\ UNCHANGED <<fileVars, got, log, sessVars, line, group, left, pos, lost, blind>>

(* startVM begins a new log; or QEMU does not start. *)
Launch ==
  /\ pc = "launch"
  /\ \/ /\ boot' = boot + 1 /\ at' = Lines /\ Goto("open")
        /\ qemu' = "up" /\ guest' = "works" /\ log' = <<>> /\ dumped' = <<>> /\ first' = "none"
     \/ Goto("failed") /\ UNCHANGED <<boot, qemu, guest, at, log, dumped, first>>
  /\ UNCHANGED <<fileVars, got, sessVars, line, group, left, pos, lost, blind>>

LoginTimeoutRetries ==
  /\ pc = "poll" /\ boot > 0 /\ left = 0 /\ left' = Polls
  /\ UNCHANGED <<fileVars, guestVars, sessVars, pc, line, group, dumpVars, lost, blind>>

LoginTimeout == /\ pc = "poll" /\ boot > 0 /\ left = 0 /\ Goto("check")
                /\ UNCHANGED <<fileVars, guestVars, sessVars, line, group, left, dumpVars,
                               lost, blind>>

(* start_and_wait looks again, whatever waitForText returned. *)
Check ==
  /\ pc = "check" /\ Captures
  /\ \E n \in Screen :
       Goto(IF OnScreen(Login, n) THEN "up" ELSE "reroll")
  /\ UNCHANGED <<fileVars, guestVars, sessVars, line, group, left, dumpVars, lost, blind>>

(* Without the tag: the console is closed, QEMU killed, and booted again. *)
Reroll == /\ pc = "reroll" /\ Goto(IF boot < Boots THEN "launch" ELSE "failed")
          /\ qemu' = "gone" /\ Close
          /\ UNCHANGED <<fileVars, boot, guest, at, got, log, line, group, left, dumpVars,
                         lost, blind>>

Guest == Asks \/ LogsIn \/ Chatters \/ Installs \/ Dies \/ Exits

Host == \/ Open \/ Poll \/ Type \/ GiveUp \/ Settle \/ Launch \/ LoginTimeout \/ Check \/ Reroll

Next == Guest \/ Host \/ Drain

Spec == Init /\ [][Next]_vars

(* The host runs, and so does the session's thread. *)
FairSpec == Spec /\ WF_vars(Host) /\ WF_vars(Drain)

-----------------------------------------------------------------------------
(* Types, and the bounds of counters and buffers. *)
TypeOK ==
  /\ anchor \in [1 .. Lines -> 1 .. Lines] /\ timed \in BOOLEAN /\ console \in BOOLEAN
  /\ boot \in 0 .. Boots /\ qemu \in {"up", "gone"} /\ at \in 0 .. Login
  /\ guest \in {"works", "asks", "dead", "done"}
  /\ got \in [1 .. Lines -> 0 .. Groups]
  /\ log \in Seq(0 .. Login) /\ Len(log) <= MaxLog
  /\ conn \subseteq {boot} /\ drains \in {"reads", "ended", "failed"} /\ sock \in 0 .. SockCap
  /\ pc \in {"open", "poll", "keys", "settle", "launch", "check", "reroll", "up", "failed"}
  /\ line \in 1 .. Lines /\ group \in 1 .. Groups /\ left \in 0 .. Polls
  /\ pos \in 0 .. MaxLog /\ dumped \in Seq(1 .. MaxLog)
  /\ first \in {"none", "short", "grown"}
  /\ lost \in BOOLEAN /\ blind \in BOOLEAN

(* Keys are typed only at the question they answer, however slow the guest *)
(* is and wherever it dies, if no two lines wait for the same text and no  *)
(* key was lost on the way.  (An anchor seen before may still be on the    *)
(* screen, and a lost answer leaves the guest at its question.)            *)
Distinct == \A i, j \in 1 .. Lines : anchor[i] = anchor[j] => i = j
KeysOnPrompt == blind => (~Distinct \/ lost)

(* The installed disk is booted only if every question but the last got    *)
(* its whole answer: a guest that dies on the way never shows the next     *)
(* anchor, and the build stops there.  (After the last anchor nothing is   *)
(* waited for; one that dies there is found out by its first boot.)        *)
InstallAnswered ==
  (boot > 0 /\ Distinct /\ ~lost) => \A i \in 1 .. Lines - 1 : got[i] = Groups

(* The log of a console build is dumped whole, in its order and each line  *)
(* once (build.py:2863-2868), also across relaunches that truncate it,     *)
(* unless the new log had caught up with the old one before the first look *)
(* at it.                                                                  *)
DumpedWhole ==
  (console /\ first = "short" /\ pc # "open") => dumped = [i \in 1 .. pos |-> i]

(* start_and_wait succeeds only if the guest it started has printed the    *)
(* login prompt: neither the installer's screen nor the boot it gave up    *)
(* can stand in for it.                                                    *)
LoginOfThisBoot == pc = "up" => at = Login

(* As long as a screen can be captured, an answer file with timeouts and   *)
(* the boots after it come to an end.  (vnc_capture waits for ever for a   *)
(* QEMU that is gone, and a line without a timeout for a guest that died.) *)
EndsWhileWatched ==
  timed ~> (pc \in {"up", "failed"} \/ (pc \in {"poll", "check"} /\ ~Captures))

(* A connected session does not leave the guest blocked on its console,    *)
(* unless a send has failed: its thread stops then, with the connection    *)
(* open, until the next openConsole.                                       *)
GuestNeverBlocked ==
  (Connected /\ sock = SockCap) ~> (drains = "failed" \/ ~(Connected /\ sock = SockCap))
=============================================================================
