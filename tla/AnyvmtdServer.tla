---------------------------- MODULE AnyvmtdServer ----------------------------
(***************************************************************************)
(* The accept loop of anyvmtd and the service around it (anyvmtd.c:        *)
(* run_server, service_main, service_ctrl, main), started by the service   *)
(* manager and, besides it, directly: anyvminst.cmd does so when sc start  *)
(* fails (lines 46-56), and the two may then compete for the port.         *)
(* Module ServeConn is the inside of a session.                            *)
(***************************************************************************)
EXTENDS Naturals

CONSTANT Clients \* connections the host makes (bound)

ASSUME ClientsAssumption == Clients \in Nat

Backlog == 4
Daemons == {"service", "direct"}

VARIABLES
  daemon,  \* where each daemon is
  waiting, \* connections in each listener's backlog
  session, \* "none", "quiet", "loud" (the shell always has output), "stuck"
           \* (the pump is in send_all or write_all, and nobody reads)
  stop,    \* g_stop of the service's process
  ctrl,    \* service_ctrl: "idle", "set" (g_stop), "written" (g_status)
  state,   \* g_status.dwCurrentState, written by both threads
  scm,     \* the state the service manager was told last
  overlap, \* both threads were in report_status at once
  made     \* connections made

serverVars == <<daemon, waiting, session, stop, ctrl, state, scm, overlap, made>>

ServerInit ==
  /\ daemon = [d \in Daemons |-> "off"] /\ waiting = [d \in Daemons |-> 0]
  /\ session = [d \in Daemons |-> "none"]
  /\ stop = FALSE /\ ctrl = "idle" /\ state = "none" /\ scm = "stopped"
  /\ overlap = FALSE /\ made = 0

Goto(d, place) == daemon' = [daemon EXCEPT ![d] = place]
StatusKept == UNCHANGED <<stop, ctrl, state, scm, overlap>>
LoopKept == UNCHANGED <<waiting, session, made>>

-----------------------------------------------------------------------------
(* main and service_main *)

(* The dispatcher connects to the service manager, or fails, which means   *)
(* that somebody else started the program: the plain server.               *)
Starts(d) ==
  /\ daemon[d] = "off"
  /\ IF d = "service"
     THEN Goto(d, "register") /\ scm' = "start_pending" /\ UNCHANGED <<stop, ctrl, state, overlap>>
     ELSE Goto(d, "bind") /\ StatusKept
  /\ LoopKept

(* RUNNING is reported before there is a listener.  Without a handle       *)
(* service_main returns, and nothing is ever reported.                     *)
Registers ==
  /\ daemon["service"] = "register"
  /\ \/ Goto("service", "bind") /\ state' = "running" /\ scm' = "running"
     \/ Goto("service", "mute") /\ UNCHANGED <<state, scm>>
  /\ UNCHANGED <<stop, ctrl, overlap>> /\ LoopKept

LeaveSilently(d) == Goto(d, "gone")

(* run_server's way out: service_main reports, a plain process exits. *)
Leave(d) == Goto(d, IF d = "service" THEN "report" ELSE "gone")

Listening(d) == daemon[d] \in {"loop", "serve"}

(* bind and listen.  A port that is taken refuses, or is shared: the       *)
(* socket has SO_REUSEADDR.                                                *)
Binds(d) ==
  /\ daemon[d] = "bind"
  /\ \/ Goto(d, "loop")
     \/ Leave(d)
  /\ LoopKept /\ StatusKept

ClosesLeavingClients(d) == daemon[d] = "close" /\ Leave(d) /\ LoopKept /\ StatusKept

(* The end of run_server: who waits in the backlog is reset. *)
Closes(d) ==
  /\ daemon[d] = "close" /\ Leave(d)
  /\ waiting' = [waiting EXCEPT ![d] = 0]
  /\ UNCHANGED <<session, made>> /\ StatusKept

(* report_status(SERVICE_STOPPED): the shared g_status, then the call. *)
Writes ==
  /\ daemon["service"] = "report" /\ Goto("service", "written")
  /\ state' = "stopped" /\ overlap' = (overlap \/ ctrl # "idle")
  /\ UNCHANGED <<stop, ctrl, scm>> /\ LoopKept

Reports ==
  /\ daemon["service"] = "written" /\ Goto("service", "ended")
  /\ scm' = state /\ overlap' = (overlap \/ ctrl # "idle")
  /\ UNCHANGED <<stop, ctrl, state>> /\ LoopKept

(* The dispatcher returns once STOPPED was reported, and with it main. *)
Exits ==
  /\ daemon["service"] = "ended" /\ scm = "stopped" /\ ctrl = "idle"
  /\ Goto("service", "gone") /\ StatusKept /\ LoopKept

-----------------------------------------------------------------------------
(* service_ctrl, on the dispatcher's thread *)

Alive == daemon["service"] \notin {"off", "register", "mute", "gone"}

StopAsked ==
  /\ Alive /\ scm = "running" /\ ctrl = "idle" /\ ~stop
  /\ stop' = TRUE /\ ctrl' = "set"
  /\ overlap' = (overlap \/ daemon["service"] \in {"report", "written"})
  /\ UNCHANGED <<daemon, state, scm>> /\ LoopKept

CtrlWrites ==
  /\ ctrl = "set" /\ ctrl' = "written" /\ state' = "stop_pending"
  /\ overlap' = (overlap \/ daemon["service"] \in {"report", "written", "ended"})
  /\ UNCHANGED <<daemon, stop, scm>> /\ LoopKept

CtrlReports ==
  /\ ctrl = "written" /\ ctrl' = "idle" /\ scm' = state
  /\ UNCHANGED <<daemon, stop, state, overlap>> /\ LoopKept

-----------------------------------------------------------------------------
(* The accept loop: one session at a time. *)

Stopping(d) == d = "service" /\ stop

(* A turn: g_stop, then select.  After an accept that fails the connection *)
(* still waits, and the next turn tries again.                             *)
Turn(d) ==
  /\ daemon[d] = "loop"
  /\ \/ Stopping(d) /\ Goto(d, "close") /\ UNCHANGED <<waiting, session>>
     \/ /\ ~Stopping(d) /\ waiting[d] > 0 /\ Goto(d, "serve")
        /\ waiting' = [waiting EXCEPT ![d] = @ - 1]
        /\ session' = [session EXCEPT ![d] = "quiet"]
  /\ UNCHANGED made /\ StatusKept

(* A select that fails ends the server. *)
SelectFails(d) == daemon[d] = "loop" /\ Goto(d, "close") /\ LoopKept /\ StatusKept

SessionEnd(d) == Goto(d, "loop") /\ session' = [session EXCEPT ![d] = "none"]

StopSeenUnderLoad(d) ==
  /\ daemon[d] = "serve" /\ session[d] = "loud" /\ Stopping(d) /\ SessionEnd(d)
  /\ UNCHANGED <<waiting, made>> /\ StatusKept

(* serve_conn looks at g_stop only on a turn that takes no output and      *)
(* gets there: a pump that sends to a client or writes to a shell which    *)
(* does not read waits in that call.                                       *)
StopSeen(d) ==
  /\ daemon[d] = "serve" /\ session[d] = "quiet" /\ Stopping(d) /\ SessionEnd(d)
  /\ UNCHANGED <<waiting, made>> /\ StatusKept

(* The client or the shell ends the session. *)
HangsUp(d) ==
  /\ daemon[d] = "serve" /\ SessionEnd(d)
  /\ UNCHANGED <<waiting, made>> /\ StatusKept

(* The shell prints or falls silent; client or shell stops reading, or     *)
(* reads on.                                                               *)
Streams(d) ==
  /\ daemon[d] = "serve"
  /\ \E s \in {"quiet", "loud", "stuck"} \ {session[d]} : session' = [session EXCEPT ![d] = s]
  /\ UNCHANGED <<daemon, waiting, made>> /\ StatusKept

Connects(d) ==
  /\ Listening(d) /\ made < Clients /\ waiting[d] < Backlog
  /\ made' = made + 1 /\ waiting' = [waiting EXCEPT ![d] = @ + 1]
  /\ UNCHANGED <<daemon, session>> /\ StatusKept

Daemon(d) == Binds(d) \/ Closes(d) \/ Turn(d) \/ StopSeen(d)
Service == Registers \/ Writes \/ Reports \/ Exits
Ctrl == CtrlWrites \/ CtrlReports

ServerNext == \/ Service \/ Ctrl \/ StopAsked
              \/ \E d \in Daemons : Starts(d) \/ Daemon(d) \/ SelectFails(d) \/ HangsUp(d) \/ Streams(d) \/ Connects(d)

ServerSpec == ServerInit /\ [][ServerNext]_serverVars

(* Both processes and both threads of the service run, and an accept of a  *)
(* connection that waits does not fail for ever.                           *)
ServerFairSpec == /\ ServerSpec /\ WF_serverVars(Service) /\ WF_serverVars(Ctrl)
                  /\ \A d \in Daemons : WF_serverVars(Daemon(d))

-----------------------------------------------------------------------------
(* Types and the backlog's bound. *)
ServerTypeOK ==
  /\ daemon \in [Daemons -> {"off", "register", "mute", "bind", "loop", "serve", "close",
                         "report", "written", "ended", "gone"}]
  /\ waiting \in [Daemons -> 0 .. Backlog]
  /\ session \in [Daemons -> {"none", "quiet", "loud", "stuck"}]
  /\ \A d \in Daemons : session[d] # "none" <=> daemon[d] = "serve"
  /\ stop \in BOOLEAN /\ ctrl \in {"idle", "set", "written"} /\ overlap \in BOOLEAN
  /\ state \in {"none", "running", "stop_pending", "stopped"}
  /\ scm \in {"stopped", "start_pending", "running", "stop_pending"}
  /\ made \in 0 .. Clients

(* However a service ends, the manager knows that it stopped, with two     *)
(* exceptions: the two threads were in report_status at once, when they    *)
(* share g_status and STOP_PENDING may be the last word for good; and no   *)
(* handle was got, when service_main returns without a report and the      *)
(* service stays START_PENDING.  Nothing else is ever left behind.         *)
EndMeansStopped ==
  (daemon["service"] \in {"mute", "ended", "gone"} /\ ctrl = "idle") =>
     \/ scm = "stopped"
     \/ overlap /\ stop /\ scm = "stop_pending" /\ daemon["service"] = "ended"
     \/ ~stop /\ scm = "start_pending" /\ daemon["service"] = "mute"

(* If no session lasts for ever, every connection in a backlog is          *)
(* accepted or reset, whichever daemon got the port and however it ends.   *)
WaitingEnds == (\A d \in Daemons : []<>(session[d] = "none"))
               => \A d \in Daemons : (waiting[d] > 0) ~> (waiting[d] = 0)

(* A stop the service hears ends its loop, also with a client that stays   *)
(* and clients that wait, unless in the end the shell never stops printing *)
(* or the pump waits for a client or a shell that does not read: in those  *)
(* serve_conn never looks at g_stop.                                       *)
StopEnds == <>[](session["service"] \notin {"loud", "stuck"})
            => (stop ~> daemon["service"] \in {"ended", "gone"})
=============================================================================
