------------------------------ MODULE ServeConn ------------------------------
(***************************************************************************)
(* One connection of anyvmtd (files/anyvmtd.c, serve_conn): a single       *)
(* thread pumps bytes between a client socket and the two anonymous pipes  *)
(* of a cmd.exe.  The pump, the shell and the client run concurrently; the *)
(* pump's position in the loop is pc.                                      *)
(*                                                                         *)
(* Bytes are numbered in the order they are produced, so a lost, repeated  *)
(* or reordered byte is visible by its value.  The socket carries payload: *)
(* telnet framing (iac_filter, the IAC escape of send_iac_escaped) is the  *)
(* business of module IacFilter.                                           *)
(***************************************************************************)
EXTENDS Naturals, Sequences

CONSTANTS MaxIn,     \* how many bytes the client may send (bound)
          MaxReply,  \* how much the shell may print for one byte it reads (bound)
          InCap,     \* capacity of the shell's stdin pipe
          OutCap,    \* capacity of the shell's stdout pipe
          SockCap,   \* capacity of the TCP buffers, each direction
          IoBuf      \* IO_BUF, the size of raw, clean and outbuf

ASSUME SizesAssumption ==
  /\ MaxIn \in Nat /\ MaxReply \in Nat
  /\ InCap \in Nat \ {0} /\ OutCap \in Nat \ {0}
  /\ SockCap \in Nat \ {0} /\ IoBuf \in Nat \ {0}

VARIABLES
  client,     \* "open", "half" (its sending side is closed) or "gone"
  sent,       \* payload bytes the client has sent so far
  sockIn,     \* sent by the client, not yet received by the pump
  sockOut,    \* sent by the pump, not yet read by the client
  clientGot,  \* everything the client has read
  child,      \* the shell: "none", "up", "exited" or "killed"
  childGot,   \* everything the shell has read
  childEof,   \* the shell's read has returned end-of-file
  owes,       \* output the shell must print before it reads again
  wrote,      \* bytes the shell has printed so far
  inPipe,     \* in_rd/in_wr: the shell's stdin
  outPipe,    \* out_rd/out_wr: the shell's stdout and stderr
  inOpen,     \* in_wr # NULL
  pc,         \* where the pump is
  clean,      \* received and not yet written to inPipe (write_all's remainder)
  outbuf,     \* read from outPipe and not yet sent (send_all's remainder)
  stdinEof,   \* stdin_eof
  gStop,      \* g_stop
  why         \* what ended the session

clientVars == <<client, sent, clientGot>>
childVars  == <<child, childGot, childEof, owes, wrote>>
pumpVars   == <<pc, clean, outbuf, stdinEof, inOpen, why>>
vars == <<clientVars, sockIn, sockOut, childVars, inPipe, outPipe, pumpVars, gStop>>

Iota(n) == [i \in 1..n |-> i]
Least(a, b) == IF a < b THEN a ELSE b
Take(s, n) == SubSeq(s, 1, n)
Drop(s, n) == SubSeq(s, n + 1, Len(s))

Positions == {"start", "loop", "send", "select", "write", "tail", "close", "wait", "done"}

Init ==
  /\ client = "open" /\ sent = 0 /\ clientGot = <<>>
  /\ sockIn = <<>> /\ sockOut = <<>>
  /\ child = "none" /\ childGot = <<>> /\ childEof = FALSE /\ owes = 0 /\ wrote = 0
  /\ inPipe = <<>> /\ outPipe = <<>> /\ inOpen = FALSE
  /\ pc = "start" /\ clean = <<>> /\ outbuf = <<>>
  /\ stdinEof = FALSE /\ gStop = FALSE /\ why = "none"

-----------------------------------------------------------------------------
(* The pump. *)

(* Both pipes and the shell are created ... *)
Start == /\ pc = "start"
         /\ child' = "up" /\ inOpen' = TRUE /\ pc' = "loop"
         /\ UNCHANGED <<clientVars, sockIn, sockOut, childGot, childEof, owes, wrote,
                        inPipe, outPipe, clean, outbuf, stdinEof, why, gStop>>

(* ... or CreatePipe or CreateProcess fails and the session is cleaned up. *)
StartFails == /\ pc = "start"
              /\ pc' = "done" /\ why' = "start"
              /\ UNCHANGED <<clientVars, sockIn, sockOut, childVars, inPipe, outPipe,
                             inOpen, clean, outbuf, stdinEof, gStop>>

(* Child output first: peek, then read at most a buffer of it. *)
ReadChild == /\ pc = "loop" /\ outPipe # <<>>
             /\ \E n \in 1 .. Least(Len(outPipe), IoBuf) :
                  /\ outbuf' = Take(outPipe, n)
                  /\ outPipe' = Drop(outPipe, n)
             /\ pc' = "send"
             /\ UNCHANGED <<clientVars, sockIn, sockOut, childVars, inPipe,
                            inOpen, clean, stdinEof, why, gStop>>

SendSomeOnce ==
  /\ pc = "send"
  /\ \E n \in 1 .. Least(Len(outbuf), SockCap - Len(sockOut)) :
       sockOut' = sockOut \o Take(outbuf, n)
  /\ outbuf' = <<>> /\ pc' = "loop"
  /\ UNCHANGED <<clientVars, sockIn, childVars, inPipe, outPipe,
                 inOpen, clean, stdinEof, why, gStop>>

(* One round of send_all: send may take fewer bytes than asked, and blocks *)
(* while the TCP window is full.                                           *)
SendSome ==
  /\ pc = "send"
  /\ \E n \in 1 .. Least(Len(outbuf), SockCap - Len(sockOut)) :
       /\ sockOut' = sockOut \o Take(outbuf, n)
       /\ outbuf' = Drop(outbuf, n)
       /\ pc' = IF n = Len(outbuf) THEN "loop" ELSE "send"
  /\ UNCHANGED <<clientVars, sockIn, childVars, inPipe, outPipe,
                 inOpen, clean, stdinEof, why, gStop>>

SendFails == /\ pc = "send" /\ client = "gone"
             /\ pc' = "close" /\ why' = "send"
             /\ UNCHANGED <<clientVars, sockIn, sockOut, childVars, inPipe, outPipe,
                            inOpen, clean, outbuf, stdinEof, gStop>>

(* Nothing to read from the child: look at the socket, or only pace the    *)
(* loop once the client's side is finished.                                *)
LoopTurn == /\ pc = "loop" /\ outPipe = <<>>
            /\ pc' = IF stdinEof THEN "tail" ELSE "select"
            /\ UNCHANGED <<clientVars, sockIn, sockOut, childVars, inPipe, outPipe,
                           inOpen, clean, outbuf, stdinEof, why, gStop>>

(* 50 ms without payload: a timeout, or a chunk that was all negotiation.  *)
SelectTimeout == /\ pc = "select" /\ sockIn = <<>> /\ client = "open"
                 /\ pc' = "tail"
                 /\ UNCHANGED <<clientVars, sockIn, sockOut, childVars, inPipe, outPipe,
                                inOpen, clean, outbuf, stdinEof, why, gStop>>

Recv == /\ pc = "select" /\ sockIn # <<>>
        /\ \E n \in 1 .. Least(Len(sockIn), IoBuf) :
             /\ clean' = Take(sockIn, n)
             /\ sockIn' = Drop(sockIn, n)
        /\ pc' = "write"
        /\ UNCHANGED <<clientVars, sockOut, childVars, inPipe, outPipe,
                       inOpen, outbuf, stdinEof, why, gStop>>

RecvEofBreaks ==
  /\ pc = "select" /\ sockIn = <<>> /\ client # "open"
  /\ pc' = "close" /\ why' = "recv"
  /\ UNCHANGED <<clientVars, sockIn, sockOut, childVars, inPipe, outPipe,
                 inOpen, clean, outbuf, stdinEof, gStop>>

RecvEofKeepsPipe ==
  /\ pc = "select" /\ sockIn = <<>> /\ client # "open"
  /\ stdinEof' = TRUE /\ pc' = "loop"
  /\ UNCHANGED <<clientVars, sockIn, sockOut, childVars, inPipe, outPipe,
                 inOpen, clean, outbuf, why, gStop>>

(* recv returned 0: the client closed its sending side.  Close the shell's *)
(* stdin and keep pumping its output.                                      *)
RecvEof ==
  /\ pc = "select" /\ sockIn = <<>> /\ client # "open"
  /\ stdinEof' = TRUE /\ inOpen' = FALSE /\ pc' = "loop"
  /\ UNCHANGED <<clientVars, sockIn, sockOut, childVars, inPipe, outPipe,
                 clean, outbuf, why, gStop>>

(* A reset connection: select or recv reports an error. *)
RecvError == /\ pc = "select" /\ client = "gone"
             /\ pc' = "close" /\ why' = "recv"
             /\ UNCHANGED <<clientVars, sockIn, sockOut, childVars, inPipe, outPipe,
                            inOpen, clean, outbuf, stdinEof, gStop>>

WriteSomeOnce ==
  /\ pc = "write" /\ child = "up"
  /\ \E n \in 1 .. Least(Len(clean), InCap - Len(inPipe)) :
       inPipe' = inPipe \o Take(clean, n)
  /\ clean' = <<>> /\ pc' = "tail"
  /\ UNCHANGED <<clientVars, sockIn, sockOut, childVars, outPipe,
                 inOpen, outbuf, stdinEof, why, gStop>>

(* One round of write_all: WriteFile may take fewer bytes than asked, and  *)
(* blocks while the pipe is full.                                          *)
WriteSome ==
  /\ pc = "write" /\ child = "up"
  /\ \E n \in 1 .. Least(Len(clean), InCap - Len(inPipe)) :
       /\ inPipe' = inPipe \o Take(clean, n)
       /\ clean' = Drop(clean, n)
       /\ pc' = IF n = Len(clean) THEN "tail" ELSE "write"
  /\ UNCHANGED <<clientVars, sockIn, sockOut, childVars, outPipe,
                 inOpen, outbuf, stdinEof, why, gStop>>

(* The shell is gone and nobody holds the reading end of its stdin. *)
WriteFails == /\ pc = "write" /\ child # "up"
              /\ pc' = "close" /\ why' = "write"
              /\ UNCHANGED <<clientVars, sockIn, sockOut, childVars, inPipe, outPipe,
                             inOpen, clean, outbuf, stdinEof, gStop>>

TurnEndForgetsPipe ==
  /\ pc = "tail"
  /\ \/ gStop /\ pc' = "close" /\ why' = "stop"
     \/ ~gStop /\ child # "up" /\ pc' = "close" /\ why' = "drained"
     \/ ~gStop /\ child = "up" /\ pc' = "loop" /\ UNCHANGED why
  /\ UNCHANGED <<clientVars, sockIn, sockOut, childVars, inPipe, outPipe,
                 inOpen, clean, outbuf, stdinEof, gStop>>

(* The end of one turn: a stop request, or a shell that is gone and whose  *)
(* pipe is drained, ends the session.                                      *)
TurnEnd ==
  /\ pc = "tail"
  /\ \/ gStop /\ pc' = "close" /\ why' = "stop"
     \/ ~gStop /\ child # "up" /\ outPipe = <<>> /\ pc' = "close" /\ why' = "drained"
     \/ ~gStop /\ (child = "up" \/ outPipe # <<>>) /\ pc' = "loop" /\ UNCHANGED why
  /\ UNCHANGED <<clientVars, sockIn, sockOut, childVars, inPipe, outPipe,
                 inOpen, clean, outbuf, stdinEof, gStop>>

(* After the loop: the polite EOF, two seconds of grace, then the kill. *)
CloseStdin == /\ pc = "close"
              /\ inOpen' = FALSE /\ pc' = "wait"
              /\ UNCHANGED <<clientVars, sockIn, sockOut, childVars, inPipe, outPipe,
                             clean, outbuf, stdinEof, why, gStop>>

Reap == /\ pc = "wait"
        /\ child' = IF child = "up" THEN "killed" ELSE child
        /\ pc' = "done"
        /\ UNCHANGED <<clientVars, sockIn, sockOut, childGot, childEof, owes, wrote,
                       inPipe, outPipe, inOpen, clean, outbuf, stdinEof, why, gStop>>

Pump == \/ Start \/ StartFails \/ ReadChild \/ SendSome \/ SendFails \/ LoopTurn
        \/ SelectTimeout \/ Recv \/ RecvEof \/ RecvError
        \/ WriteSome \/ WriteFails \/ TurnEnd \/ CloseStdin \/ Reap

-----------------------------------------------------------------------------
(* The shell: it reads a byte (a command, a block of a file), prints what  *)
(* it owes for it, and only then reads again.                              *)

ChildRead == /\ child = "up" /\ owes = 0 /\ inPipe # <<>>
             /\ childGot' = Append(childGot, Head(inPipe))
             /\ inPipe' = Tail(inPipe)
             /\ owes' \in 0 .. MaxReply
             /\ UNCHANGED <<clientVars, sockIn, sockOut, child, childEof, wrote,
                            outPipe, pumpVars, gStop>>

ChildWrite == /\ child = "up" /\ owes > 0 /\ Len(outPipe) < OutCap
              /\ outPipe' = Append(outPipe, wrote + 1)
              /\ wrote' = wrote + 1
              /\ owes' = owes - 1
              /\ UNCHANGED <<clientVars, sockIn, sockOut, child, childGot, childEof,
                             inPipe, pumpVars, gStop>>

(* End-of-file on stdin; the shell may still print a completion marker. *)
ChildSeesEof == /\ child = "up" /\ owes = 0 /\ inPipe = <<>> /\ ~inOpen /\ ~childEof
                /\ childEof' = TRUE
                /\ owes' \in 0 .. MaxReply
                /\ UNCHANGED <<clientVars, sockIn, sockOut, child, childGot, wrote,
                               inPipe, outPipe, pumpVars, gStop>>

(* It exits after end-of-file, or because something it read told it to. *)
ChildExit == /\ child = "up" /\ owes = 0 /\ (childEof \/ childGot # <<>>)
             /\ child' = "exited"
             /\ UNCHANGED <<clientVars, sockIn, sockOut, childGot, childEof, owes, wrote,
                            inPipe, outPipe, pumpVars, gStop>>

-----------------------------------------------------------------------------
(* The client, and the service's stop request. *)

ClientSend == /\ client = "open" /\ pc # "done"
              /\ sent < MaxIn /\ Len(sockIn) < SockCap
              /\ sent' = sent + 1
              /\ sockIn' = Append(sockIn, sent + 1)
              /\ UNCHANGED <<client, clientGot, sockOut, childVars, inPipe, outPipe,
                             pumpVars, gStop>>

ClientRead == /\ client # "gone" /\ sockOut # <<>>
              /\ clientGot' = Append(clientGot, Head(sockOut))
              /\ sockOut' = Tail(sockOut)
              /\ UNCHANGED <<client, sent, sockIn, childVars, inPipe, outPipe,
                             pumpVars, gStop>>

ClientHalfClose == /\ client = "open"
                   /\ client' = "half"
                   /\ UNCHANGED <<sent, clientGot, sockIn, sockOut, childVars, inPipe,
                                  outPipe, pumpVars, gStop>>

ClientClose == /\ client # "gone"
               /\ client' = "gone"
               /\ UNCHANGED <<sent, clientGot, sockIn, sockOut, childVars, inPipe,
                              outPipe, pumpVars, gStop>>

ServiceStop == /\ ~gStop
               /\ gStop' = TRUE
               /\ UNCHANGED <<clientVars, sockIn, sockOut, childVars, inPipe, outPipe,
                              pumpVars>>

Child  == ChildRead \/ ChildWrite \/ ChildSeesEof \/ ChildExit
Client == ClientSend \/ ClientRead \/ ClientHalfClose \/ ClientClose

Next == Pump \/ Child \/ Client \/ ServiceStop

(* The pump is a running thread; the shell keeps reading, printing and     *)
(* leaves after end-of-file; the client keeps reading what it is sent.     *)
(* Nothing obliges the client to send or to close, or the shell to exit    *)
(* while its stdin is open.                                                *)
Fairness == /\ WF_vars(Pump)
            /\ WF_vars(ChildRead) /\ WF_vars(ChildWrite) /\ WF_vars(ChildSeesEof)
            /\ WF_vars(childEof /\ ChildExit)
            /\ WF_vars(ClientRead)

Spec == Init /\ [][Next]_vars
FairSpec == Spec /\ Fairness

-----------------------------------------------------------------------------
(* Types and bounds: every buffer within its capacity. *)
TypeOK ==
  /\ client \in {"open", "half", "gone"}
  /\ child \in {"none", "up", "exited", "killed"}
  /\ pc \in Positions
  /\ why \in {"none", "start", "send", "recv", "write", "stop", "drained"}
  /\ childEof \in BOOLEAN /\ inOpen \in BOOLEAN
  /\ stdinEof \in BOOLEAN /\ gStop \in BOOLEAN
  /\ sent \in 0 .. MaxIn /\ wrote \in Nat /\ owes \in 0 .. MaxReply
  /\ sockIn \in Seq(Nat) /\ Len(sockIn) <= SockCap
  /\ sockOut \in Seq(Nat) /\ Len(sockOut) <= SockCap
  /\ inPipe \in Seq(Nat) /\ Len(inPipe) <= InCap
  /\ outPipe \in Seq(Nat) /\ Len(outPipe) <= OutCap
  /\ clean \in Seq(Nat) /\ Len(clean) <= IoBuf
  /\ outbuf \in Seq(Nat) /\ Len(outbuf) <= IoBuf
  /\ clientGot \in Seq(Nat) /\ childGot \in Seq(Nat)

(* No input byte is lost, repeated or reordered on its way to the shell,   *)
(* whatever the chunking of recv and however short the pipe writes.        *)
(* (anyvmtd.c write_all: "every byte past `wrote` is gone" was the bug.)   *)
InputIntact == childGot \o inPipe \o clean \o sockIn = Iota(sent)

(* The same for the shell's output on its way to the client. *)
OutputIntact == clientGot \o sockOut \o outbuf \o outPipe = Iota(wrote)

(* When the shell sees the client's half-close as end-of-file it has read  *)
(* everything the client sent: a tar stream is never cut short by its EOF. *)
EofAfterAllInput == (stdinEof /\ childEof) => childGot = Iota(sent)

(* A session that ends because the shell is gone and its pipe drained has  *)
(* handed the client every byte the shell printed.                         *)
DrainedMeansSent == (why = "drained") => clientGot \o sockOut = Iota(wrote)

(* While the client still listens (open or half-closed), only a service    *)
(* stop or the shell's own end makes the pump leave its loop.              *)
StaysForListener ==
  [][(pc # "close" /\ pc' = "close" /\ client # "gone")
       => (gStop \/ child # "up")]_vars

(* The pump is blocked on a full stdin pipe, the shell on a full stdout    *)
(* pipe: write_all has no way back to the loop that would drain it.        *)
Entangled == /\ pc = "write" /\ Len(inPipe) = InCap
             /\ child = "up" /\ owes > 0 /\ Len(outPipe) = OutCap

(* A half-closed session finishes, and unless the service was stopped, the *)
(* client left or the shell died with input still to come, the client has  *)
(* then read all of the shell's output.  Nothing else can stop it: the one *)
(* way not to finish is that pump and shell block each other.              *)
HalfCloseCompletes ==
  (client = "half")
     ~> (client = "gone" \/ gStop \/ why \in {"start", "write"} \/ Entangled
         \/ (pc = "done" /\ clientGot = Iota(wrote)))

(* The session implements the relay promised by ByteRelay. *)
Relay == INSTANCE ByteRelay WITH
           toChild  <- childGot,
           toClient <- clientGot \o sockOut,
           eof      <- stdinEof /\ childEof,
           complete <- why = "drained"
RelaySpec == Relay!RelaySpec
=============================================================================
