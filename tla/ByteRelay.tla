------------------------------ MODULE ByteRelay ------------------------------
(***************************************************************************)
(* What one session of anyvmtd promises its two ends, without pipes,       *)
(* buffers or a pump: bytes reach the other end in order, none missing and *)
(* none twice; the shell sees a half-close only after everything sent      *)
(* before it; and a session that is declared complete has handed over all  *)
(* of the shell's output.                                                  *)
(***************************************************************************)
EXTENDS Naturals, Sequences

VARIABLES sent,      \* bytes the client has sent; byte number i is the value i
          wrote,     \* bytes the shell has written
          toChild,   \* what the shell has read
          toClient,  \* what has been handed to the client's side
          eof,       \* the shell has seen the client's half-close
          complete   \* the session ended because it was finished

relayVars == <<sent, wrote, toChild, toClient, eof, complete>>

Iota(n) == [i \in 1..n |-> i]

RelayInit == /\ sent = 0 /\ wrote = 0
             /\ toChild = <<>> /\ toClient = <<>>
             /\ eof = FALSE /\ complete = FALSE

Send == /\ ~eof
        /\ sent' = sent + 1
        /\ UNCHANGED <<wrote, toChild, toClient, eof, complete>>

Write == /\ ~complete
         /\ wrote' = wrote + 1
         /\ UNCHANGED <<sent, toChild, toClient, eof, complete>>

PassToChild == /\ ~eof
               /\ \E n \in Len(toChild) + 1 .. sent : toChild' = Iota(n)
               /\ UNCHANGED <<sent, wrote, toClient, eof, complete>>

PassToClient == /\ \E n \in Len(toClient) + 1 .. wrote : toClient' = Iota(n)
                /\ UNCHANGED <<sent, wrote, toChild, eof, complete>>

SignalEof == /\ toChild = Iota(sent)
             /\ eof' = TRUE
             /\ UNCHANGED <<sent, wrote, toChild, toClient, complete>>

Complete == /\ toClient = Iota(wrote)
            /\ complete' = TRUE
            /\ UNCHANGED <<sent, wrote, toChild, toClient, eof>>

RelayNext == Send \/ Write \/ PassToChild \/ PassToClient \/ SignalEof \/ Complete

RelaySpec == RelayInit /\ [][RelayNext]_relayVars
=============================================================================
