--------------------------- MODULE AnyvmtdProofs ---------------------------
(***************************************************************************)
(* Theorems about anyvmtd: a session (ServeConn), for every size of the    *)
(* buffers and pipes, and the accept loop and service around it            *)
(* (AnyvmtdServer), for any number of connections.  IInv is the inductive  *)
(* invariant of ServeConn: the types, where the pump may hold bytes (Held),*)
(* how end-of-file travels (EofInv), what a finished session has left      *)
(* (DrainedInv), and the two conservation laws.  ServerInv is that of      *)
(* AnyvmtdServer.                                                          *)
(***************************************************************************)
EXTENDS ServeConn, AnyvmtdServer, SequenceTheorems, TLAPS

-----------------------------------------------------------------------------
(* Lemmas about the operators on sequences. *)

(* Concatenation of byte streams is associative and stays a stream. *)
LEMMA Assoc ==
  ASSUME NEW a \in Seq(Nat), NEW b \in Seq(Nat), NEW c \in Seq(Nat)
  PROVE  (a \o b) \o c = a \o (b \o c)
BY ConcatAssociative, SMTT(30)

LEMMA Concat ==
  ASSUME NEW a \in Seq(Nat), NEW b \in Seq(Nat)
  PROVE  /\ a \o b \in Seq(Nat)
         /\ Len(a \o b) = Len(a) + Len(b)
         /\ \A i \in 1 .. Len(a) : (a \o b)[i] = a[i]
BY ConcatProperties

(* A chunk taken off the front leaves the rest, and both are sequences. *)
LEMMA Chunk ==
  ASSUME NEW s \in Seq(Nat), NEW n \in 0 .. Len(s)
  PROVE  /\ Take(s, n) \in Seq(Nat) /\ Len(Take(s, n)) = n
         /\ Drop(s, n) \in Seq(Nat) /\ Len(Drop(s, n)) = Len(s) - n
         /\ Take(s, n) \o Drop(s, n) = s
<1>1. \A i \in 1 .. Len(s) : s[i] \in Nat
  BY ElementOfSeq
<1>2. Take(s, n) \in Seq(Nat) /\ Len(Take(s, n)) = n
  BY <1>1, SubSeqProperties DEF Take
<1>3. Drop(s, n) \in Seq(Nat) /\ Len(Drop(s, n)) = Len(s) - n
  BY <1>1, SubSeqProperties DEF Drop
<1>4. Take(s, n) \o Drop(s, n) = SubSeq(s, 1, Len(s))
  <2>1. /\ Len(s) \in Nat /\ 1 \in 1 .. Len(s) + 1
        /\ n \in 1 - 1 .. Len(s) /\ Len(s) \in n .. Len(s)
    OBVIOUS
  <2>2. SubSeq(s, 1, n) \o SubSeq(s, n + 1, Len(s)) = SubSeq(s, 1, Len(s))
    BY <2>1, ConcatAdjacentSubSeq
  <2> QED
    BY <2>2 DEF Take, Drop
<1> QED
  BY <1>2, <1>3, <1>4, SubSeqFull

(* Moving the first byte of a buffer to the end of the one before it. *)
LEMMA MoveHead ==
  ASSUME NEW a \in Seq(Nat), NEW b \in Seq(Nat), b # <<>>
  PROVE  /\ Append(a, Head(b)) \in Seq(Nat) /\ Tail(b) \in Seq(Nat)
         /\ Append(a, Head(b)) \o Tail(b) = a \o b
<1>1. Head(b) \in Nat /\ Tail(b) \in Seq(Nat)
  BY HeadTailProperties
<1>2. Append(a, Head(b)) = a \o <<Head(b)>>
  BY <1>1, AppendIsConcat
<1>3. <<Head(b)>> \o Tail(b) = b
  <2>1. Len(b) \in Nat \ {0}
    BY EmptySeq
  <2>2. b = <<b[1]>> \o SubSeq(b, 2, Len(b))
    BY <2>1, SubSeqRecursiveFirst, SubSeqFull
  <2> QED
    BY <2>2, TailIsSubSeq
<1>4. (a \o <<Head(b)>>) \o Tail(b) = a \o (<<Head(b)>> \o Tail(b))
  BY <1>1, Assoc, SMTT(30)
<1> QED
  BY <1>1, <1>2, <1>3, <1>4, AppendProperties

(* A new byte at the end of the last buffer is a new byte at the end of all. *)
LEMMA AppendLast ==
  ASSUME NEW a \in Seq(Nat), NEW b \in Seq(Nat), NEW n \in Nat,
         a \o b = Iota(n)
  PROVE  /\ Append(b, n + 1) \in Seq(Nat)
         /\ a \o Append(b, n + 1) = Iota(n + 1)
<1>1. Append(b, n + 1) = b \o <<n + 1>>
  BY AppendIsConcat
<1>2. a \o (b \o <<n + 1>>) = Iota(n) \o <<n + 1>>
  <2>1. <<n + 1>> \in Seq(Nat)
    OBVIOUS
  <2> QED
    BY <2>1, Assoc
<1>3. Iota(n) \in Seq(Nat) /\ Len(Iota(n)) = n
  BY DEF Iota
<1>4. Iota(n) \o <<n + 1>> = Append(Iota(n), n + 1)
  BY <1>3, AppendIsConcat
<1>5. Append(Iota(n), n + 1) = Iota(n + 1)
  BY <1>3, AppendProperties DEF Iota
<1>6. Append(b, n + 1) \in Seq(Nat)
  BY AppendProperties
<1> QED
  BY <1>1, <1>2, <1>4, <1>5, <1>6

(* What precedes other bytes of a numbered stream is numbered itself. *)
LEMMA PrefixOfIota ==
  ASSUME NEW a \in Seq(Nat), NEW b \in Seq(Nat), NEW n \in Nat, a \o b = Iota(n)
  PROVE  a = Iota(Len(a)) /\ Len(a) \in 0 .. n /\ Len(a) + Len(b) = n
<1>1. Len(a) + Len(b) = n
  <2>1. Len(Iota(n)) = n
    BY DEF Iota
  <2> QED
    BY <2>1, Concat
<1>2. \A i \in 1 .. Len(a) : a[i] = i
  <2> SUFFICES ASSUME NEW i \in 1 .. Len(a)
               PROVE  a[i] = i
    OBVIOUS
  <2>1. (a \o b)[i] = a[i]
    BY Concat
  <2>2. i \in 1 .. n
    BY <1>1
  <2>3. Iota(n)[i] = i
    BY <2>2 DEF Iota
  <2> QED
    BY <2>1, <2>3
<1>3. a \in [1 .. Len(a) -> Nat]
  BY LenProperties
<1> QED
  BY <1>1, <1>2, <1>3 DEF Iota

-----------------------------------------------------------------------------
(* Types. *)

(* Every step keeps every variable in its type and every buffer within its *)
(* capacity.                                                               *)
LEMMA TypeStep ==
  ASSUME TypeOK, [Next]_vars
  PROVE  TypeOK'
<1> USE SizesAssumption
<1>1. CASE Start
  BY <1>1 DEF Start, TypeOK, Positions, clientVars, childVars, pumpVars
<1>2. CASE StartFails
  BY <1>2 DEF StartFails, TypeOK, Positions, clientVars, childVars, pumpVars
<1>3. CASE SendFails
  BY <1>3 DEF SendFails, TypeOK, Positions, clientVars, childVars, pumpVars
<1>4. CASE LoopTurn
  BY <1>4 DEF LoopTurn, TypeOK, Positions, clientVars, childVars, pumpVars
<1>5. CASE SelectTimeout
  BY <1>5 DEF SelectTimeout, TypeOK, Positions, clientVars, childVars, pumpVars
<1>6. CASE RecvEof
  BY <1>6 DEF RecvEof, TypeOK, Positions, clientVars, childVars, pumpVars
<1>7. CASE RecvError
  BY <1>7 DEF RecvError, TypeOK, Positions, clientVars, childVars, pumpVars
<1>8. CASE WriteFails
  BY <1>8 DEF WriteFails, TypeOK, Positions, clientVars, childVars, pumpVars
<1>9. CASE TurnEnd
  BY <1>9 DEF TurnEnd, TypeOK, Positions, clientVars, childVars, pumpVars
<1>10. CASE CloseStdin
  <2>1. pc' = "wait" /\ inOpen' \in BOOLEAN
    BY <1>10, Zenon DEF CloseStdin
  <2>2. /\ UNCHANGED <<clientVars, sockIn, sockOut, childVars, inPipe, outPipe>>
        /\ UNCHANGED <<clean, outbuf, stdinEof, why, gStop>>
    BY <1>10 DEF CloseStdin
  <2> QED
    BY <2>1, <2>2 DEF TypeOK, Positions, clientVars, childVars
<1>11. CASE Reap
  BY <1>11 DEF Reap, TypeOK, Positions, clientVars, childVars, pumpVars
<1>12. CASE ChildSeesEof
  BY <1>12 DEF ChildSeesEof, TypeOK, Positions, clientVars, childVars, pumpVars
<1>13. CASE ChildExit
  BY <1>13 DEF ChildExit, TypeOK, Positions, clientVars, childVars, pumpVars
<1>14. CASE ClientHalfClose
  BY <1>14 DEF ClientHalfClose, TypeOK, Positions, clientVars, childVars, pumpVars
<1>15. CASE ClientClose
  BY <1>15 DEF ClientClose, TypeOK, Positions, clientVars, childVars, pumpVars
<1>16. CASE ServiceStop
  BY <1>16 DEF ServiceStop, TypeOK, Positions, clientVars, childVars, pumpVars
<1>17. CASE ReadChild
  <2>1. PICK n \in 1 .. Least(Len(outPipe), IoBuf) : outbuf' = Take(outPipe, n) /\ outPipe' = Drop(outPipe, n)
    BY <1>17 DEF ReadChild
  <2>2. n \in 0 .. Len(outPipe) /\ outPipe \in Seq(Nat) /\ n <= IoBuf
    BY <2>1 DEF TypeOK, Least
  <2>3. /\ Take(outPipe, n) \in Seq(Nat) /\ Len(Take(outPipe, n)) = n
        /\ Drop(outPipe, n) \in Seq(Nat) /\ Len(Drop(outPipe, n)) = Len(outPipe) - n
    BY <2>2, Chunk
  <2>4. /\ outbuf' \in Seq(Nat) /\ Len(outbuf') <= IoBuf
        /\ outPipe' \in Seq(Nat) /\ Len(outPipe') <= OutCap
    BY <2>1, <2>2, <2>3 DEF TypeOK
  <2> QED
    BY <1>17, <2>4 DEF ReadChild, TypeOK, Positions, clientVars, childVars, pumpVars
<1>18. CASE Recv
  <2>1. PICK n \in 1 .. Least(Len(sockIn), IoBuf) : clean' = Take(sockIn, n) /\ sockIn' = Drop(sockIn, n)
    BY <1>18 DEF Recv
  <2>2. n \in 0 .. Len(sockIn) /\ sockIn \in Seq(Nat) /\ n <= IoBuf
    BY <2>1 DEF TypeOK, Least
  <2>3. /\ Take(sockIn, n) \in Seq(Nat) /\ Len(Take(sockIn, n)) = n
        /\ Drop(sockIn, n) \in Seq(Nat) /\ Len(Drop(sockIn, n)) = Len(sockIn) - n
    BY <2>2, Chunk
  <2>4. /\ clean' \in Seq(Nat) /\ Len(clean') <= IoBuf
        /\ sockIn' \in Seq(Nat) /\ Len(sockIn') <= SockCap
    BY <2>1, <2>2, <2>3 DEF TypeOK
  <2> QED
    BY <1>18, <2>4 DEF Recv, TypeOK, Positions, clientVars, childVars, pumpVars
<1>19. CASE SendSome
  <2>1. PICK n \in 1 .. Least(Len(outbuf), SockCap - Len(sockOut)) : sockOut' = sockOut \o Take(outbuf, n) /\ outbuf' = Drop(outbuf, n)
    BY <1>19 DEF SendSome
  <2>2. n \in 0 .. Len(outbuf) /\ outbuf \in Seq(Nat) /\ n <= SockCap - Len(sockOut)
    BY <2>1 DEF TypeOK, Least
  <2>3. /\ Take(outbuf, n) \in Seq(Nat) /\ Len(Take(outbuf, n)) = n
        /\ Drop(outbuf, n) \in Seq(Nat) /\ Len(Drop(outbuf, n)) = Len(outbuf) - n
    BY <2>2, Chunk
  <2>4. sockOut \in Seq(Nat)
    BY DEF TypeOK
  <2>5. sockOut' \in Seq(Nat) /\ Len(sockOut') = Len(sockOut) + n
    BY <2>1, <2>3, <2>4, Concat
  <2>6. /\ Len(sockOut') <= SockCap
        /\ outbuf' \in Seq(Nat) /\ Len(outbuf') <= IoBuf
    BY <2>1, <2>2, <2>3, <2>5 DEF TypeOK
  <2> QED
    BY <1>19, <2>5, <2>6 DEF SendSome, TypeOK, Positions, clientVars, childVars,
       pumpVars
<1>20. CASE WriteSome
  <2>1. PICK n \in 1 .. Least(Len(clean), InCap - Len(inPipe)) : inPipe' = inPipe \o Take(clean, n) /\ clean' = Drop(clean, n)
    BY <1>20 DEF WriteSome
  <2>2. n \in 0 .. Len(clean) /\ clean \in Seq(Nat) /\ n <= InCap - Len(inPipe)
    BY <2>1 DEF TypeOK, Least
  <2>3. /\ Take(clean, n) \in Seq(Nat) /\ Len(Take(clean, n)) = n
        /\ Drop(clean, n) \in Seq(Nat) /\ Len(Drop(clean, n)) = Len(clean) - n
    BY <2>2, Chunk
  <2>4. inPipe \in Seq(Nat)
    BY DEF TypeOK
  <2>5. inPipe' \in Seq(Nat) /\ Len(inPipe') = Len(inPipe) + n
    BY <2>1, <2>3, <2>4, Concat
  <2>6. /\ Len(inPipe') <= InCap
        /\ clean' \in Seq(Nat) /\ Len(clean') <= IoBuf
    BY <2>1, <2>2, <2>3, <2>5 DEF TypeOK
  <2> QED
    BY <1>20, <2>5, <2>6 DEF WriteSome, TypeOK, Positions, clientVars, childVars,
       pumpVars
<1>21. CASE ChildRead
  <2>1. /\ childGot' \in Seq(Nat) /\ inPipe' \in Seq(Nat)
        /\ Len(inPipe') = Len(inPipe) - 1
    BY <1>21, MoveHead, HeadTailProperties DEF ChildRead, TypeOK
  <2> QED
    BY <1>21, <2>1 DEF ChildRead, TypeOK, Positions, clientVars, childVars, pumpVars
<1>22. CASE ClientRead
  <2>1. /\ clientGot' \in Seq(Nat) /\ sockOut' \in Seq(Nat)
        /\ Len(sockOut') = Len(sockOut) - 1
    BY <1>22, MoveHead, HeadTailProperties DEF ClientRead, TypeOK
  <2> QED
    BY <1>22, <2>1 DEF ClientRead, TypeOK, Positions, clientVars, childVars, pumpVars
<1>23. CASE ChildWrite
  <2>1. outPipe' \in Seq(Nat) /\ Len(outPipe') = Len(outPipe) + 1
    BY <1>23, AppendProperties DEF ChildWrite, TypeOK
  <2> QED
    BY <1>23, <2>1 DEF ChildWrite, TypeOK, Positions, clientVars, childVars, pumpVars
<1>24. CASE ClientSend
  <2>1. sockIn' \in Seq(Nat) /\ Len(sockIn') = Len(sockIn) + 1
    BY <1>24, AppendProperties DEF ClientSend, TypeOK
  <2> QED
    BY <1>24, <2>1 DEF ClientSend, TypeOK, Positions, clientVars, childVars, pumpVars
<1>25. CASE UNCHANGED vars
  BY <1>25 DEF vars, TypeOK, Positions, clientVars, childVars, pumpVars
<1> QED
  BY <1>1, <1>2, <1>3, <1>4, <1>5, <1>6, <1>7, <1>8, <1>9, <1>10, <1>11,
     <1>12, <1>13, <1>14, <1>15, <1>16, <1>17, <1>18, <1>19, <1>20, <1>21,
     <1>22, <1>23, <1>24, <1>25 DEF Next, Pump, Child, Client

-----------------------------------------------------------------------------
(* The inductive invariant. *)

(* The pump holds bytes only while it is forwarding them, or after it has  *)
(* given up.                                                               *)
Held == /\ clean # <<>> => pc \in {"write", "close", "wait", "done"}
        /\ outbuf # <<>> => pc \in {"send", "close", "wait", "done"}

(* End-of-file follows the bytes: stdin is closed only once the socket is  *)
(* drained and nothing is held, the shell sees it only on an empty pipe.   *)
EofInv ==
  /\ pc = "start" => child = "none"
  /\ stdinEof => /\ sockIn = <<>> /\ clean = <<>> /\ client # "open"
                 /\ pc \notin {"select", "write"}
  /\ childEof => inPipe = <<>> /\ ~inOpen /\ pc # "start"
  /\ inOpen \/ stdinEof \/ pc \in {"start", "wait", "done"}

(* A drained session has nobody left to print and nothing left to send. *)
DrainedInv ==
  why = "drained" => /\ child # "up" /\ pc \in {"close", "wait", "done"}
                     /\ outPipe = <<>> /\ outbuf = <<>>

IInv == TypeOK /\ Held /\ EofInv /\ DrainedInv /\ InputIntact /\ OutputIntact

(* Held is preserved: a write or a send that finished left nothing over. *)
LEMMA HeldStep ==
  ASSUME TypeOK, Held, [Next]_vars
  PROVE  Held'
<1>1. CASE Start
  BY <1>1 DEF Start, Held, clientVars, childVars, pumpVars
<1>2. CASE StartFails
  BY <1>2 DEF StartFails, Held, clientVars, childVars, pumpVars
<1>3. CASE ReadChild
  BY <1>3 DEF ReadChild, Held, clientVars, childVars, pumpVars
<1>4. CASE SendSome
  <2>1. PICK n \in 1 .. Least(Len(outbuf), SockCap - Len(sockOut)) :
             /\ outbuf' = Drop(outbuf, n)
             /\ pc' = IF n = Len(outbuf) THEN "loop" ELSE "send"
    BY <1>4 DEF SendSome
  <2>2. n \in 0 .. Len(outbuf) /\ outbuf \in Seq(Nat)
    BY <2>1, SizesAssumption DEF TypeOK, Least
  <2>3. Len(outbuf') = Len(outbuf) - n /\ outbuf' \in Seq(Nat)
    BY <2>1, <2>2, Chunk
  <2>4. n = Len(outbuf) => outbuf' = <<>>
    BY <2>2, <2>3, EmptySeq
  <2> QED
    BY <1>4, <2>1, <2>4 DEF SendSome, Held, clientVars, childVars, pumpVars
<1>5. CASE SendFails
  BY <1>5 DEF SendFails, Held, clientVars, childVars, pumpVars
<1>6. CASE LoopTurn
  BY <1>6 DEF LoopTurn, Held, clientVars, childVars, pumpVars
<1>7. CASE SelectTimeout
  BY <1>7 DEF SelectTimeout, Held, clientVars, childVars, pumpVars
<1>8. CASE Recv
  BY <1>8 DEF Recv, Held, clientVars, childVars, pumpVars
<1>9. CASE RecvEof
  BY <1>9 DEF RecvEof, Held, clientVars, childVars, pumpVars
<1>10. CASE RecvError
  BY <1>10 DEF RecvError, Held, clientVars, childVars, pumpVars
<1>11. CASE WriteSome
  <2>1. PICK n \in 1 .. Least(Len(clean), InCap - Len(inPipe)) :
             /\ clean' = Drop(clean, n)
             /\ pc' = IF n = Len(clean) THEN "tail" ELSE "write"
    BY <1>11 DEF WriteSome
  <2>2. n \in 0 .. Len(clean) /\ clean \in Seq(Nat)
    BY <2>1, SizesAssumption DEF TypeOK, Least
  <2>3. Len(clean') = Len(clean) - n /\ clean' \in Seq(Nat)
    BY <2>1, <2>2, Chunk
  <2>4. n = Len(clean) => clean' = <<>>
    BY <2>2, <2>3, EmptySeq
  <2> QED
    BY <1>11, <2>1, <2>4 DEF WriteSome, Held, clientVars, childVars, pumpVars
<1>12. CASE WriteFails
  BY <1>12 DEF WriteFails, Held, clientVars, childVars, pumpVars
<1>13. CASE TurnEnd
  BY <1>13 DEF TurnEnd, Held, clientVars, childVars, pumpVars
<1>14. CASE CloseStdin
  BY <1>14 DEF CloseStdin, Held, clientVars, childVars, pumpVars
<1>15. CASE Reap
  BY <1>15 DEF Reap, Held, clientVars, childVars, pumpVars
<1>16. CASE ChildRead
  BY <1>16 DEF ChildRead, Held, clientVars, childVars, pumpVars
<1>17. CASE ChildWrite
  BY <1>17 DEF ChildWrite, Held, clientVars, childVars, pumpVars
<1>18. CASE ChildSeesEof
  BY <1>18 DEF ChildSeesEof, Held, clientVars, childVars, pumpVars
<1>19. CASE ChildExit
  BY <1>19 DEF ChildExit, Held, clientVars, childVars, pumpVars
<1>20. CASE ClientSend
  BY <1>20 DEF ClientSend, Held, clientVars, childVars, pumpVars
<1>21. CASE ClientRead
  BY <1>21 DEF ClientRead, Held, clientVars, childVars, pumpVars
<1>22. CASE ClientHalfClose
  BY <1>22 DEF ClientHalfClose, Held, clientVars, childVars, pumpVars
<1>23. CASE ClientClose
  BY <1>23 DEF ClientClose, Held, clientVars, childVars, pumpVars
<1>24. CASE ServiceStop
  BY <1>24 DEF ServiceStop, Held, clientVars, childVars, pumpVars
<1>25. CASE UNCHANGED vars
  BY <1>25 DEF vars, Held, clientVars, childVars, pumpVars
<1> QED
  BY <1>1, <1>2, <1>3, <1>4, <1>5, <1>6, <1>7, <1>8, <1>9, <1>10, <1>11,
     <1>12, <1>13, <1>14, <1>15, <1>16, <1>17, <1>18, <1>19, <1>20, <1>21,
     <1>22, <1>23, <1>24, <1>25 DEF Next, Pump, Child, Client

(* EofInv is preserved. *)
LEMMA EofStep ==
  ASSUME Held, EofInv, [Next]_vars
  PROVE  EofInv'
<1>1. CASE Start
  BY <1>1 DEF Start, EofInv, clientVars, childVars, pumpVars
<1>2. CASE StartFails
  BY <1>2 DEF StartFails, EofInv, clientVars, childVars, pumpVars
<1>3. CASE ReadChild
  BY <1>3 DEF ReadChild, EofInv, clientVars, childVars, pumpVars
<1>4. CASE SendSome
  BY <1>4 DEF SendSome, EofInv, clientVars, childVars, pumpVars
<1>5. CASE SendFails
  BY <1>5 DEF SendFails, EofInv, clientVars, childVars, pumpVars
<1>6. CASE LoopTurn
  BY <1>6 DEF LoopTurn, EofInv, clientVars, childVars, pumpVars
<1>7. CASE SelectTimeout
  BY <1>7 DEF SelectTimeout, EofInv, clientVars, childVars, pumpVars
<1>8. CASE Recv
  BY <1>8 DEF Recv, EofInv, clientVars, childVars, pumpVars
<1>9. CASE RecvEof
  BY <1>9 DEF RecvEof, EofInv, Held, clientVars, childVars, pumpVars
<1>10. CASE RecvError
  BY <1>10 DEF RecvError, EofInv, clientVars, childVars, pumpVars
<1>11. CASE WriteSome
  BY <1>11 DEF WriteSome, EofInv, clientVars, childVars, pumpVars
<1>12. CASE WriteFails
  BY <1>12 DEF WriteFails, EofInv, clientVars, childVars, pumpVars
<1>13. CASE TurnEnd
  BY <1>13 DEF TurnEnd, EofInv, clientVars, childVars, pumpVars
<1>14. CASE CloseStdin
  BY <1>14 DEF CloseStdin, EofInv, clientVars, childVars, pumpVars
<1>15. CASE Reap
  BY <1>15 DEF Reap, EofInv, clientVars, childVars, pumpVars
<1>16. CASE ChildRead
  BY <1>16 DEF ChildRead, EofInv, clientVars, childVars, pumpVars
<1>17. CASE ChildWrite
  BY <1>17 DEF ChildWrite, EofInv, clientVars, childVars, pumpVars
<1>18. CASE ChildSeesEof
  BY <1>18 DEF ChildSeesEof, EofInv, clientVars, childVars, pumpVars
<1>19. CASE ChildExit
  BY <1>19 DEF ChildExit, EofInv, clientVars, childVars, pumpVars
<1>20. CASE ClientSend
  BY <1>20 DEF ClientSend, EofInv, clientVars, childVars, pumpVars
<1>21. CASE ClientRead
  BY <1>21 DEF ClientRead, EofInv, clientVars, childVars, pumpVars
<1>22. CASE ClientHalfClose
  BY <1>22 DEF ClientHalfClose, EofInv, clientVars, childVars,
     pumpVars
<1>23. CASE ClientClose
  BY <1>23 DEF ClientClose, EofInv, clientVars, childVars, pumpVars
<1>24. CASE ServiceStop
  BY <1>24 DEF ServiceStop, EofInv, clientVars, childVars, pumpVars
<1>25. CASE UNCHANGED vars
  BY <1>25 DEF vars, EofInv, clientVars, childVars, pumpVars
<1> QED
  BY <1>1, <1>2, <1>3, <1>4, <1>5, <1>6, <1>7, <1>8, <1>9, <1>10, <1>11,
     <1>12, <1>13, <1>14, <1>15, <1>16, <1>17, <1>18, <1>19, <1>20, <1>21,
     <1>22, <1>23, <1>24, <1>25 DEF Next, Pump, Child, Client

(* DrainedInv is preserved. *)
LEMMA DrainedStep ==
  ASSUME Held, DrainedInv, [Next]_vars
  PROVE  DrainedInv'
<1>1. CASE Start
  BY <1>1 DEF Start, DrainedInv, clientVars, childVars,
     pumpVars
<1>2. CASE StartFails
  BY <1>2 DEF StartFails, DrainedInv, clientVars, childVars,
     pumpVars
<1>3. CASE ReadChild
  BY <1>3 DEF ReadChild, DrainedInv, clientVars, childVars,
     pumpVars
<1>4. CASE SendSome
  BY <1>4 DEF SendSome, DrainedInv, clientVars, childVars,
     pumpVars
<1>5. CASE SendFails
  BY <1>5 DEF SendFails, DrainedInv, clientVars, childVars,
     pumpVars
<1>6. CASE LoopTurn
  BY <1>6 DEF LoopTurn, DrainedInv, clientVars, childVars,
     pumpVars
<1>7. CASE SelectTimeout
  BY <1>7 DEF SelectTimeout, DrainedInv, clientVars,
     childVars, pumpVars
<1>8. CASE Recv
  BY <1>8 DEF Recv, DrainedInv, clientVars, childVars,
     pumpVars
<1>9. CASE RecvEof
  BY <1>9 DEF RecvEof, DrainedInv, clientVars, childVars,
     pumpVars
<1>10. CASE RecvError
  BY <1>10 DEF RecvError, DrainedInv, clientVars, childVars,
     pumpVars
<1>11. CASE WriteSome
  BY <1>11 DEF WriteSome, DrainedInv, clientVars, childVars,
     pumpVars
<1>12. CASE WriteFails
  BY <1>12 DEF WriteFails, DrainedInv, clientVars, childVars,
     pumpVars
<1>13. CASE TurnEnd
  BY <1>13 DEF TurnEnd, DrainedInv, Held, clientVars, childVars,
     pumpVars
<1>14. CASE CloseStdin
  BY <1>14 DEF CloseStdin, DrainedInv, clientVars, childVars,
     pumpVars
<1>15. CASE Reap
  BY <1>15 DEF Reap, DrainedInv, clientVars, childVars,
     pumpVars
<1>16. CASE ChildRead
  BY <1>16 DEF ChildRead, DrainedInv, clientVars, childVars,
     pumpVars
<1>17. CASE ChildWrite
  BY <1>17 DEF ChildWrite, DrainedInv, clientVars, childVars,
     pumpVars
<1>18. CASE ChildSeesEof
  BY <1>18 DEF ChildSeesEof, DrainedInv, clientVars,
     childVars, pumpVars
<1>19. CASE ChildExit
  BY <1>19 DEF ChildExit, DrainedInv, clientVars, childVars,
     pumpVars
<1>20. CASE ClientSend
  BY <1>20 DEF ClientSend, DrainedInv, clientVars, childVars,
     pumpVars
<1>21. CASE ClientRead
  BY <1>21 DEF ClientRead, DrainedInv, clientVars, childVars,
     pumpVars
<1>22. CASE ClientHalfClose
  BY <1>22 DEF ClientHalfClose, DrainedInv, clientVars,
     childVars, pumpVars
<1>23. CASE ClientClose
  BY <1>23 DEF ClientClose, DrainedInv, clientVars, childVars,
     pumpVars
<1>24. CASE ServiceStop
  BY <1>24 DEF ServiceStop, DrainedInv, clientVars, childVars,
     pumpVars
<1>25. CASE UNCHANGED vars
  BY <1>25 DEF vars, DrainedInv, clientVars, childVars, pumpVars
<1> QED
  BY <1>1, <1>2, <1>3, <1>4, <1>5, <1>6, <1>7, <1>8, <1>9, <1>10, <1>11,
     <1>12, <1>13, <1>14, <1>15, <1>16, <1>17, <1>18, <1>19, <1>20, <1>21,
     <1>22, <1>23, <1>24, <1>25 DEF Next, Pump, Child, Client

(* No step loses, repeats or reorders a byte of input. *)
LEMMA InputStep ==
  ASSUME TypeOK, Held, InputIntact, [Next]_vars
  PROVE  InputIntact'
<1> DEFINE Flow == <<childGot, inPipe, clean, sockIn, sent>>
<1>0. /\ childGot \in Seq(Nat) /\ inPipe \in Seq(Nat) /\ clean \in Seq(Nat)
      /\ sockIn \in Seq(Nat) /\ sent \in Nat
  BY DEF TypeOK
<1> USE DEF InputIntact
<1>1. ASSUME UNCHANGED Flow PROVE InputIntact'
  BY <1>1
<1>2. CASE Start \/ StartFails \/ ReadChild \/ SendSome \/ SendFails \/
           LoopTurn \/ SelectTimeout \/ RecvEof \/ RecvError \/ WriteFails \/
           TurnEnd \/ CloseStdin \/ Reap \/ ChildWrite \/ ChildSeesEof \/ ChildExit
           \/ ClientRead \/ ClientHalfClose \/ ClientClose \/ ServiceStop
  BY <1>2, <1>1 DEF Start, StartFails, ReadChild, SendSome, SendFails,
     LoopTurn, SelectTimeout, RecvEof, RecvError, WriteFails, TurnEnd,
     CloseStdin, Reap, ChildWrite, ChildSeesEof, ChildExit, ClientRead,
     ClientHalfClose, ClientClose, ServiceStop, clientVars, childVars,
     pumpVars
<1>3. CASE ChildRead
  <2>1. /\ inPipe # <<>> /\ childGot' = Append(childGot, Head(inPipe)) /\ inPipe' = Tail(inPipe)
        /\ UNCHANGED <<clean, sockIn, sent>>
    BY <1>3 DEF ChildRead, clientVars, childVars, pumpVars
  <2>2. childGot' \o inPipe' = childGot \o inPipe
    BY <1>0, <2>1, MoveHead
  <2> QED
    BY <1>0, <2>1, <2>2
<1>4. CASE WriteSome
  <2>1. PICK k \in 1 .. Least(Len(clean), InCap - Len(inPipe)) :
             inPipe' = inPipe \o Take(clean, k) /\ clean' = Drop(clean, k)
    BY <1>4 DEF WriteSome
  <2>2. k \in 0 .. Len(clean)
    BY <1>0, <2>1, SizesAssumption DEF Least
  <2>3. /\ Take(clean, k) \in Seq(Nat) /\ Drop(clean, k) \in Seq(Nat)
        /\ Take(clean, k) \o Drop(clean, k) = clean
    BY <1>0, <2>2, Chunk
  <2>4. childGot \o (inPipe \o Take(clean, k)) = (childGot \o inPipe) \o Take(clean, k)
    <3> HIDE DEF InputIntact
    <3>1. childGot \in Seq(Nat) /\ inPipe \in Seq(Nat) /\ Take(clean, k) \in Seq(Nat)
      BY <1>0, <2>3
    <3> QED
      BY <3>1, Assoc
  <2>5. childGot \o inPipe \in Seq(Nat)
    BY <1>0, Concat
  <2>6. ((childGot \o inPipe) \o Take(clean, k)) \o Drop(clean, k)
          = (childGot \o inPipe) \o (Take(clean, k) \o Drop(clean, k))
    BY <2>3, <2>5, Assoc
  <2>7. UNCHANGED <<childGot, sockIn, sent>>
    BY <1>4 DEF WriteSome, clientVars, childVars, pumpVars
  <2> QED
    BY <2>1, <2>3, <2>4, <2>6, <2>7
<1>5. CASE Recv
  <2>1. clean = <<>> /\ UNCHANGED <<childGot, inPipe, sent>>
    BY <1>5 DEF Recv, Held, clientVars, childVars, pumpVars
  <2>2. PICK k \in 1 .. Least(Len(sockIn), IoBuf) :
             clean' = Take(sockIn, k) /\ sockIn' = Drop(sockIn, k)
    BY <1>5 DEF Recv
  <2>3. k \in 0 .. Len(sockIn)
    BY <1>0, <2>2, SizesAssumption DEF Least
  <2>4. childGot \o inPipe \in Seq(Nat)
    BY <1>0, Concat
  <2>5. (childGot \o inPipe) \o <<>> = childGot \o inPipe
    BY <2>4, ConcatEmptySeq
  <2>6. Take(sockIn, k) \in Seq(Nat) /\ Drop(sockIn, k) \in Seq(Nat)
        /\ Take(sockIn, k) \o Drop(sockIn, k) = sockIn
    BY <1>0, <2>3, Chunk
  <2>7. ((childGot \o inPipe) \o Take(sockIn, k)) \o Drop(sockIn, k)
          = (childGot \o inPipe) \o (Take(sockIn, k) \o Drop(sockIn, k))
    BY <2>4, <2>6, Assoc
  <2> QED
    BY <1>0, <2>1, <2>2, <2>5, <2>6, <2>7
<1>6. CASE ClientSend
  <2>1. sockIn' = Append(sockIn, sent + 1) /\ sent' = sent + 1
        /\ UNCHANGED <<childGot, inPipe, clean>>
    BY <1>6 DEF ClientSend, clientVars, childVars, pumpVars
  <2>2. (childGot \o inPipe) \o clean \in Seq(Nat)
    BY <1>0, Concat
  <2>3. ((childGot \o inPipe) \o clean) \o sockIn' = Iota(sent + 1)
    BY <1>0, <2>1, <2>2, AppendLast
  <2> QED
    BY <2>1, <2>3
<1>7. CASE UNCHANGED vars
  BY <1>7, <1>1 DEF vars, clientVars, childVars, pumpVars
<1> QED
  BY <1>1, <1>2, <1>3, <1>4, <1>5, <1>6, <1>7 DEF Next, Pump, Child, Client

(* No step loses, repeats or reorders a byte of output. *)
LEMMA OutputStep ==
  ASSUME TypeOK, Held, OutputIntact, [Next]_vars
  PROVE  OutputIntact'
<1> DEFINE Flow == <<clientGot, sockOut, outbuf, outPipe, wrote>>
<1>0. /\ clientGot \in Seq(Nat) /\ sockOut \in Seq(Nat) /\ outbuf \in Seq(Nat)
      /\ outPipe \in Seq(Nat) /\ wrote \in Nat
  BY DEF TypeOK
<1> USE DEF OutputIntact
<1>1. ASSUME UNCHANGED Flow PROVE OutputIntact'
  BY <1>1
<1>2. CASE Start \/ StartFails \/ SendFails \/ LoopTurn \/ SelectTimeout \/
           Recv \/ RecvEof \/ RecvError \/ WriteSome \/ WriteFails \/ TurnEnd \/
           CloseStdin \/ Reap \/ ChildRead \/ ChildSeesEof \/ ChildExit \/
           ClientSend \/ ClientHalfClose \/ ClientClose \/ ServiceStop
  BY <1>2, <1>1 DEF Start, StartFails, SendFails, LoopTurn, SelectTimeout,
     Recv, RecvEof, RecvError, WriteSome, WriteFails, TurnEnd, CloseStdin,
     Reap, ChildRead, ChildSeesEof, ChildExit, ClientSend, ClientHalfClose,
     ClientClose, ServiceStop, clientVars, childVars, pumpVars
<1>3. CASE ClientRead
  <2>1. /\ sockOut # <<>> /\ clientGot' = Append(clientGot, Head(sockOut)) /\ sockOut' = Tail(sockOut)
        /\ UNCHANGED <<outbuf, outPipe, wrote>>
    BY <1>3 DEF ClientRead, clientVars, childVars, pumpVars
  <2>2. clientGot' \o sockOut' = clientGot \o sockOut
    BY <1>0, <2>1, MoveHead
  <2> QED
    BY <1>0, <2>1, <2>2
<1>4. CASE SendSome
  <2>1. PICK k \in 1 .. Least(Len(outbuf), SockCap - Len(sockOut)) :
             sockOut' = sockOut \o Take(outbuf, k) /\ outbuf' = Drop(outbuf, k)
    BY <1>4 DEF SendSome
  <2>2. k \in 0 .. Len(outbuf)
    BY <1>0, <2>1, SizesAssumption DEF Least
  <2>3. /\ Take(outbuf, k) \in Seq(Nat) /\ Drop(outbuf, k) \in Seq(Nat)
        /\ Take(outbuf, k) \o Drop(outbuf, k) = outbuf
    BY <1>0, <2>2, Chunk
  <2>4. clientGot \o (sockOut \o Take(outbuf, k)) = (clientGot \o sockOut) \o Take(outbuf, k)
    <3> HIDE DEF OutputIntact
    <3>1. clientGot \in Seq(Nat) /\ sockOut \in Seq(Nat) /\ Take(outbuf, k) \in Seq(Nat)
      BY <1>0, <2>3
    <3> QED
      BY <3>1, Assoc
  <2>5. clientGot \o sockOut \in Seq(Nat)
    BY <1>0, Concat
  <2>6. ((clientGot \o sockOut) \o Take(outbuf, k)) \o Drop(outbuf, k)
          = (clientGot \o sockOut) \o (Take(outbuf, k) \o Drop(outbuf, k))
    BY <2>3, <2>5, Assoc
  <2>7. UNCHANGED <<clientGot, outPipe, wrote>>
    BY <1>4 DEF SendSome, clientVars, childVars, pumpVars
  <2> QED
    BY <2>1, <2>3, <2>4, <2>6, <2>7
<1>5. CASE ReadChild
  <2>1. outbuf = <<>> /\ UNCHANGED <<clientGot, sockOut, wrote>>
    BY <1>5 DEF ReadChild, Held, clientVars, childVars, pumpVars
  <2>2. PICK k \in 1 .. Least(Len(outPipe), IoBuf) :
             outbuf' = Take(outPipe, k) /\ outPipe' = Drop(outPipe, k)
    BY <1>5 DEF ReadChild
  <2>3. k \in 0 .. Len(outPipe)
    BY <1>0, <2>2, SizesAssumption DEF Least
  <2>4. clientGot \o sockOut \in Seq(Nat)
    BY <1>0, Concat
  <2>5. (clientGot \o sockOut) \o <<>> = clientGot \o sockOut
    BY <2>4, ConcatEmptySeq
  <2>6. Take(outPipe, k) \in Seq(Nat) /\ Drop(outPipe, k) \in Seq(Nat)
        /\ Take(outPipe, k) \o Drop(outPipe, k) = outPipe
    BY <1>0, <2>3, Chunk
  <2>7. ((clientGot \o sockOut) \o Take(outPipe, k)) \o Drop(outPipe, k)
          = (clientGot \o sockOut) \o (Take(outPipe, k) \o Drop(outPipe, k))
    BY <2>4, <2>6, Assoc
  <2> QED
    BY <1>0, <2>1, <2>2, <2>5, <2>6, <2>7
<1>6. CASE ChildWrite
  <2>1. outPipe' = Append(outPipe, wrote + 1) /\ wrote' = wrote + 1
        /\ UNCHANGED <<clientGot, sockOut, outbuf>>
    BY <1>6 DEF ChildWrite, clientVars, childVars, pumpVars
  <2>2. (clientGot \o sockOut) \o outbuf \in Seq(Nat)
    BY <1>0, Concat
  <2>3. ((clientGot \o sockOut) \o outbuf) \o outPipe' = Iota(wrote + 1)
    BY <1>0, <2>1, <2>2, AppendLast
  <2> QED
    BY <2>1, <2>3
<1>7. CASE UNCHANGED vars
  BY <1>7, <1>1 DEF vars, clientVars, childVars, pumpVars
<1> QED
  BY <1>1, <1>2, <1>3, <1>4, <1>5, <1>6, <1>7 DEF Next, Pump, Child, Client

-----------------------------------------------------------------------------
(* The theorems. *)

(* The inductive invariant holds in every state of a session. *)
THEOREM Inductive == Spec => []IInv
<1>1. Init => IInv
  <2> SUFFICES ASSUME Init PROVE IInv
    OBVIOUS
  <2>1. Iota(0) = <<>>
    BY DEF Iota
  <2>2. <<>> \in Seq(Nat) /\ Len(<<>>) = 0 /\ <<>> \o <<>> = <<>>
    BY EmptySeq, ConcatEmptySeq
  <2>3. TypeOK
    <3>1. /\ Len(<<>>) <= SockCap /\ Len(<<>>) <= InCap /\ Len(<<>>) <= OutCap
          /\ Len(<<>>) <= IoBuf /\ 0 \in 0 .. MaxIn /\ 0 \in 0 .. MaxReply
      BY <2>2, SizesAssumption
    <3>2. <<>> \in Seq(Nat)
      BY <2>2
    <3> QED
      BY <3>1, <3>2 DEF Init, TypeOK, Positions
  <2>4. Held /\ EofInv /\ DrainedInv
    BY DEF Init, Held, EofInv, DrainedInv
  <2>5. InputIntact /\ OutputIntact
    BY <2>1, <2>2 DEF Init, InputIntact, OutputIntact
  <2> QED
    BY <2>3, <2>4, <2>5 DEF IInv
<1>2. IInv /\ [Next]_vars => IInv'
  BY TypeStep, HeldStep, EofStep, DrainedStep, InputStep, OutputStep DEF IInv
<1> QED
  BY <1>1, <1>2, PTL DEF Spec

(* Every buffer and pipe stays within its capacity (TypeOK): the clamp of  *)
(* ReadFile to sizeof(outbuf), recv to sizeof(raw).                        *)
THEOREM TypeCorrect == Spec => []TypeOK
<1>1. IInv => TypeOK
  BY DEF IInv
<1> QED
  BY <1>1, Inductive, PTL

(* No byte of input is lost, repeated or reordered (recv, write_all). *)
THEOREM InputConserved == Spec => []InputIntact
<1>1. IInv => InputIntact
  BY DEF IInv
<1> QED
  BY <1>1, Inductive, PTL

(* No byte of output is lost, repeated or reordered (ReadFile, send_all). *)
THEOREM OutputConserved == Spec => []OutputIntact
<1>1. IInv => OutputIntact
  BY DEF IInv
<1> QED
  BY <1>1, Inductive, PTL

(* The shell's end-of-file follows all of the client's bytes (recv = 0     *)
(* closes in_wr only when nothing is pending).                             *)
THEOREM EofIsLast == Spec => []EofAfterAllInput
<1>1. IInv => EofAfterAllInput
  <2> SUFFICES ASSUME IInv, stdinEof, childEof PROVE childGot = Iota(sent)
    BY DEF EofAfterAllInput
  <2>1. inPipe = <<>> /\ clean = <<>> /\ sockIn = <<>> /\ childGot \in Seq(Nat)
    BY DEF IInv, EofInv, TypeOK
  <2> QED
    BY <2>1, ConcatEmptySeq DEF IInv, InputIntact
<1> QED
  BY <1>1, Inductive, PTL

(* A session ended by "child gone and its pipe drained" has sent all of    *)
(* the shell's output.                                                     *)
THEOREM DrainedIsSent == Spec => []DrainedMeansSent
<1>1. IInv => DrainedMeansSent
  <2> SUFFICES ASSUME IInv, why = "drained" PROVE clientGot \o sockOut = Iota(wrote)
    BY DEF DrainedMeansSent
  <2>1. /\ outbuf = <<>> /\ outPipe = <<>>
        /\ clientGot \in Seq(Nat) /\ sockOut \in Seq(Nat)
    BY DEF IInv, DrainedInv, TypeOK
  <2>2. clientGot \o sockOut \in Seq(Nat)
    BY <2>1, Concat
  <2> QED
    BY <2>1, <2>2, ConcatEmptySeq DEF IInv, OutputIntact
<1> QED
  BY <1>1, Inductive, PTL

(* Only a stop request, the shell's end or the client's leaving makes the  *)
(* pump leave its loop (StaysForListener).                                 *)
THEOREM ListenerServed == Spec => StaysForListener
<1>1. ASSUME TypeOK, [Next]_vars, pc # "close", pc' = "close", client # "gone"
      PROVE  gStop \/ child # "up"
  <2>1. SendFails \/ RecvError \/ WriteFails \/ TurnEnd
    BY <1>1 DEF vars, pumpVars, Next, Pump, Child, Client, Start, StartFails, ReadChild,
       SendSome, LoopTurn, SelectTimeout, Recv, RecvEof, WriteSome, CloseStdin, Reap,
       ChildRead, ChildWrite, ChildSeesEof, ChildExit, ClientSend, ClientRead,
       ClientHalfClose, ClientClose, ServiceStop
  <2> QED
    BY <1>1, <2>1 DEF SendFails, RecvError, WriteFails, TurnEnd
<1>2. TypeOK /\ [Next]_vars =>
        [(pc # "close" /\ pc' = "close" /\ client # "gone") => (gStop \/ child # "up")]_vars
  BY <1>1
<1> QED
  BY <1>2, TypeCorrect, PTL DEF Spec, StaysForListener

-----------------------------------------------------------------------------
(* Refinement. *)

(* What the shell has read is an initial part of what was sent ... *)
InPrefix == childGot = Iota(Len(childGot)) /\ Len(childGot) \in 0 .. sent

(* ... and what is on its way to the client, of what the shell wrote. *)
OutPrefix == /\ clientGot \o sockOut = Iota(Len(clientGot \o sockOut))
             /\ Len(clientGot \o sockOut) \in 0 .. wrote

(* Both follow from the conservation laws. *)
LEMMA InputPrefix ==
  ASSUME TypeOK, InputIntact
  PROVE  InPrefix
<1>1. /\ childGot \in Seq(Nat) /\ inPipe \in Seq(Nat) /\ clean \in Seq(Nat)
      /\ sockIn \in Seq(Nat) /\ sent \in Nat
  BY DEF TypeOK
<1>2. childGot \o inPipe \in Seq(Nat)
  BY <1>1, Concat
<1>3. clean \o sockIn \in Seq(Nat)
  BY <1>1, Concat
<1>4. ((childGot \o inPipe) \o clean) \o sockIn = (childGot \o inPipe) \o (clean \o sockIn)
  BY <1>1, <1>2, Assoc
<1>5. (childGot \o inPipe) \o (clean \o sockIn) = childGot \o (inPipe \o (clean \o sockIn))
  <2>1. childGot \in Seq(Nat) /\ inPipe \in Seq(Nat)
    BY <1>1
  <2> QED
    BY <2>1, <1>3, Assoc
<1>6. inPipe \o (clean \o sockIn) \in Seq(Nat)
  BY <1>1, <1>3, Concat
<1>7. childGot \o (inPipe \o (clean \o sockIn)) = Iota(sent)
  BY <1>4, <1>5 DEF InputIntact
<1> QED
  BY <1>1, <1>6, <1>7, PrefixOfIota DEF InPrefix

LEMMA OutputPrefix ==
  ASSUME TypeOK, OutputIntact
  PROVE  OutPrefix
<1>1. /\ clientGot \in Seq(Nat) /\ sockOut \in Seq(Nat) /\ outbuf \in Seq(Nat)
      /\ outPipe \in Seq(Nat) /\ wrote \in Nat
  BY DEF TypeOK
<1>2. clientGot \o sockOut \in Seq(Nat)
  BY <1>1, Concat
<1>3. outbuf \o outPipe \in Seq(Nat)
  BY <1>1, Concat
<1>4. ((clientGot \o sockOut) \o outbuf) \o outPipe = (clientGot \o sockOut) \o (outbuf \o outPipe)
  BY <1>1, <1>2, Assoc
<1>5. (clientGot \o sockOut) \o (outbuf \o outPipe) = Iota(wrote)
  BY <1>4 DEF OutputIntact
<1> QED
  BY <1>1, <1>2, <1>3, <1>5, PrefixOfIota DEF OutPrefix

(* A step of the session is a step of ByteRelay or leaves it unchanged. *)
LEMMA RelayStep ==
  ASSUME IInv, IInv', InPrefix', OutPrefix', [Next]_vars
  PROVE  [Relay!RelayNext]_(Relay!relayVars)
<1>1. /\ Relay!Iota(sent) = Iota(sent) /\ Relay!Iota(wrote) = Iota(wrote)
      /\ \A n \in Nat : Relay!Iota(n) = Iota(n)
  BY DEF Relay!Iota, Iota
<1>2. /\ TypeOK /\ Held /\ EofInv /\ DrainedInv /\ InputIntact /\ OutputIntact
      /\ TypeOK' /\ InputIntact' /\ OutputIntact'
  BY DEF IInv
<1>a. /\ childGot \in Seq(Nat) /\ inPipe \in Seq(Nat) /\ clean \in Seq(Nat)
      /\ sockIn \in Seq(Nat) /\ sent \in Nat /\ clientGot \in Seq(Nat)
      /\ sockOut \in Seq(Nat) /\ outbuf \in Seq(Nat) /\ outPipe \in Seq(Nat)
      /\ wrote \in Nat
  BY <1>2 DEF TypeOK
<1>b. /\ childGot' \in Seq(Nat) /\ inPipe' \in Seq(Nat) /\ clean' \in Seq(Nat)
      /\ sockIn' \in Seq(Nat) /\ sent' \in Nat /\ clientGot' \in Seq(Nat)
      /\ sockOut' \in Seq(Nat) /\ outbuf' \in Seq(Nat) /\ outPipe' \in Seq(Nat)
      /\ wrote' \in Nat
  BY <1>2 DEF TypeOK
<1>3. ASSUME UNCHANGED <<sent, wrote, childGot, clientGot, sockOut, stdinEof, childEof>>,
             (why = "drained") = (why = "drained")'
      PROVE  UNCHANGED Relay!relayVars
  BY <1>3 DEF Relay!relayVars
<1>4. CASE \/ Start \/ StartFails \/ ReadChild \/ SendFails \/ LoopTurn \/ SelectTimeout
           \/ Recv \/ RecvError \/ WriteSome \/ WriteFails \/ CloseStdin \/ Reap
           \/ ChildExit \/ ClientHalfClose \/ ClientClose \/ ServiceStop \/ UNCHANGED vars
  BY <1>2, <1>3, <1>4 DEF Start, StartFails, ReadChild, SendFails, LoopTurn,
     SelectTimeout,
     Recv, RecvError, WriteSome, WriteFails, CloseStdin, Reap, ChildExit, ClientHalfClose,
     ClientClose, ServiceStop, vars, clientVars, childVars, pumpVars, DrainedInv
<1>5. CASE ClientSend
  <2>1. ~stdinEof
    BY <1>2, <1>5 DEF ClientSend, EofInv
  <2>2. Relay!Send
    BY <1>5, <2>1 DEF ClientSend, clientVars, childVars, pumpVars, Relay!Send
  <2> QED
    BY <2>2 DEF Relay!RelayNext
<1>6. CASE ChildWrite
  <2>1. why # "drained"
    BY <1>2, <1>6 DEF ChildWrite, DrainedInv
  <2>2. Relay!Write
    BY <1>6, <2>1 DEF ChildWrite, clientVars, childVars, pumpVars, Relay!Write
  <2> QED
    BY <2>2 DEF Relay!RelayNext
<1>7. CASE ChildRead
  <2>1. ~childEof
    BY <1>2, <1>7 DEF ChildRead, EofInv
  <2>2. /\ childGot \in Seq(Nat) /\ childGot' \in Seq(Nat) /\ sent' = sent
        /\ Len(childGot') = Len(childGot) + 1
    BY <1>a, <1>b, <1>7, HeadTailProperties, AppendProperties
       DEF ChildRead, clientVars, childVars, pumpVars
  <2>3. childGot' = Iota(Len(childGot')) /\ Len(childGot') \in 0 .. sent'
    BY DEF InPrefix
  <2>4. \E n \in Len(childGot) + 1 .. sent : childGot' = Relay!Iota(n)
    BY <1>1, <2>2, <2>3
  <2>5. Relay!PassToChild
    BY <1>7, <2>1, <2>4 DEF ChildRead, clientVars, childVars, pumpVars,
       Relay!PassToChild
  <2> QED
    BY <2>5 DEF Relay!RelayNext
<1>8. CASE SendSome
  <2>1. PICK k \in 1 .. Least(Len(outbuf), SockCap - Len(sockOut)) :
             sockOut' = sockOut \o Take(outbuf, k)
    BY <1>8 DEF SendSome
  <2>2. k \in 0 .. Len(outbuf) /\ k > 0
    BY <1>a, <2>1, SizesAssumption DEF Least
  <2>3. Len(sockOut') = Len(sockOut) + k
    <3>1. Take(outbuf, k) \in Seq(Nat) /\ Len(Take(outbuf, k)) = k
      BY <1>a, <2>2, Chunk
    <3>2. sockOut \in Seq(Nat)
      BY <1>a
    <3>3. Len(sockOut \o Take(outbuf, k)) = Len(sockOut) + Len(Take(outbuf, k))
      BY <3>1, <3>2, Concat
    <3> QED
      BY <2>1, <3>1, <3>3
  <2>4. Len(clientGot') = Len(clientGot) /\ clientGot' = clientGot /\ wrote' = wrote
    BY <1>8 DEF SendSome, clientVars, childVars
  <2>5. /\ Len(clientGot \o sockOut) = Len(clientGot) + Len(sockOut)
        /\ Len(clientGot' \o sockOut') = Len(clientGot') + Len(sockOut')
    BY <1>a, <1>b, Concat
  <2>6. /\ clientGot' \o sockOut' = Iota(Len(clientGot' \o sockOut'))
        /\ Len(clientGot' \o sockOut') \in 0 .. wrote'
    BY DEF OutPrefix
  <2>7. Len(clientGot) \in Nat /\ Len(sockOut) \in Nat
    BY <1>a
  <2>8. Len(clientGot' \o sockOut') \in Len(clientGot \o sockOut) + 1 .. wrote
    BY <2>2, <2>3, <2>4, <2>5, <2>6, <2>7
  <2>9. \E n \in Len(clientGot \o sockOut) + 1 .. wrote :
            clientGot' \o sockOut' = Relay!Iota(n)
    <3>1. Len(clientGot' \o sockOut') \in Nat
      BY <1>b, <2>6
    <3> QED
      BY <1>1, <2>6, <2>8, <3>1
  <2>10. Relay!PassToClient
    BY <1>8, <2>9 DEF SendSome, clientVars, childVars, Relay!PassToClient
  <2> QED
    BY <2>10 DEF Relay!RelayNext
<1>9. CASE ClientRead
  <2>1. clientGot' \o sockOut' = clientGot \o sockOut
    <3>1. clientGot \in Seq(Nat) /\ sockOut \in Seq(Nat)
      BY <1>2 DEF TypeOK
    <3>2. sockOut # <<>> /\ clientGot' = Append(clientGot, Head(sockOut)) /\ sockOut' = Tail(sockOut)
      BY <1>9 DEF ClientRead
    <3> QED
      BY <3>1, <3>2, MoveHead
  <2> QED
    BY <1>9, <2>1 DEF ClientRead, childVars, pumpVars, Relay!relayVars
<1>10. CASE RecvEof
  <2>1. ~childEof /\ ~stdinEof
    BY <1>2, <1>10 DEF RecvEof, EofInv
  <2> QED
    BY <1>10, <2>1 DEF RecvEof, clientVars, childVars, Relay!relayVars
<1>11. CASE ChildSeesEof
  <2>1. CASE stdinEof
    <3>1. childGot' = Iota(sent')
      <4>1. childEof' /\ stdinEof' /\ inPipe' = <<>> /\ clean' = <<>> /\ sockIn' = <<>>
        BY <1>2, <1>11, <2>1 DEF ChildSeesEof, clientVars, childVars, pumpVars, EofInv
      <4> QED
        BY <1>2, <4>1, ConcatEmptySeq DEF TypeOK, InputIntact
    <3>2. Relay!SignalEof
      BY <1>1, <1>11, <2>1, <3>1
         DEF ChildSeesEof, clientVars, childVars, pumpVars, Relay!SignalEof
    <3> QED
      BY <3>2 DEF Relay!RelayNext
  <2>2. CASE ~stdinEof
    BY <1>11, <2>2 DEF ChildSeesEof, clientVars, childVars, pumpVars, Relay!relayVars
  <2> QED
    BY <2>1, <2>2
<1>12. CASE TurnEnd
  <2>1. why # "drained"
    BY <1>2, <1>12 DEF TurnEnd, DrainedInv
  <2>2. CASE why' = "drained"
    <3>1. clientGot \o sockOut = Iota(wrote)
      <4>1. outPipe = <<>> /\ outbuf = <<>>
        BY <1>2, <1>12, <2>1, <2>2 DEF TurnEnd, Held
      <4>2. clientGot \o sockOut \in Seq(Nat)
        BY <1>2, Concat DEF TypeOK
      <4> QED
        BY <1>2, <4>1, <4>2, ConcatEmptySeq DEF OutputIntact
    <3>2. Relay!Complete
      BY <1>1, <1>12, <2>2, <3>1 DEF TurnEnd, clientVars, childVars, Relay!Complete
    <3> QED
      BY <3>2 DEF Relay!RelayNext
  <2>3. CASE why' # "drained"
    BY <1>3, <1>12, <2>1, <2>3 DEF TurnEnd, clientVars, childVars
  <2> QED
    BY <2>2, <2>3
<1> QED
  BY <1>4, <1>5, <1>6, <1>7, <1>8, <1>9, <1>10, <1>11, <1>12 DEF Next, Pump, Child,
     Client

(* serve_conn implements the lossless relay of ByteRelay, whatever the     *)
(* chunking, the pipe sizes and the moment either side leaves.             *)
THEOREM ImplementsRelay == Spec => RelaySpec
<1>1. Init => Relay!RelayInit
  <2> SUFFICES ASSUME Init PROVE Relay!RelayInit
    OBVIOUS
  <2>1. <<>> \o <<>> = <<>>
    BY EmptySeq, ConcatEmptySeq
  <2> QED
    BY <2>1 DEF Init, Relay!RelayInit
<1>2. IInv => InPrefix /\ OutPrefix
  BY InputPrefix, OutputPrefix DEF IInv
<1>3. IInv /\ IInv' /\ InPrefix' /\ OutPrefix' /\ [Next]_vars
        => [Relay!RelayNext]_(Relay!relayVars)
  BY RelayStep
<1> QED
  BY <1>1, <1>2, <1>3, Inductive, PTL DEF Spec, RelaySpec, Relay!RelaySpec

-----------------------------------------------------------------------------
(* The accept loop and the service around it, for any number of connections. *)

Flags == stop \in BOOLEAN /\ overlap \in BOOLEAN

(* While the two threads of the service never met in report_status, no     *)
(* control handler runs once the main thread writes its last status.  If   *)
(* they met there was a stop, and each of them leaves one of two words.    *)
LastWord ==
  /\ (daemon["service"] = "written" /\ ~overlap) => state = "stopped" /\ ctrl = "idle"
  /\ (daemon["service"] \in {"ended", "gone"} /\ ~overlap) =>
       scm = "stopped" /\ ctrl = "idle"
  /\ (daemon["service"] \in {"written", "ended", "gone"} \/ ctrl = "written") =>
       state \in {"stop_pending", "stopped"}
  /\ daemon["service"] \in {"ended", "gone"} => scm \in {"stopped", "stop_pending"}
  /\ daemon["service"] = "gone" => scm = "stopped" /\ ctrl = "idle"
  /\ (overlap \/ ctrl # "idle") => stop
  /\ daemon["service"] \in {"off", "register", "mute"} => ~stop
  /\ daemon["service"] \in {"register", "mute"} => scm = "start_pending"

(* No state is reported before one was written. *)
Written ==
  (scm = "running" \/ ctrl # "idle" \/ daemon["service"] = "written") => state # "none"

ServerInv == ServerTypeOK /\ Written /\ LastWord

(* The invariant of the server initially. *)
LEMMA ServerInitially == ServerInit => ServerInv
<1> SUFFICES ASSUME ServerInit PROVE ServerInv
  OBVIOUS
<1>1. Flags
  BY DEF ServerInit, Flags
<1> QED
  BY <1>1, ClientsAssumption DEF ServerInit, ServerInv, ServerTypeOK, Written, LastWord,
     Flags, Daemons, Backlog

(* The two flags stay flags. *)
LEMMA FlagsKept ==
  ASSUME Flags, [ServerNext]_serverVars
  PROVE  Flags'
<1> USE DEF Flags, StatusKept
<1>1. CASE Service \/ Ctrl \/ StopAsked
  BY <1>1 DEF Service, Registers, Writes, Reports, Exits, Ctrl, CtrlWrites, CtrlReports,
     StopAsked
<1>2. ASSUME NEW d \in Daemons, Starts(d) \/ Daemon(d) \/
   SelectFails(d) \/ HangsUp(d) \/ Streams(d) \/ Connects(d)
      PROVE  Flags'
  BY <1>2 DEF Starts, Daemon, Binds, Closes, Turn, StopSeen, SelectFails, HangsUp,
     Streams, Connects
<1>3. CASE UNCHANGED serverVars
  BY <1>3 DEF serverVars
<1> QED
  BY <1>1, <1>2, <1>3 DEF ServerNext

(* Types are kept. *)
LEMMA ServerTypes ==
  ASSUME ServerTypeOK, Written, Flags', [ServerNext]_serverVars
  PROVE  ServerTypeOK'
<1> USE DEF ServerTypeOK, Written, Flags, Backlog, Daemons, Goto,
   StatusKept, LoopKept
<1>1. CASE Registers \/ Exits
  BY <1>1 DEF Registers, Exits
<1>2. CASE Writes \/ Reports
  BY <1>2 DEF Writes, Reports
<1>9. CASE Ctrl \/ StopAsked
  <2>1. stop' \in BOOLEAN /\ overlap' \in BOOLEAN
    OBVIOUS
  <2>2. UNCHANGED <<waiting, session, made, daemon>>
    BY <1>9 DEF Ctrl, CtrlWrites, CtrlReports, StopAsked
  <2>3. /\ ctrl' \in {"idle", "set", "written"}
        /\ state' \in {"none", "running", "stop_pending", "stopped"}
        /\ scm' \in {"stopped", "start_pending", "running", "stop_pending"}
    BY <1>9 DEF Ctrl, CtrlWrites, CtrlReports, StopAsked
  <2> QED
    BY <2>1, <2>2, <2>3
<1>3. ASSUME NEW d \in Daemons, Starts(d) PROVE ServerTypeOK'
  BY <1>3 DEF Starts
<1>4. ASSUME NEW d \in Daemons, Binds(d) \/ Closes(d) \/
               SelectFails(d)
      PROVE ServerTypeOK'
  BY <1>4 DEF Binds, Closes, SelectFails, Leave
<1>5. ASSUME NEW d \in Daemons, Turn(d) PROVE ServerTypeOK'
  BY <1>5 DEF Turn
<1>6. ASSUME NEW d \in Daemons, StopSeen(d) \/ HangsUp(d)
      PROVE ServerTypeOK'
  BY <1>6 DEF StopSeen, HangsUp, SessionEnd
<1>7. ASSUME NEW d \in Daemons, Streams(d) \/ Connects(d)
      PROVE ServerTypeOK'
  BY <1>7, ClientsAssumption DEF Streams, Connects, Listening
<1>8. CASE UNCHANGED serverVars
  BY <1>8 DEF serverVars
<1> QED
  BY <1>1, <1>2, <1>3, <1>4, <1>5, <1>6, <1>7, <1>8, <1>9
  DEF ServerNext, Daemon, Service

(* The order of the reports is kept. *)
LEMMA ServerWords ==
  ASSUME ServerTypeOK, Written, LastWord, [ServerNext]_serverVars
  PROVE  Written' /\ LastWord'
<1> USE DEF ServerTypeOK, Written, LastWord, Daemons, Goto,
   StatusKept, LoopKept
<1>1. CASE Service
  <2>1. CASE Registers
    BY <2>1 DEF Registers
  <2>2. CASE Writes
    BY <2>2 DEF Writes
  <2>3. CASE Reports
    BY <2>3 DEF Reports
  <2>4. CASE Exits
    BY <2>4 DEF Exits
  <2> QED
    BY <1>1, <2>1, <2>2, <2>3, <2>4 DEF Service
<1>2. CASE Ctrl \/ StopAsked
  BY <1>2 DEF Ctrl, CtrlWrites, CtrlReports, StopAsked, Alive
<1>3. ASSUME NEW d \in Daemons, Starts(d) PROVE Written' /\ LastWord'
  BY <1>3 DEF Starts
<1>4. ASSUME NEW d \in Daemons, Binds(d) \/ Closes(d) \/
               SelectFails(d)
      PROVE Written' /\ LastWord'
  BY <1>4 DEF Binds, Closes, SelectFails, Leave
<1>5. ASSUME NEW d \in Daemons, Turn(d) PROVE Written' /\ LastWord'
  BY <1>5 DEF Turn
<1>6. ASSUME NEW d \in Daemons, StopSeen(d) \/ HangsUp(d)
      PROVE Written' /\ LastWord'
  BY <1>6 DEF StopSeen, HangsUp, SessionEnd
<1>7. ASSUME NEW d \in Daemons, Streams(d) \/ Connects(d)
      PROVE Written' /\ LastWord'
  BY <1>7 DEF Streams, Connects
<1>8. CASE UNCHANGED serverVars
  BY <1>8 DEF serverVars
<1> QED
  BY <1>1, <1>2, <1>3, <1>4, <1>5, <1>6, <1>7, <1>8 DEF ServerNext, Daemon

(* The invariant of the server. *)
LEMMA ServerInductive == ServerSpec => []ServerInv
<1>1. ServerInv /\ [ServerNext]_serverVars => ServerInv'
  <2> SUFFICES ASSUME ServerInv, [ServerNext]_serverVars PROVE ServerInv'
    OBVIOUS
  <2>1. Flags'
    BY FlagsKept DEF ServerInv, ServerTypeOK, Flags
  <2> QED
    BY <2>1, ServerTypes, ServerWords DEF ServerInv
<1> QED
  BY ServerInitially, <1>1, PTL DEF ServerSpec

(* Types, and no backlog beyond its bound. *)
THEOREM ServerTypeCorrect == ServerSpec => []ServerTypeOK
  BY ServerInductive, PTL DEF ServerInv

(* However a service ends, the manager knows that it stopped, but for a    *)
(* last word of STOP_PENDING after two threads reported at once, and for a *)
(* start without a handle, which is never reported.                        *)
THEOREM EndIsStopped == ServerSpec => []EndMeansStopped
<1>1. ServerInv => EndMeansStopped
  BY DEF ServerInv, LastWord, EndMeansStopped
<1> QED
  BY ServerInductive, <1>1, PTL
=============================================================================
