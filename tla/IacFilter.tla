------------------------------ MODULE IacFilter ------------------------------
(***************************************************************************)
(* serve_conn's inbound direction (files/anyvmtd.c): every recv hands a    *)
(* chunk of arbitrary size to iac_filter, which strips the telnet commands *)
(* and remembers in carry what the end of the chunk cut in half.           *)
(***************************************************************************)
EXTENDS TelnetCodec

CONSTANTS Sent,    \* the byte values the client sends
          Length,  \* how many bytes it sends (bound)
          IoBuf    \* the most one recv returns

ASSUME FilterAssumption ==
  Sent \subseteq Bytes /\ Length \in Nat /\ IoBuf \in Nat \ {0}

VARIABLES received,  \* every byte received so far
          plain,     \* what has been passed on to the shell's stdin
          replies,   \* refusals sent back
          carry,     \* iac_carry
          seSplit    \* a chunk ended between the IAC and the SE of a subnegotiation

vars == <<received, plain, replies, carry, seSplit>>

Init == /\ received = <<>> /\ plain = <<>> /\ replies = <<>> /\ carry = <<>>
        /\ seSplit = FALSE

Chunks == UNION {[1 .. n -> Sent] : n \in 1 .. IoBuf}

Recv(chunk) ==
  LET in == carry \o chunk
      r  == Filter(in)
  IN
  /\ Len(received) + Len(chunk) <= Length
  /\ received' = received \o chunk
  /\ plain' = plain \o r.plain
  /\ replies' = replies \o r.replies
  /\ carry' = r.carry
  /\ seSplit' = (seSplit \/ (r.carry = <<"IAC", "SB">> /\ chunk[Len(chunk)] = "IAC"))

Next == \E chunk \in Chunks : Recv(chunk)

Spec == Init /\ [][Next]_vars

(* What the shell gets and what the client is told do not depend on where  *)
(* the recv boundaries fall, unless one separates the IAC and the SE that  *)
(* end a subnegotiation.                                                   *)
ChunkingInvisible ==
  ~seSplit => LET whole == Filter(received) IN
              plain = whole.plain /\ replies = whole.replies

(* `out` "must be at least `len` bytes", and serve_conn gives it IO_BUF:   *)
(* even with the held bytes in front, a call never produces more plain     *)
(* bytes than recv returned.  What it holds back fits the four bytes of    *)
(* iac_carry, so that it fits the joined buffer with the next chunk.       *)
OutputFits ==
  [][/\ Len(plain') - Len(plain) <= Len(received') - Len(received)
     /\ Len(carry') <= 4]_vars
=============================================================================
