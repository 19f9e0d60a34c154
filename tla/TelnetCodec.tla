----------------------------- MODULE TelnetCodec -----------------------------
(***************************************************************************)
(* The three telnet conversions of the channel, as functions of one buffer:*)
(*   Filter  iac_filter of files/anyvmtd.c (what the daemon receives)      *)
(*   Escape  send_iac_escaped of files/anyvmtd.c (what the daemon sends)   *)
(*   Eat     _telnet_eat_iac of build.py (what the host receives)          *)
(* A byte is its role in the protocol; "x" and "NOP" stand for the others. *)
(* A turn of each one's loop consumes a token: it yields some bytes, some  *)
(* replies and some bytes to hold back, and moves to the next position.    *)
(***************************************************************************)
EXTENDS Naturals, Sequences

Negotiation == {"DO", "DONT", "WILL", "WONT"}
Bytes == Negotiation \cup {"IAC", "SB", "SE", "NOP", "x"}

Nothing == [plain |-> <<>>, replies |-> <<>>, carry |-> <<>>]

Then(a, b) == [plain   |-> a.plain \o b.plain,
               replies |-> a.replies \o b.replies,
               carry   |-> a.carry \o b.carry]

Token(next, plain, replies, carry) ==
  [next |-> next, plain |-> plain, replies |-> replies, carry |-> carry]
Data(next, plain) == Token(next, plain, <<>>, <<>>)
Skip(next) == Data(next, <<>>)

(* What the loop yields from each position on, given the token there. *)
Parse(token) ==
  LET From[i \in 1 .. Len(token) + 1] ==
        IF i > Len(token) THEN Nothing ELSE Then(token[i], From[token[i].next])
  IN  From

-----------------------------------------------------------------------------
(* Where the IAC SE of a subnegotiation that starts at i may be. *)
SbEnds(in, i) ==
  {j \in i + 2 .. Len(in) - 1 : in[j] = "IAC" /\ in[j + 1] = "SE"}

FirstOf(S) == CHOOSE j \in S : \A k \in S : j <= k

HeldNone(in, i) == <<>>
HeldTooMuch(in, i) == SubSeq(in, IF i = 1 THEN 1 ELSE i - 1, i)

(* What iac_filter keeps of a sequence at i that the buffer cuts short: the *)
(* IAC and, if it is there, the command.                                    *)
Held(in, i) == IF i = Len(in) THEN <<in[i]>> ELSE <<in[i], in[i + 1]>>

Cut(in, i) == \/ i = Len(in)
              \/ in[i + 1] = "SB" /\ SbEnds(in, i) = {}
              \/ in[i + 1] \in Negotiation /\ i + 2 > Len(in)

FilterToken(in, i) ==
  IF in[i] # "IAC" THEN Data(i + 1, <<in[i]>>)
  ELSE IF Cut(in, i) THEN Token(Len(in) + 1, <<>>, <<>>, Held(in, i))
  ELSE CASE in[i + 1] = "IAC" -> Data(i + 2, <<"IAC">>)
         [] in[i + 1] = "SB" -> Skip(FirstOf(SbEnds(in, i)) + 2)
         [] in[i + 1] \in {"DO", "DONT"} -> Token(i + 3, <<>>, <<"WONT">>, <<>>)
         [] in[i + 1] \in {"WILL", "WONT"} -> Token(i + 3, <<>>, <<"DONT">>, <<>>)
         [] OTHER -> Skip(i + 2)

FilterTokens(in) == [i \in 1 .. Len(in) |-> FilterToken(in, i)]
Filter(in) == Parse(FilterTokens(in))[1]

-----------------------------------------------------------------------------
EscapeNothing(out) == out

(* Every 0xFF data byte goes out doubled. *)
Doubled(b) == IF b = "IAC" THEN <<b, b>> ELSE <<b>>
Escape(out) == Parse([i \in 1 .. Len(out) |-> Data(i + 1, Doubled(out[i]))])[1].plain

-----------------------------------------------------------------------------
(* The host answers offers only, and says no. *)
Refusal(cmd) == IF cmd = "DO" THEN <<"WONT">> ELSE IF cmd = "WILL" THEN <<"DONT">> ELSE <<>>

(* No carry: a sequence that the buffer cuts is dropped (a lone IAC, an    *)
(* unfinished subnegotiation) or read as a two-byte command.               *)
EatToken(in, i) ==
  IF in[i] # "IAC" THEN Data(i + 1, <<in[i]>>)
  ELSE IF i = Len(in) THEN Skip(i + 1)
  ELSE CASE in[i + 1] = "IAC" -> Data(i + 2, <<"IAC">>)
         [] in[i + 1] = "SB" ->
              Skip(IF SbEnds(in, i) = {} THEN Len(in) + 1 ELSE FirstOf(SbEnds(in, i)) + 2)
         [] in[i + 1] \in Negotiation /\ i + 2 <= Len(in) ->
              Token(i + 3, <<>>, Refusal(in[i + 1]), <<>>)
         [] OTHER -> Skip(i + 2)

EatTokens(in) == [i \in 1 .. Len(in) |-> EatToken(in, i)]
Eat(in) == Parse(EatTokens(in))[1]
=============================================================================
