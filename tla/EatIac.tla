-------------------------------- MODULE EatIac --------------------------------
(***************************************************************************)
(* telnet_exec's inbound direction (build.py): the guest's telnetd sends   *)
(* escaped shell output and option negotiation; the host takes whatever    *)
(* recv(4096) returns and runs _telnet_eat_iac over that buffer alone.     *)
(***************************************************************************)
EXTENDS TelnetCodec

CONSTANTS Printed,  \* the byte values the guest's shell prints
          Units,    \* how many things the guest sends (bound)
          RecvMax   \* the most one recv returns

ASSUME HostAssumption ==
  Printed \subseteq Bytes /\ Units \in Nat /\ RecvMax \in Nat \ {0}

VARIABLES printed,  \* the shell's output
          offers,   \* options the guest has offered or asked for
          units,    \* how many things the guest has sent
          wire,     \* sent and not yet received
          heard,    \* every byte received so far
          text,     \* `out`, the transcript
          answers,  \* refusals the host has sent
          cut       \* some recv ended in the middle of a telnet sequence

hostVars == <<printed, offers, units, wire, heard, text, answers, cut>>

HostInit == /\ printed = <<>> /\ offers = <<>> /\ units = 0
            /\ wire = <<>> /\ heard = <<>>
            /\ text = <<>> /\ answers = <<>> /\ cut = FALSE

(* The guest prints a byte of output ... *)
Output(b) == /\ units < Units /\ units' = units + 1
             /\ printed' = Append(printed, b)
             /\ wire' = wire \o Escape(<<b>>)
             /\ UNCHANGED <<offers, heard, text, answers, cut>>

(* ... or a command: an option, a subnegotiation, a bare command. *)
Negotiate(seq) == /\ units < Units /\ units' = units + 1
                  /\ wire' = wire \o seq
                  /\ offers' = offers \o Refusal(seq[2])
                  /\ UNCHANGED <<printed, heard, text, answers, cut>>

Commands == {<<"IAC", c, "x">> : c \in Negotiation}
              \cup {<<"IAC", "SB", "x", "IAC", "SE">>, <<"IAC", "NOP">>}

HostRecv(n) ==
  LET chunk == SubSeq(wire, 1, n)
      r     == Eat(chunk)
  IN
  /\ wire' = SubSeq(wire, n + 1, Len(wire))
  /\ heard' = heard \o chunk
  /\ text' = text \o r.plain
  /\ answers' = answers \o r.replies
  /\ cut' = (cut \/ Filter(heard').carry # <<>>)
  /\ UNCHANGED <<printed, offers, units>>

ReceiveSome == \E n \in 1 .. RecvMax : n <= Len(wire) /\ HostRecv(n)

HostNext == \/ \E b \in Printed : Output(b)
            \/ \E seq \in Commands : Negotiate(seq)
            \/ ReceiveSome

HostSpec == HostInit /\ [][HostNext]_hostVars

Initial(s, t) == Len(s) <= Len(t) /\ s = SubSeq(t, 1, Len(s))

(* While no recv has ended inside a telnet sequence, the transcript is the *)
(* shell's output, 0xFF bytes and negotiation included: nothing of a       *)
(* command shows up as text, no data byte is taken for a command.  And     *)
(* every offer, nothing else, is answered, once, in order, by a refusal.   *)
ConversationIntact ==
  ~cut => /\ Initial(text, printed) /\ Initial(answers, offers)
          /\ wire = <<>> => text = printed /\ answers = offers
=============================================================================
