---------------------------- MODULE AnswerFileProofs ----------------------------
(***************************************************************************)
(* Proofs about AnswerFile, for answer files of any length, any screen and *)
(* any patience.                                                           *)
(***************************************************************************)
EXTENDS AnswerFile, TLAPS

USE AnswerAssumption DEF AnswerAssumption

Flags == /\ timed \in BOOLEAN /\ console \in BOOLEAN /\ lost \in BOOLEAN /\ blind \in BOOLEAN

(* The rest of TypeOK, in two parts. *)
Scalars ==
  /\ anchor \in [1 .. Lines -> 1 .. Lines]
  /\ boot \in 0 .. Boots /\ qemu \in {"up", "gone"} /\ at \in 0 .. Login
  /\ guest \in {"works", "asks", "dead", "done"}
  /\ conn \subseteq {boot} /\ drains \in {"reads", "ended", "failed"} /\ sock \in 0 .. SockCap
  /\ pc \in {"open", "poll", "keys", "settle", "launch", "check", "reroll", "up", "failed"}
  /\ line \in 1 .. Lines /\ group \in 1 .. Groups /\ left \in 0 .. Polls
  /\ got \in [1 .. Lines -> 0 .. Groups]

Texts == 0 .. Login

Logs == /\ log \in Seq(Texts) /\ Len(log) <= MaxLog /\ pos \in 0 .. MaxLog
        /\ dumped \in Seq(1 .. MaxLog) /\ first \in {"none", "short", "grown"}

(* The installer and the boots after it go through places of their own. *)
Placed ==
  /\ pc \in {"keys", "settle"} => boot = 0
  /\ pc \in {"check", "reroll", "up"} => boot > 0
  /\ pc = "launch" => boot < Boots /\ conn = {}
  /\ pc # "keys" => group = 1

(* A line is typed once. *)
Typed ==
  (boot = 0 /\ pc \in {"open", "poll", "keys"})
    => got[line] < group /\ \A i \in 1 .. Lines : i > line => got[i] = 0

(* A text on the console was printed by this boot's guest. *)
Printed ==
  \A i \in DOMAIN log : \/ log[i] = 0
                        \/ boot = 0 /\ \E j \in 1 .. at : log[i] = anchor[j]
                        \/ boot > 0 /\ at = Login

Shown == /\ boot = 0 => at <= Lines
         /\ pc = "up" => at = Login
         /\ Printed

(* With distinct anchors and no key lost, host and guest go through the    *)
(* questions together.                                                     *)
Clean == Distinct /\ ~lost

Together ==
  /\ pc \in {"open", "poll"}
       => /\ at = line \/ at = line - 1
          /\ at = line => guest \in {"asks", "dead"} /\ got[line] = 0
          /\ at # line => guest \in {"works", "dead"}
  /\ pc = "keys" => /\ at = line /\ guest \in {"asks", "dead"}
                    /\ guest = "asks" => got[line] = group - 1
  /\ pc = "settle" => at = Lines
  /\ \A i \in 1 .. Lines : i < at \/ (i = at /\ guest = "works") => got[i] = Groups

Asked ==
  /\ ~blind
  /\ boot = 0 /\ pc \in {"open", "poll", "keys", "settle"} => Together
  /\ boot > 0 \/ pc = "launch" => \A i \in 1 .. Lines - 1 : got[i] = Groups

Answered == Clean => Asked

(* Once the log was seen to be a new one, it is dumped in order, without a *)
(* gap and without a repetition.                                           *)
Upto(n) == [i \in 1 .. n |-> i]

Dumped ==
  /\ first = "none" => dumped = <<>>
  /\ first = "short" => /\ pos <= Len(log)
                        /\ console => dumped = Upto(pos)

IInv == TypeOK /\ Placed /\ Typed /\ Shown /\ Answered /\ Dumped

(* Sequences, for the log. *)
LEMMA LenNat == Logs => Len(log) \in Nat
  BY DEF Logs

LEMMA TextsAre == 0 \in Texts /\ Login \in Texts /\ \A a \in 1 .. Lines : a \in Texts
  BY DEF Texts, Login

LEMMA AppendLen ==
  ASSUME NEW S, NEW s \in Seq(S), NEW e \in S
  PROVE  /\ Append(s, e) \in Seq(S) /\ Len(Append(s, e)) = Len(s) + 1
         /\ \A i \in 1 .. Len(s) : Append(s, e)[i] = s[i]
         /\ Append(s, e)[Len(s) + 1] = e
         /\ Len(s) \in Nat /\ DOMAIN s = 1 .. Len(s)
  OBVIOUS

LEMMA EmptyLog == \A S : <<>> \in Seq(S) /\ Len(<<>>) = 0 /\ DOMAIN <<>> = {}
  OBVIOUS

(* What is dumped are numbers of lines; a dump that begins where the last  *)
(* one ended continues it.                                                 *)
LEMMA AfterIs ==
  ASSUME Logs, NEW n \in 0 .. Len(log)
  PROVE  /\ After(n) \in Seq(1 .. MaxLog) /\ Len(After(n)) = Len(log) - n
         /\ \A i \in 1 .. Len(log) - n : After(n)[i] = n + i
<1>1. Len(log) \in Nat /\ Len(log) <= MaxLog /\ Len(log) - n \in Nat
  BY LenNat DEF Logs
<1>2. \A i \in 1 .. Len(log) - n : n + i \in 1 .. MaxLog
  BY <1>1
<1> QED
  BY <1>1, <1>2 DEF After

LEMMA Concatenated ==
  ASSUME NEW S, NEW s \in Seq(S), NEW t \in Seq(S)
  PROVE  s \o t \in Seq(S)
  OBVIOUS

LEMMA UptoNone == Upto(0) = <<>>
  BY DEF Upto

LEMMA Continued ==
  ASSUME Logs, NEW n \in 0 .. Len(log)
  PROVE  Upto(n) \o After(n) = Upto(Len(log))
<1>1. Len(log) \in Nat /\ Len(log) - n \in Nat /\ n \in Nat
  BY LenNat
<1>2. Upto(n) \in Seq(Nat) /\ Len(Upto(n)) = n /\ \A i \in 1 .. n : Upto(n)[i] = i
  BY <1>1 DEF Upto
<1>3. /\ After(n) \in Seq(1 .. MaxLog) /\ Len(After(n)) = Len(log) - n
      /\ \A i \in 1 .. Len(log) - n : After(n)[i] = n + i
  BY AfterIs
<1>4. After(n) \in Seq(Nat)
  BY <1>3
<1> QED
  BY <1>1, <1>2, <1>3, <1>4 DEF Upto

LEMMA NextLine ==
  ASSUME NEW l \in 1 .. Lines, NEW m, m = l \/ (l < Lines /\ m = l + 1)
  PROVE  m \in 1 .. Lines
  OBVIOUS

(* A key group typed is the next one of its line. *)
LEMMA NextPress ==
  ASSUME NEW g \in 1 .. Groups, NEW f \in [1 .. Lines -> 0 .. Groups],
         NEW l \in 1 .. Lines, f[l] < g
  PROVE  f[l] + 1 \in 0 .. Groups
  BY DEF Groups

LEMMA ExceptType ==
  ASSUME NEW D, NEW R, NEW f \in [D -> R], NEW x \in D, NEW e \in R
  PROVE  [f EXCEPT ![x] = e] \in [D -> R]
  OBVIOUS

(* A full connection takes no line. *)
LEMMA RoomLeft ==
  ASSUME Scalars, NEW text, Writes(text)
  PROVE  sock' \in 0 .. SockCap
  BY DEF Scalars, Writes

(* Booleans. *)
LEMMA FlagsStep ==
  ASSUME Flags, [Next]_vars
  PROVE  Flags'
<1> USE DEF Flags, Goto,
      HostStill, fileVars, guestVars, sessVars, hostVars, dumpVars
<1>1. CASE Asks
  BY <1>1 DEF Asks, Writes, Connected
<1>2. CASE LogsIn
  BY <1>2 DEF LogsIn, Writes, Connected
<1>3. CASE Chatters
  BY <1>3 DEF Chatters, Writes, Connected
<1>4. CASE Installs \/ Dies \/ Exits
  BY <1>4 DEF Installs, Dies, Exits
<1>5. CASE Drain
  BY <1>5 DEF Drain
<1>6. CASE Open
  BY <1>6 DEF Open, Close
<1>7. CASE Poll
  BY <1>7 DEF Poll, Dump, FirstLook, OnScreen, Anchor, Bounded
<1>8. CASE Type
  BY <1>8 DEF Type, SendFails, Arrives, Vanishes
<1>9. CASE GiveUp \/ Settle
  BY <1>9 DEF GiveUp, Settle, Close
<1>10. CASE Launch
  BY <1>10 DEF Launch, Placed
<1>11. CASE LoginTimeout \/ Check
  BY <1>11 DEF LoginTimeout, Check, OnScreen
<1>12. CASE Reroll
  BY <1>12 DEF Reroll, Close
<1>13. CASE UNCHANGED vars
  BY <1>13 DEF vars
<1> QED
  BY <1>1, <1>2, <1>3, <1>4, <1>5, <1>6, <1>7, <1>8, <1>9, <1>10, <1>11, <1>12, <1>13
  DEF Next, Guest, Host

(* Types. *)
LEMMA ScalarsStep ==
  ASSUME Flags, Flags', Scalars, Placed, Typed, [Next]_vars
  PROVE  Scalars'
<1> USE DEF Flags, Scalars, Login, Groups, Boots, Goto,
      HostStill, fileVars, guestVars, sessVars, hostVars, dumpVars
<1>1. CASE Asks
  <2>1. sock' \in 0 .. SockCap
    BY <1>1, RoomLeft DEF Asks
  <2>2. UNCHANGED <<anchor, boot, qemu, got, conn, drains, pc, line, group, left>>
    BY <1>1 DEF Asks
  <2>3. at' \in 0 .. Login /\ guest' \in {"works", "asks", "dead", "done"}
    BY <1>1 DEF Asks, Writes
  <2> QED
    BY <2>1, <2>2, <2>3
<1>2. CASE LogsIn
  <2>1. sock' \in 0 .. SockCap
    BY <1>2, RoomLeft DEF LogsIn
  <2>2. UNCHANGED <<anchor, boot, qemu, got, conn, drains, pc, line, group, left>>
    BY <1>2 DEF LogsIn
  <2>3. at' \in 0 .. Login /\ guest' \in {"works", "asks", "dead", "done"}
    BY <1>2 DEF LogsIn, Writes
  <2> QED
    BY <2>1, <2>2, <2>3
<1>3. CASE Chatters
  <2>1. sock' \in 0 .. SockCap
    BY <1>3, RoomLeft DEF Chatters
  <2>2. UNCHANGED <<anchor, boot, qemu, got, conn, drains, pc, line, group, left>>
    BY <1>3 DEF Chatters
  <2>3. at' \in 0 .. Login /\ guest' \in {"works", "asks", "dead", "done"}
    BY <1>3 DEF Chatters, Writes
  <2> QED
    BY <2>1, <2>2, <2>3
<1>4. CASE Installs \/ Dies \/ Exits
  BY <1>4 DEF Installs, Dies, Exits
<1>5. CASE Drain
  <2>1. UNCHANGED <<anchor, boot, qemu, at, guest, conn, pc, line, group, left, got>>
    BY <1>5 DEF Drain
  <2>2. (sock' = sock \/ sock' = 0) /\ drains' \in {drains, "ended"}
    BY <1>5 DEF Drain
  <2> QED
    BY <2>1, <2>2
<1>6. CASE Open
  <2>1. UNCHANGED <<anchor, boot, qemu, at, guest, line, group, got>>
    BY <1>6 DEF Open
  <2>2. pc' = "poll" /\ left' = Polls
    BY <1>6 DEF Open
  <2>3. /\ conn' \in {conn, {boot}, {}} /\ sock' \in {sock, 0}
        /\ drains' \in {drains, "reads", "ended"}
    BY <1>6 DEF Open, Close
  <2> QED
    BY <2>1, <2>2, <2>3
<1>7. CASE Poll
  BY <1>7 DEF Poll, Dump, FirstLook, OnScreen, Anchor, Bounded
<1>8. CASE Type
  <2>1. UNCHANGED <<anchor, boot, qemu, at, conn>> /\ pc = "keys"
    BY <1>8 DEF Type, SendFails
  <2>2. got' \in [1 .. Lines -> 0 .. Groups]
    <3>1. got[line] + 1 \in 0 .. Groups
      <4>1. line \in 1 .. Lines /\ group \in 1 .. Groups /\ got \in [1 .. Lines -> 0 .. Groups]
        BY DEF Scalars
      <4>2. got[line] < group
        BY <2>1 DEF Placed, Typed
      <4> HIDE DEF Scalars
      <4> QED
        BY <4>1, <4>2, NextPress
    <3>2. CASE Arrives
      <4>1. got' = [got EXCEPT ![line] = got[line] + 1] \/ got' = got
        BY <3>2 DEF Arrives
      <4>2. CASE got' = got
        BY <4>2
      <4>3. CASE got' = [got EXCEPT ![line] = got[line] + 1]
        BY <3>1, <4>3
      <4> QED
        BY <4>1, <4>2, <4>3
    <3>3. CASE Vanishes
      BY <3>3 DEF Vanishes
    <3> QED
      BY <1>8, <3>2, <3>3, Zenon DEF Type, SendFails
  <2>3. guest' \in {"works", "asks", "dead", "done"}
    BY <1>8 DEF Type, SendFails, Arrives, Vanishes
  <2>4. line' \in 1 .. Lines
    <3>1. line' = line \/ (line < Lines /\ line' = line + 1)
      BY <1>8, Zenon DEF Type
    <3> HIDE DEF Scalars
    <3>2. line \in 1 .. Lines
      BY DEF Scalars
    <3> QED
      BY <3>1, <3>2, NextLine
  <2>5. group' \in 1 .. Groups
    <3>1. group' = 1 \/ (group < Groups /\ group' = group + 1)
      BY <1>8, Zenon DEF Type
    <3> QED
      BY <3>1
  <2>6. left' \in 0 .. Polls
    BY <1>8, SMTT(30) DEF Type
  <2>7. pc' \in {"keys", "poll", "settle"}
    BY <1>8 DEF Type
  <2>8. sock' \in {sock, 0} /\ drains' \in {drains, "failed"}
    BY <1>8 DEF Type, SendFails
  <2>9. sock' \in 0 .. SockCap /\ drains' \in {"reads", "ended", "failed"}
    BY <2>8
  <2>10. UNCHANGED <<anchor, boot, qemu, at, conn>>
    BY <2>1
  <2> HIDE DEF Groups, Login, Boots
  <2> QED
    BY <2>2, <2>3, <2>4, <2>5, <2>6, <2>7, <2>9, <2>10
<1>9. CASE GiveUp \/ Settle
  <2>1. UNCHANGED <<anchor, boot, at, guest, line, group, left, got>>
    BY <1>9 DEF GiveUp, Settle
  <2>2. pc' \in {"failed", "launch"} /\ qemu' = "gone" /\ conn' = {} /\ sock' = 0
        /\ drains' = "ended"
    BY <1>9 DEF GiveUp, Settle, Close
  <2> QED
    BY <2>1, <2>2
<1>10. CASE Launch
  <2>1. conn = {} /\ boot < Boots
    BY <1>10 DEF Launch, Placed
  <2>2. UNCHANGED <<anchor, conn, drains, sock, line, group, left, got>>
    BY <1>10 DEF Launch
  <2>3. boot' \in {boot, boot + 1} /\ at' \in {at, Lines} /\ qemu' \in {qemu, "up"}
        /\ guest' \in {guest, "works"} /\ pc' \in {"open", "failed"}
    BY <1>10 DEF Launch
  <2> QED
    BY <2>1, <2>2, <2>3, SMTT(30)
<1>11. CASE LoginTimeout \/ Check
  BY <1>11 DEF LoginTimeout, Check, OnScreen
<1>12. CASE Reroll
  BY <1>12 DEF Reroll, Close
<1>13. CASE UNCHANGED vars
  BY <1>13 DEF vars
<1> QED
  BY <1>1, <1>2, <1>3, <1>4, <1>5, <1>6, <1>7, <1>8, <1>9, <1>10, <1>11, <1>12, <1>13
  DEF Next, Guest, Host

(* The log and its dumps. *)
LEMMA LogsStep ==
  ASSUME Flags, Flags', Scalars, Logs, [Next]_vars
  PROVE  Logs'
<1> USE DEF Flags, Logs, Goto,
      HostStill, fileVars, guestVars, sessVars, hostVars, dumpVars
<1>1. CASE Asks
  <2>1. log' = Append(log, anchor[at + 1]) /\ Len(log) < MaxLog
    BY <1>1 DEF Asks, Writes
  <2>2. UNCHANGED <<pos, dumped, first>>
    BY <1>1 DEF Asks
  <2>3. anchor[at + 1] \in Texts
    BY <1>1, TextsAre DEF Asks, Scalars, Login
  <2>4. log' \in Seq(Texts) /\ Len(log') <= MaxLog
    BY <2>1, <2>3, AppendLen
  <2> QED
    BY <2>2, <2>4
<1>2. CASE LogsIn
  <2>1. log' = Append(log, Login) /\ Len(log) < MaxLog
    BY <1>2 DEF LogsIn, Writes
  <2>2. UNCHANGED <<pos, dumped, first>>
    BY <1>2 DEF LogsIn
  <2>3. Login \in Texts
    BY <1>2, TextsAre DEF LogsIn
  <2>4. log' \in Seq(Texts) /\ Len(log') <= MaxLog
    BY <2>1, <2>3, AppendLen
  <2> QED
    BY <2>2, <2>4
<1>3. CASE Chatters
  <2>1. log' = Append(log, 0) /\ Len(log) < MaxLog
    BY <1>3 DEF Chatters, Writes
  <2>2. UNCHANGED <<pos, dumped, first>>
    BY <1>3 DEF Chatters
  <2>3. 0 \in Texts
    BY <1>3, TextsAre DEF Chatters
  <2>4. log' \in Seq(Texts) /\ Len(log') <= MaxLog
    BY <2>1, <2>3, AppendLen
  <2> QED
    BY <2>2, <2>4
<1>4. CASE Installs \/ Dies \/ Exits
  BY <1>4 DEF Installs, Dies, Exits
<1>5. CASE Drain
  BY <1>5 DEF Drain
<1>6. CASE Open
  BY <1>6 DEF Open, Close
<1>7. CASE Poll
  <2>1. log' = log
    BY <1>7 DEF Poll
  <2>2. CASE console
    <3> DEFINE from == IF Len(log) < pos THEN 0 ELSE pos
    <3>2. pos' = Len(log) /\ dumped' = dumped \o After(from) /\ first' = FirstLook
      BY <1>7, <2>2 DEF Poll, Dump
    <3>3. FirstLook \in {"none", "short", "grown"}
      BY DEF FirstLook
    <3>4. from \in 0 .. Len(log)
      BY LenNat
    <3> HIDE DEF from
    <3>5. After(from) \in Seq(1 .. MaxLog)
      BY <3>4, AfterIs
    <3> QED
      BY <2>1, <3>2, <3>3, <3>5, LenNat, Concatenated
  <2>3. CASE ~console
    <3>1. UNCHANGED <<pos, dumped, first>>
      BY <1>7, <2>3 DEF Poll
    <3> QED
      BY <2>1, <3>1
  <2> QED
    BY <2>2, <2>3
<1>8. CASE Type
  BY <1>8 DEF Type, SendFails, Arrives, Vanishes
<1>9. CASE GiveUp \/ Settle
  BY <1>9 DEF GiveUp, Settle, Close
<1>10. CASE Launch
  <2>1. log' = <<>> \/ log' = log
    BY <1>10 DEF Launch
  <2>2. log' \in Seq(Texts) /\ Len(log') <= MaxLog
    <3>1. CASE log' = log
      BY <3>1
    <3>2. CASE log' = <<>>
      BY <3>2, EmptyLog
    <3> QED
      BY <2>1, <3>1, <3>2
  <2>3. pos' = pos /\ (dumped' \in {<<>>, dumped}) /\ first' \in {"none", first}
    BY <1>10 DEF Launch
  <2>4. dumped' \in Seq(1 .. MaxLog)
    BY <2>3, EmptyLog
  <2> QED
    BY <2>2, <2>3, <2>4
<1>11. CASE LoginTimeout \/ Check
  BY <1>11 DEF LoginTimeout, Check, OnScreen
<1>12. CASE Reroll
  BY <1>12 DEF Reroll, Close
<1>13. CASE UNCHANGED vars
  BY <1>13 DEF vars
<1> QED
  BY <1>1, <1>2, <1>3, <1>4, <1>5, <1>6, <1>7, <1>8, <1>9, <1>10, <1>11, <1>12, <1>13
  DEF Next, Guest, Host

(* Places. *)
LEMMA PlacedStep ==
  ASSUME Flags, Flags', Scalars, Placed, [Next]_vars
  PROVE  Placed'
<1> USE DEF Flags, Scalars, Placed, Boots, Groups, Goto,
      HostStill, fileVars, guestVars, sessVars, hostVars, dumpVars
<1>1. CASE Asks
  BY <1>1 DEF Asks, Writes, Connected
<1>2. CASE LogsIn
  BY <1>2 DEF LogsIn, Writes, Connected
<1>3. CASE Chatters
  BY <1>3 DEF Chatters, Writes, Connected
<1>4. CASE Installs \/ Dies \/ Exits
  BY <1>4 DEF Installs, Dies, Exits
<1>5. CASE Drain
  BY <1>5 DEF Drain
<1>6. CASE Open
  BY <1>6 DEF Open, Close
<1>7. CASE Poll
  BY <1>7 DEF Poll, Dump, FirstLook, OnScreen, Anchor, Bounded
<1>8. CASE Type
  BY <1>8 DEF Type, SendFails, Arrives, Vanishes
<1>9. CASE GiveUp \/ Settle
  <2>1. boot' = boot /\ boot = 0 /\ conn' = {} /\ group' = group /\ group = 1
    BY <1>9 DEF GiveUp, Settle, Close
  <2>2. pc' \in {"failed", "launch"}
    BY <1>9 DEF GiveUp, Settle
  <2> QED
    BY <2>1, <2>2
<1>10. CASE Launch
  BY <1>10 DEF Launch, Placed
<1>11. CASE LoginTimeout \/ Check
  BY <1>11 DEF LoginTimeout, Check, OnScreen
<1>12. CASE Reroll
  BY <1>12 DEF Reroll, Close
<1>13. CASE UNCHANGED vars
  BY <1>13 DEF vars
<1> QED
  BY <1>1, <1>2, <1>3, <1>4, <1>5, <1>6, <1>7, <1>8, <1>9, <1>10, <1>11, <1>12, <1>13
  DEF Next, Guest, Host

(* Lines. *)
LEMMA TypedStep ==
  ASSUME Flags, Flags', Scalars, Placed, Typed, [Next]_vars
  PROVE  Typed'
<1> USE DEF Flags, Groups, Goto,
      HostStill, fileVars, guestVars, sessVars, hostVars, dumpVars
<1>1. CASE Asks
  BY <1>1 DEF Asks, Writes, Connected, Scalars, Placed, Typed
<1>2. CASE LogsIn
  BY <1>2 DEF LogsIn, Writes, Connected, Scalars, Placed, Typed
<1>3. CASE Chatters
  BY <1>3 DEF Chatters, Writes, Connected, Scalars, Placed, Typed
<1>4. CASE Installs \/ Dies \/ Exits
  BY <1>4 DEF Installs, Dies, Exits, Scalars, Placed, Typed
<1>5. CASE Drain
  BY <1>5 DEF Drain, Scalars, Placed, Typed
<1>6. CASE Open
  BY <1>6 DEF Open, Close, Scalars, Placed, Typed
<1>7. CASE Poll
  BY <1>7 DEF Poll, Dump, FirstLook, OnScreen, Anchor, Bounded, Scalars, Placed, Typed
<1>8. CASE Type
  <2>1. pc = "keys" /\ boot' = boot
    BY <1>8 DEF Type
  <2>2. boot = 0 /\ got[line] < group /\ \A i \in 1 .. Lines : i > line => got[i] = 0
    BY <2>1 DEF Placed, Typed
  <2>3. \/ line' = line /\ group' = group + 1 /\ pc' = "keys"
        \/ line < Lines /\ line' = line + 1 /\ group' = 1 /\ pc' = "poll"
        \/ pc' = "settle"
    BY <1>8, Zenon DEF Type
  <2>4. got' = [got EXCEPT ![line] = got[line] + 1] \/ got' = got
    <3>1. Arrives => got' = [got EXCEPT ![line] = got[line] + 1] \/ got' = got
      BY DEF Arrives
    <3>2. Vanishes => got' = got
      BY DEF Vanishes
    <3> QED
      BY <1>8, <3>1, <3>2, Zenon DEF Type, SendFails
  <2>5. line \in 1 .. Lines /\ group \in 1 .. 2 /\ got \in [1 .. Lines -> 0 .. 2]
    BY DEF Scalars
  <2>6. CASE line' = line /\ group' = group + 1 /\ pc' = "keys"
    <3>1. got'[line'] < group'
      BY <2>2, <2>4, <2>5, <2>6
    <3>2. \A i \in 1 .. Lines : i > line => got'[i] = 0
      BY <2>2, <2>4, <2>5
    <3> QED
      BY <2>6, <3>1, <3>2 DEF Typed
  <2>7. CASE line < Lines /\ line' = line + 1 /\ group' = 1 /\ pc' = "poll"
    <3>1. \A i \in 1 .. Lines : i > line => got'[i] = 0
      BY <2>2, <2>4, <2>5
    <3>2. line + 1 \in 1 .. Lines /\ line + 1 > line
      BY <2>5, <2>7
    <3>3. got'[line + 1] = 0
      BY <3>1, <3>2
    <3>4. \A i \in 1 .. Lines : i > line + 1 => i > line
      BY <2>5
    <3> QED
      BY <2>7, <3>1, <3>3, <3>4 DEF Typed
  <2> QED
    BY <2>3, <2>6, <2>7 DEF Typed
<1>9. CASE GiveUp \/ Settle
  BY <1>9 DEF GiveUp, Settle, Close, Scalars, Placed, Typed
<1>10. CASE Launch
  BY <1>10 DEF Launch, Scalars, Placed, Typed
<1>11. CASE LoginTimeout \/ Check
  BY <1>11 DEF LoginTimeout, Check, OnScreen, Scalars, Placed, Typed
<1>12. CASE Reroll
  BY <1>12 DEF Reroll, Close, Scalars, Placed, Typed
<1>13. CASE UNCHANGED vars
  BY <1>13 DEF vars, Scalars, Placed, Typed
<1> QED
  BY <1>1, <1>2, <1>3, <1>4, <1>5, <1>6, <1>7, <1>8, <1>9, <1>10, <1>11, <1>12, <1>13
  DEF Next, Guest, Host

(* The console. *)
LEMMA ShownStep ==
  ASSUME Flags, Flags', Scalars, Logs, Placed, Shown, [Next]_vars
  PROVE  Shown'
<1> USE DEF Flags, Goto,
      HostStill, fileVars, guestVars, sessVars, hostVars, dumpVars
<1>1. CASE Asks
  <2>1. log' = Append(log, anchor[at + 1]) /\ UNCHANGED <<boot, anchor, pc>>
    BY <1>1 DEF Asks, Writes
  <2>2. at' = at + 1 /\ at < Lines /\ boot = 0
    BY <1>1 DEF Asks
  <2>3. anchor[at + 1] \in Texts
    BY <2>2, TextsAre DEF Scalars
  <2>4. /\ DOMAIN log = 1 .. Len(log) /\ DOMAIN log' = 1 .. Len(log) + 1 /\ Len(log) \in Nat
        /\ log'[Len(log) + 1] = anchor[at + 1] /\ \A i \in 1 .. Len(log) : log'[i] = log[i]
    <3>1. log \in Seq(Texts)
      BY DEF Logs
    <3> QED
      BY <2>1, <2>3, <3>1, AppendLen
  <2>6. at \in 0 .. Login /\ (boot = 0 => at <= Lines) /\ (pc = "up" => at = Login) /\ Lines \in Nat
    BY DEF Scalars, Shown
  <2>7. Printed
    BY DEF Shown
  <2>8. \A i \in 1 .. Len(log) + 1 : i = Len(log) + 1 \/ i \in 1 .. Len(log)
    BY <2>4
  <2>5. ASSUME NEW i \in DOMAIN log'
        PROVE  \/ log'[i] = 0
               \/ boot' = 0 /\ \E j \in 1 .. at' : log'[i] = anchor'[j]
               \/ boot' > 0 /\ at' = Login
    <3>1. CASE i = Len(log) + 1
      BY <2>1, <2>2, <2>4, <2>6, <3>1
    <3>2. CASE i \in 1 .. Len(log)
      <4>1. log'[i] = log[i] /\ i \in DOMAIN log
        BY <2>4, <3>2
      <4>2. 1 .. at \subseteq 1 .. at'
        BY <2>2, <2>6
      <4> QED
        BY <2>1, <2>2, <2>6, <2>7, <4>1, <4>2 DEF Printed
    <3> QED
      BY <2>4, <2>8, <3>1, <3>2
  <2>9. Printed'
    BY <2>5 DEF Printed
  <2> QED
    BY <2>1, <2>2, <2>6, <2>9 DEF Shown, Login
<1>2. CASE LogsIn
  BY <1>2 DEF LogsIn, Writes, Connected, Scalars, Placed, Shown, Printed
<1>3. CASE Chatters
  <2>1. log' = Append(log, 0) /\ UNCHANGED <<boot, anchor, pc>>
    BY <1>3 DEF Chatters, Writes
  <2>2. at' = at
    BY <1>3 DEF Chatters
  <2>3. 0 \in Texts
    BY <2>2, TextsAre DEF Scalars
  <2>4. /\ DOMAIN log = 1 .. Len(log) /\ DOMAIN log' = 1 .. Len(log) + 1 /\ Len(log) \in Nat
        /\ log'[Len(log) + 1] = 0 /\ \A i \in 1 .. Len(log) : log'[i] = log[i]
    <3>1. log \in Seq(Texts)
      BY DEF Logs
    <3> QED
      BY <2>1, <2>3, <3>1, AppendLen
  <2>6. at \in 0 .. Login /\ (boot = 0 => at <= Lines) /\ (pc = "up" => at = Login) /\ Lines \in Nat
    BY DEF Scalars, Shown
  <2>7. Printed
    BY DEF Shown
  <2>8. \A i \in 1 .. Len(log) + 1 : i = Len(log) + 1 \/ i \in 1 .. Len(log)
    BY <2>4
  <2>5. ASSUME NEW i \in DOMAIN log'
        PROVE  \/ log'[i] = 0
               \/ boot' = 0 /\ \E j \in 1 .. at' : log'[i] = anchor'[j]
               \/ boot' > 0 /\ at' = Login
    <3>1. CASE i = Len(log) + 1
      BY <2>1, <2>2, <2>4, <2>6, <3>1
    <3>2. CASE i \in 1 .. Len(log)
      <4>1. log'[i] = log[i] /\ i \in DOMAIN log
        BY <2>4, <3>2
      <4>2. 1 .. at \subseteq 1 .. at'
        BY <2>2, <2>6
      <4> QED
        BY <2>1, <2>2, <2>6, <2>7, <4>1, <4>2 DEF Printed
    <3> QED
      BY <2>4, <2>8, <3>1, <3>2
  <2>9. Printed'
    BY <2>5 DEF Printed
  <2> QED
    BY <2>1, <2>2, <2>6, <2>9 DEF Shown, Login
<1>4. CASE Installs \/ Dies \/ Exits
  BY <1>4 DEF Installs, Dies, Exits, Scalars, Placed, Shown, Printed
<1>5. CASE Drain
  BY <1>5 DEF Drain, Scalars, Placed, Shown, Printed
<1>6. CASE Open
  BY <1>6 DEF Open, Close, Scalars, Placed, Shown, Printed
<1>7. CASE Poll
  BY <1>7 DEF Poll, Dump, FirstLook, OnScreen, Anchor, Bounded, Scalars, Placed,
     Shown, Printed
<1>8. CASE Type
  BY <1>8 DEF Type, SendFails, Arrives, Vanishes, Scalars, Placed, Shown, Printed
<1>9. CASE GiveUp \/ Settle
  BY <1>9 DEF GiveUp, Settle, Close, Scalars, Placed, Shown, Printed
<1>10. CASE Launch
  <2>1. CASE log' = <<>>
    <3>1. at' \in {at, Lines} /\ boot' \in {boot, boot + 1} /\ pc' # "up"
      BY <1>10 DEF Launch
    <3>2. boot' = 0 => at' <= Lines
      BY <1>10 DEF Launch, Shown, Scalars
    <3> QED
      BY <2>1, <3>1, <3>2, EmptyLog DEF Shown, Printed
  <2>2. CASE log' # <<>>
    BY <1>10, <2>2 DEF Launch, Shown, Printed
  <2> QED
    BY <2>1, <2>2
<1>11. CASE LoginTimeout \/ Check
  <2>1. UNCHANGED <<boot, at, log, anchor>>
    BY <1>11 DEF LoginTimeout, Check
  <2>2. pc' = "up" => boot > 0 /\ \E i \in DOMAIN log : log[i] = Login
    BY <1>11 DEF LoginTimeout, Check, OnScreen, Placed
  <2>3. Login # 0
    BY DEF Login
  <2> QED
    BY <2>1, <2>2, <2>3 DEF Shown, Printed, Placed
<1>12. CASE Reroll
  BY <1>12 DEF Reroll, Close, Scalars, Placed, Shown, Printed
<1>13. CASE UNCHANGED vars
  BY <1>13 DEF vars, Scalars, Placed, Shown, Printed
<1> QED
  BY <1>1, <1>2, <1>3, <1>4, <1>5, <1>6, <1>7, <1>8, <1>9, <1>10, <1>11, <1>12, <1>13
  DEF Next, Guest, Host

LEMMA CleanStays ==
  ASSUME Flags, Flags', [Next]_vars, Clean'
  PROVE  Clean
<1>1. anchor' = anchor
  BY DEF Next, Guest, Host, vars, fileVars, HostStill, Asks, LogsIn, Chatters,
     Installs, Dies, Exits, Drain, Open, Poll, Type, GiveUp, Settle, Launch,
     LoginTimeout, Check, Reroll
<1>2. lost => lost'
  BY DEF Flags, Next, Guest, Host, vars, HostStill, Asks, LogsIn, Chatters,
     Installs, Dies, Exits, Drain, Open, Poll, Type, SendFails, Arrives, Vanishes, GiveUp,
     Settle, Launch, LoginTimeout, Check, Reroll
<1> QED
  BY <1>1, <1>2 DEF Clean, Distinct

(* Questions and answers. *)
LEMMA AskedStep ==
  ASSUME Flags, Flags', Scalars, Placed, Typed, Shown, Clean, Clean', Asked, [Next]_vars
  PROVE  Asked'
<1> USE DEF Flags, Groups, Goto,
      HostStill, fileVars, guestVars, sessVars, hostVars, dumpVars
<1>1. CASE Asks
  <2>1. /\ boot = 0 /\ at < Lines /\ at' = at + 1 /\ guest = "works" /\ guest' = "asks"
        /\ UNCHANGED <<boot, pc, line, group, got, blind>>
    BY <1>1 DEF Asks, Writes
  <2>2. at \in Nat /\ line \in 1 .. Lines /\ Lines \in Nat /\ group \in 1 .. 2
    BY DEF Scalars
  <2>3. ASSUME pc \in {"open", "poll", "keys", "settle"} PROVE Together'
    <3>1. Together
      BY <2>1, <2>3 DEF Asked
    <3>2. pc \in {"open", "poll"} /\ at = line - 1
      BY <2>1, <2>2, <2>3, <3>1 DEF Together
    <3>3. \A i \in 1 .. Lines : i <= at => got[i] = Groups
      BY <2>1, <2>2, <3>1 DEF Together
    <3>4. got[line] = 0
      <4>1. group = 1 /\ got[line] < group /\ got[line] \in 0 .. 2
        BY <2>1, <2>2, <3>2 DEF Typed, Placed, Scalars
      <4> QED
        BY <4>1
    <3> QED
      BY <2>1, <2>2, <3>2, <3>3, <3>4 DEF Together
  <2> QED
    BY <2>1, <2>3 DEF Asked
<1>2. CASE LogsIn
  BY <1>2 DEF LogsIn, Writes, Connected, Scalars, Placed, Asked, Together
<1>3. CASE Chatters
  BY <1>3 DEF Chatters, Writes, Connected, Scalars, Placed, Asked, Together
<1>4. CASE Installs \/ Dies \/ Exits
  <2>1. UNCHANGED <<boot, pc, line, group, got, blind, at>>
    BY <1>4 DEF Installs, Dies, Exits
  <2>2. \/ guest' \in {"dead", guest}
        \/ boot = 0 /\ guest = "works" /\ at = Lines /\ guest' = "done"
    BY <1>4 DEF Installs, Dies, Exits
  <2>3. at \in Nat /\ line \in 1 .. Lines /\ Lines \in Nat
    BY DEF Scalars
  <2>4. Together => Together'
    BY <2>1, <2>2, <2>3 DEF Together
  <2> QED
    BY <2>1, <2>4 DEF Asked
<1>5. CASE Drain
  BY <1>5 DEF Drain, Scalars, Placed, Asked, Together
<1>6. CASE Open
  BY <1>6 DEF Open, Close, Scalars, Placed, Asked, Together
<1>7. CASE Poll
  <2>1. pc = "poll" /\ UNCHANGED <<boot, line, group, got, blind, at, guest>>
    BY <1>7 DEF Poll
  <2>2. pc' \in {"poll", "keys", "check"} /\ (pc' = "keys" => boot = 0)
    BY <1>7 DEF Poll
  <2>3. ASSUME boot = 0, pc' = "keys" PROVE at = line
    <3>1. PICK i \in DOMAIN log : log[i] = anchor[line]
      BY <1>7, <2>3 DEF Poll, OnScreen, Anchor
    <3>2. anchor[line] # 0 /\ line \in 1 .. Lines /\ at \in Nat
      BY DEF Scalars
    <3>3. PICK j \in 1 .. at : anchor[line] = anchor[j]
      BY <2>3, <3>1, <3>2 DEF Shown, Printed
    <3>4. j \in 1 .. Lines
      BY <2>3, <3>2, <3>3 DEF Shown, Scalars
    <3>5. j = line
      BY <3>2, <3>3, <3>4 DEF Clean, Distinct
    <3>6. at = line \/ at = line - 1
      BY <2>1, <2>3 DEF Asked, Together
    <3> QED
      BY <3>2, <3>5, <3>6
  <2>4. group = 1
    BY <2>1 DEF Placed
  <2>5. boot = 0 => Together
    BY <2>1 DEF Asked
  <2>6. boot = 0 /\ pc' \in {"poll", "keys"} => Together'
    BY <2>1, <2>3, <2>4, <2>5 DEF Together
  <2> QED
    BY <2>1, <2>2, <2>6 DEF Asked
<1>8. CASE Type
  <2>1. pc = "keys" /\ UNCHANGED <<boot, at>>
    BY <1>8 DEF Type
  <2>2. boot = 0 /\ Together
    BY <2>1 DEF Placed, Asked
  <2>3. at = line /\ guest \in {"asks", "dead"} /\ (guest = "asks" => got[line] = group - 1)
    BY <2>1, <2>2 DEF Together
  <2>4. Arrives
    BY <1>8, Zenon DEF Type, SendFails, Vanishes, Clean
  <2>5. ~blind /\ ~blind'
    BY <2>3, <2>4 DEF Arrives, Asked
  <2>6. got' = IF guest = "asks" THEN [got EXCEPT ![line] = got[line] + 1] ELSE got
    BY <2>3, <2>4 DEF Arrives
  <2>7. guest' = IF guest = "asks" /\ group = Groups THEN "works" ELSE guest
    BY <2>4 DEF Arrives
  <2>8. \/ group < Groups /\ line' = line /\ group' = group + 1 /\ pc' = "keys"
        \/ ~(group < Groups) /\ line < Lines /\ line' = line + 1 /\ pc' = "poll"
        \/ ~(group < Groups) /\ ~(line < Lines) /\ line' = line /\ pc' = "settle"
    BY <1>8, Zenon DEF Type
  <2>9. line \in 1 .. Lines /\ Lines \in Nat /\ group \in 1 .. 2 /\ got \in [1 .. Lines -> 0 .. 2]
    BY DEF Scalars
  <2>10. \A i \in 1 .. Lines : i < at' \/ (i = at' /\ guest' = "works") => got'[i] = Groups
    <3>1. \A i \in 1 .. Lines : i < at => got[i] = Groups
      BY <2>2 DEF Together
    <3>2. guest' = "works" => guest = "asks" /\ group = 2
      BY <2>3, <2>7
    <3> QED
      BY <2>1, <2>3, <2>6, <2>9, <3>1, <3>2
  <2>11. ASSUME pc' = "keys" PROVE Together'
    <3>1. group = 1 /\ group' = 2 /\ line' = line
      BY <2>8, <2>9, <2>11
    <3>2. guest' = guest /\ (guest = "asks" => got'[line] = 1)
      BY <2>3, <2>6, <2>7, <2>9, <3>1
    <3> QED
      BY <2>1, <2>3, <2>10, <2>11, <3>1, <3>2 DEF Together
  <2>12. ASSUME pc' = "poll" PROVE Together'
    <3>1. line' = line + 1 /\ group = 2
      BY <2>8, <2>9, <2>12
    <3>2. guest' \in {"works", "dead"}
      BY <2>3, <2>7, <3>1
    <3> QED
      <4>1. at' = line' - 1 /\ at' # line'
        BY <2>1, <2>3, <2>9, <3>1
      <4> QED
        BY <2>10, <2>12, <3>2, <4>1 DEF Together
  <2>13. ASSUME pc' = "settle" PROVE Together'
    <3>1. at' = Lines
      BY <2>1, <2>3, <2>8, <2>9, <2>13
    <3> QED
      BY <2>10, <2>13, <3>1 DEF Together
  <2>14. Together'
    <3>1. pc' \in {"keys", "poll", "settle"}
      BY <2>8
    <3> QED
      BY <2>11, <2>12, <2>13, <3>1
  <2> QED
    BY <2>1, <2>2, <2>5, <2>8, <2>14 DEF Asked
<1>9. CASE GiveUp \/ Settle
  <2>1. boot = 0 /\ UNCHANGED <<boot, at, got, blind>>
    BY <1>9 DEF GiveUp, Settle, Placed
  <2>2. pc' = "failed" \/ (pc = "settle" /\ pc' = "launch")
    BY <1>9 DEF GiveUp, Settle
  <2>3. CASE pc = "settle" /\ pc' = "launch"
    <3>1. at = Lines /\ \A i \in 1 .. Lines : i < at => got[i] = Groups
      BY <2>1, <2>3 DEF Asked, Together
    <3>2. \A i \in 1 .. Lines - 1 : i \in 1 .. Lines /\ i < Lines
      OBVIOUS
    <3> QED
      BY <2>1, <2>3, <3>1, <3>2 DEF Asked
  <2> QED
    BY <2>1, <2>2, <2>3 DEF Asked
<1>10. CASE Launch
  BY <1>10, SMTT(30) DEF Launch, Scalars, Placed, Asked, Together
<1>11. CASE LoginTimeout \/ Check
  BY <1>11 DEF LoginTimeout, Check, OnScreen, Scalars, Placed, Asked, Together
<1>12. CASE Reroll
  BY <1>12 DEF Reroll, Close, Scalars, Placed, Asked, Together
<1>13. CASE UNCHANGED vars
  BY <1>13 DEF vars, Scalars, Placed, Asked, Together
<1> QED
  BY <1>1, <1>2, <1>3, <1>4, <1>5, <1>6, <1>7, <1>8, <1>9, <1>10, <1>11, <1>12, <1>13
  DEF Next, Guest, Host

(* The dumps. *)
LEMMA DumpedStep ==
  ASSUME Flags, Flags', Logs, Placed, Dumped, [Next]_vars
  PROVE  Dumped'
<1> USE DEF Flags, Logs, Placed, Dumped, Goto,
      HostStill, fileVars, guestVars, sessVars, hostVars, dumpVars
<1>1. CASE Asks
  BY <1>1 DEF Asks, Writes, Connected
<1>2. CASE LogsIn
  BY <1>2 DEF LogsIn, Writes, Connected
<1>3. CASE Chatters
  BY <1>3 DEF Chatters, Writes, Connected
<1>4. CASE Installs \/ Dies \/ Exits
  BY <1>4 DEF Installs, Dies, Exits
<1>5. CASE Drain
  BY <1>5 DEF Drain
<1>6. CASE Open
  BY <1>6 DEF Open, Close
<1>7. CASE Poll
  <2>1. UNCHANGED <<log, console>>
    BY <1>7 DEF Poll
  <2>2. CASE console
    <3>1. /\ pos' = Len(log) /\ first' = FirstLook
          /\ dumped' = dumped \o After(IF Len(log) < pos THEN 0 ELSE pos)
      BY <1>7, <2>2 DEF Poll, Dump
    <3>2. Len(log) \in Nat /\ pos \in Nat
      BY LenNat
    <3>3. first' # "none"
      BY <3>1 DEF FirstLook
    <3>4. CASE first' = "short"
      <4>1. \/ dumped = <<>> /\ Len(log) < pos
            \/ dumped = Upto(pos) /\ pos <= Len(log)
        BY <2>2, <3>1, <3>4 DEF FirstLook
      <4>2. dumped' = Upto(Len(log))
        <5>1. CASE dumped = <<>> /\ Len(log) < pos
          <6>1. dumped' = <<>> \o After(0)
            BY <3>1, <5>1
          <6>2. 0 \in 0 .. Len(log)
            BY <3>2
          <6> QED
            BY <6>1, <6>2, UptoNone, Continued
        <5>2. CASE dumped = Upto(pos) /\ pos <= Len(log)
          <6>1. ~(Len(log) < pos) /\ pos \in 0 .. Len(log)
            BY <3>2, <5>2
          <6>2. dumped' = Upto(pos) \o After(pos)
            BY <3>1, <5>2, <6>1, Zenon
          <6> QED
            BY <6>1, <6>2, Continued
        <5> QED
          BY <4>1, <5>1, <5>2
      <4>3. pos' = Len(log') /\ pos' <= Len(log')
        BY <2>1, <3>1, <3>2
      <4> QED
        BY <3>1, <3>4, <4>2, <4>3
    <3> QED
      BY <3>3, <3>4
  <2>3. CASE ~console
    <3>1. UNCHANGED <<pos, dumped, first>>
      BY <1>7, <2>3 DEF Poll
    <3> QED
      BY <2>1, <3>1
  <2> QED
    BY <2>2, <2>3
<1>8. CASE Type
  BY <1>8 DEF Type, SendFails, Arrives, Vanishes
<1>9. CASE GiveUp \/ Settle
  BY <1>9 DEF GiveUp, Settle, Close
<1>10. CASE Launch
  BY <1>10 DEF Launch, Placed
<1>11. CASE LoginTimeout \/ Check
  BY <1>11 DEF LoginTimeout, Check, OnScreen
<1>12. CASE Reroll
  BY <1>12 DEF Reroll, Close
<1>13. CASE UNCHANGED vars
  BY <1>13 DEF vars
<1> QED
  BY <1>1, <1>2, <1>3, <1>4, <1>5, <1>6, <1>7, <1>8, <1>9, <1>10, <1>11, <1>12, <1>13
  DEF Next, Guest, Host

LEMMA InitIInv == Init => IInv
<1> SUFFICES ASSUME Init PROVE IInv
  OBVIOUS
<1>1. Flags
  BY DEF Init, Flags
<1>2. TypeOK
  <2>1. Scalars
    BY DEF Init, Scalars, Login, Groups, Boots
  <2>2. Logs
    BY DEF Init, Logs
  <2> QED
    BY <1>1, <2>1, <2>2 DEF TypeOK, Flags, Scalars, Logs, Texts
<1>3. Placed /\ Typed /\ Shown /\ Dumped
  <2>1. Dumped
    BY UptoNone, EmptyLog DEF Init, Dumped
  <2> QED
    BY <2>1 DEF Init, Placed, Typed, Shown, Printed
<1>4. Answered
  BY DEF Init, Answered, Asked, Together
<1> QED
  BY <1>2, <1>3, <1>4 DEF IInv

LEMMA Inductive == Spec => []IInv
<1>1. IInv /\ [Next]_vars => IInv'
  <2> SUFFICES ASSUME IInv, [Next]_vars PROVE IInv'
    OBVIOUS
  <2>1. Flags /\ Scalars /\ Logs
    BY DEF IInv, TypeOK, Flags, Scalars, Logs, Texts
  <2>2. Flags'
    BY <2>1, FlagsStep
  <2>3. TypeOK'
    BY <2>1, <2>2, ScalarsStep, LogsStep DEF IInv, TypeOK, Flags, Scalars, Logs, Texts
  <2>4. Answered'
    BY <2>1, <2>2, CleanStays, AskedStep DEF IInv, Answered
  <2> QED
    BY <2>1, <2>2, <2>3, <2>4, PlacedStep, TypedStep, ShownStep, DumpedStep DEF IInv
<1> QED
  BY InitIInv, <1>1, PTL DEF Spec

(* Types, and the bounds of logs, buffers and counters. *)
THEOREM TypeCorrect == Spec => []TypeOK
  BY Inductive, PTL DEF IInv

(* No key is typed at another line's question. *)
THEOREM KeysAreOnPrompt == Spec => []KeysOnPrompt
<1>1. IInv => KeysOnPrompt
  BY DEF IInv, TypeOK, Answered, Asked, Clean, KeysOnPrompt
<1> QED
  BY Inductive, <1>1, PTL

(* A boot follows only an installation that was answered to its last line. *)
THEOREM InstallIsAnswered == Spec => []InstallAnswered
<1>1. IInv => InstallAnswered
  BY DEF IInv, Answered, Asked, Clean, InstallAnswered
<1> QED
  BY Inductive, <1>1, PTL

(* The dumps of a log that was seen to be new have no gap. *)
THEOREM LogIsDumped == Spec => []DumpedWhole
<1>1. IInv => DumpedWhole
  BY DEF IInv, Dumped, DumpedWhole, Upto
<1> QED
  BY Inductive, <1>1, PTL

(* The login prompt that start_and_wait reports is the last boot's. *)
THEOREM LoginIsCurrent == Spec => []LoginOfThisBoot
<1>1. IInv => LoginOfThisBoot
  BY DEF IInv, Shown, LoginOfThisBoot
<1> QED
  BY Inductive, <1>1, PTL
==============================================================================
