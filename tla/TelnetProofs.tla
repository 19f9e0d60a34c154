---------------------------- MODULE TelnetProofs ----------------------------
(***************************************************************************)
(* Proofs about the telnet conversions, for buffers of every length: what  *)
(* Filter, Escape and Eat compute (TelnetCodec), that iac_filter works the *)
(* same however its input is cut into chunks (IacFilter), and what the     *)
(* host makes of the guest's output (EatIac).                     *)
(***************************************************************************)
EXTENDS IacFilter, EatIac, Integers, SequenceTheorems, FiniteSetTheorems, TLAPS

-----------------------------------------------------------------------------
(* Induction. *)

(* Induction: a set of numbers that is not empty has a least one. *)
LEMMA Least ==
  ASSUME NEW T \in SUBSET Nat, T # {}
  PROVE  \E x \in T : \A y \in T : x <= y
<1>1. IsWellFoundedOn({ss \in Nat \X Nat : ss[1] < ss[2]}, Nat)
  BY NatLessThanWellFounded DEF OpToRel
<1>2. \E x \in T : \A y \in T : ~(<<y, x>> \in {ss \in Nat \X Nat : ss[1] < ss[2]})
  BY <1>1, WFMin
<1>3. PICK x \in T : \A y \in T : ~(<<y, x>> \in {ss \in Nat \X Nat : ss[1] < ss[2]})
  BY <1>2
<1>4. \A y \in T : x <= y
  <2>1. \A y \in T : y \in Nat /\ x \in Nat /\ ~(y < x)
    BY <1>3
  <2> QED
    BY <2>1
<1> QED
  BY <1>3, <1>4

(* A set that holds 0 and, with each number, the next one, holds all. *)
LEMMA Induct ==
  ASSUME NEW P \in SUBSET Nat, 0 \in P, \A n \in P : n + 1 \in P
  PROVE  P = Nat
<1> SUFFICES ASSUME Nat \ P # {} PROVE FALSE
  OBVIOUS
<1>1. PICK x \in Nat \ P : \A y \in Nat \ P : x <= y
  BY Least
<1>2. x # 0 /\ x - 1 \in Nat
  BY <1>1
<1>3. x - 1 \in P
  BY <1>1, <1>2
<1>4. (x - 1) + 1 = x
  BY <1>1
<1> QED
  BY <1>1, <1>3, <1>4

Result == [plain : Seq(Bytes), replies : Seq(Bytes), carry : Seq(Bytes)]
Tokens(n) == {t \in [1 .. n -> [next : Nat, plain : Seq(Bytes), replies : Seq(Bytes), carry : Seq(Bytes)]] :
                \A i \in 1 .. n : t[i].next \in i + 1 .. n + 1}

(* A token in front of a result is a result. *)
LEMMA ThenType ==
  ASSUME NEW a \in [next : Nat, plain : Seq(Bytes), replies : Seq(Bytes), carry : Seq(Bytes)],
         NEW b \in Result
  PROVE  Then(a, b) \in Result
  BY ConcatProperties DEF Then, Result

(* The parts of a result. *)
LEMMA ThenParts ==
  ASSUME NEW a, NEW b
  PROVE  /\ Then(a, b).plain = a.plain \o b.plain
         /\ Then(a, b).replies = a.replies \o b.replies
         /\ Then(a, b).carry = a.carry \o b.carry
  BY DEF Then

(* The bytes and short streams that the definitions name. *)
LEMMA Short ==
  /\ "IAC" \in Bytes /\ "WONT" \in Bytes /\ "DONT" \in Bytes
  /\ <<>> \in Seq(Bytes) /\ Len(<<>>) = 0
  /\ \A b \in Bytes : <<b>> \in Seq(Bytes) /\ Len(<<b>>) = 1
  BY DEF Bytes, Negotiation

(* Tokens(n) are n tokens. *)
LEMMA TokensLen ==
  ASSUME NEW n \in Nat, NEW token \in Tokens(n)
  PROVE  Len(token) = n
  BY LenProperties DEF Tokens

(* The recursion has a solution ... *)
LEMMA ParseExists ==
  ASSUME NEW n \in Nat, NEW token \in Tokens(n)
  PROVE  \E f : f = [i \in 1 .. n + 1 |-> IF i > n THEN Nothing ELSE Then(token[i], f[token[i].next])]
<1> DEFINE Solves(f, m) == f = [i \in m .. n + 1 |-> IF i > n THEN Nothing ELSE Then(token[i], f[token[i].next])]
           P == {k \in Nat : k <= n => \E f : Solves(f, n + 1 - k)}
<1>1. 0 \in P
  <2>1. Solves([i \in n + 1 .. n + 1 |-> Nothing], n + 1)
    OBVIOUS
  <2> HIDE DEF Solves
  <2> QED
    BY <2>1
<1>2. ASSUME NEW k \in P PROVE k + 1 \in P
  <2> SUFFICES ASSUME k + 1 <= n PROVE \E f : Solves(f, n + 1 - (k + 1))
    OBVIOUS
  <2>1. PICK g : Solves(g, n + 1 - k)
    BY <1>2
  <2> DEFINE m == n - k
             f == [i \in m .. n + 1 |-> IF i = m THEN Then(token[i], g[token[i].next]) ELSE g[i]]
  <2>2. k \in Nat /\ m \in 1 .. n /\ n + 1 - k = m + 1 /\ n + 1 - (k + 1) = m
    BY <1>2
  <2>3. \A i \in m + 1 .. n + 1 : f[i] = g[i]
    BY <2>2
  <2>4. \A i \in m .. n : token[i].next \in m + 1 .. n + 1
    BY <2>2 DEF Tokens
  <2>5. \A i \in m .. n + 1 : f[i] = IF i > n THEN Nothing ELSE Then(token[i], f[token[i].next])
    <3> TAKE i \in m .. n + 1
    <3>1. CASE i = m
      BY <2>2, <2>3, <2>4, <3>1
    <3>2. CASE i # m
      <4>1. i \in m + 1 .. n + 1
        BY <2>2, <3>2
      <4>2. f[i] = g[i]
        BY <2>3, <4>1
      <4>3. g[i] = IF i > n THEN Nothing ELSE Then(token[i], g[token[i].next])
        BY <2>1, <2>2, <4>1
      <4>4. i <= n => g[token[i].next] = f[token[i].next]
        BY <2>2, <2>3, <2>4, <4>1
      <4> QED
        BY <4>2, <4>3, <4>4, <4>1, <2>2
    <3> QED
      BY <3>1, <3>2
  <2>6. Solves(f, m)
    <3> f = [i \in m .. n + 1 |-> f[i]]
      OBVIOUS
    <3> HIDE DEF f
    <3> QED
      BY <2>5
  <2> HIDE DEF Solves, f
  <2> QED
    BY <2>2, <2>6
<1>3. P = Nat
  <2> HIDE DEF P
  <2>1. P \subseteq Nat
    BY DEF P
  <2> QED
    BY <1>1, <1>2, <2>1, Induct
<1>4. \E f : Solves(f, 1)
  <2>1. n \in P
    BY <1>3
  <2>2. n + 1 - n = 1
    OBVIOUS
  <2> HIDE DEF Solves
  <2> QED
    BY <2>1, <2>2
<1> QED
  BY <1>4

(* ... so that Parse is one. *)
LEMMA ParseDef ==
  ASSUME NEW n \in Nat, NEW token \in Tokens(n), NEW i \in 1 .. n + 1
  PROVE  Parse(token)[i] = IF i > n THEN Nothing ELSE Then(token[i], Parse(token)[token[i].next])
<1> DEFINE Solution(f) == f = [j \in 1 .. n + 1 |-> IF j > n THEN Nothing ELSE Then(token[j], f[token[j].next])]
<1>1. Parse(token) = CHOOSE f : Solution(f)
  BY TokensLen, Zenon DEF Parse
<1>2. \E f : Solution(f)
  BY ParseExists
<1>3. Solution(Parse(token))
  <2> HIDE DEF Solution
  <2> QED
    BY <1>1, <1>2
<1> QED
  BY <1>3

(* Induction from the end of a buffer: what holds at a position if it      *)
(* holds at all later ones holds at all.                                   *)
LEMMA Backward ==
  ASSUME NEW n \in Nat, NEW Good,
         \A i \in 1 .. n + 1 : (\A j \in i + 1 .. n + 1 : j \in Good) => i \in Good
  PROVE  \A i \in 1 .. n + 1 : i \in Good
<1> DEFINE Bad == {k \in Nat : k <= n /\ n + 1 - k \notin Good}
<1>1. SUFFICES ASSUME Bad # {} PROVE FALSE
  <2>1. ASSUME NEW i \in 1 .. n + 1, i \notin Good PROVE n + 1 - i \in Bad
    <3>1. n + 1 - i \in Nat /\ n + 1 - i <= n /\ n + 1 - (n + 1 - i) = i
      OBVIOUS
    <3> QED
      BY <2>1, <3>1
  <2> HIDE DEF Bad
  <2> QED
    BY <2>1
<1>2. PICK k \in Bad : \A l \in Bad : k <= l
  <2> HIDE DEF Bad
  <2>1. Bad \in SUBSET Nat
    BY DEF Bad
  <2> QED
    BY <1>1, <2>1, Least
<1>3. k \in Nat /\ n + 1 - k \in 1 .. n + 1 /\ n + 1 - k \notin Good
  BY <1>2
<1>4. \A j \in (n + 1 - k) + 1 .. n + 1 : j \in Good
  <2> TAKE j \in (n + 1 - k) + 1 .. n + 1
  <2>1. n + 1 - j \in Nat /\ n + 1 - j < k /\ n + 1 - j <= n /\ n + 1 - (n + 1 - j) = j
    BY <1>3
  <2>2. n + 1 - j \notin Bad
    BY <1>2, <1>3, <2>1
  <2> QED
    BY <2>1, <2>2
<1> QED
  BY <1>3, <1>4

(* Parse yields results. *)
LEMMA ParseType ==
  ASSUME NEW n \in Nat, NEW token \in Tokens(n)
  PROVE  \A i \in 1 .. n + 1 : Parse(token)[i] \in Result
<1> DEFINE Good == {i \in 1 .. n + 1 : Parse(token)[i] \in Result}
<1>1. ASSUME NEW i \in 1 .. n + 1, \A j \in i + 1 .. n + 1 : j \in Good
      PROVE  i \in Good
  <2>1. CASE i > n
    <3>1. Nothing \in Result
      BY DEF Nothing, Result
    <3> QED
      BY <2>1, <3>1, ParseDef
  <2>2. CASE i <= n
    <3>1. token[i].next \in i + 1 .. n + 1
      BY <2>2 DEF Tokens
    <3>2. token[i] \in [next : Nat, plain : Seq(Bytes), replies : Seq(Bytes), carry : Seq(Bytes)]
      BY <2>2 DEF Tokens
    <3>3. Parse(token)[token[i].next] \in Result
      BY <1>1, <3>1
    <3>4. Parse(token)[i] = Then(token[i], Parse(token)[token[i].next])
      BY <2>2, ParseDef
    <3> QED
      BY <3>2, <3>3, <3>4, ThenType
  <2> QED
    BY <2>1, <2>2
<1> HIDE DEF Good
<1>2. \A i \in 1 .. n + 1 : i \in Good
  BY <1>1, Backward
<1> QED
  BY <1>2 DEF Good

(* The same token d positions further on. *)
Moved(t, d) == Token(t.next + d, t.plain, t.replies, t.carry)

(* What a loop yields from a position on depends on nothing before it. *)
LEMMA Shift ==
  ASSUME NEW n \in Nat, NEW d \in Nat, NEW a \in Tokens(n + d), NEW b \in Tokens(n),
         \A k \in 1 .. n : a[k + d] = Moved(b[k], d)
  PROVE  \A k \in 1 .. n + 1 : Parse(a)[k + d] = Parse(b)[k]
<1> DEFINE Good == {k \in 1 .. n + 1 : Parse(a)[k + d] = Parse(b)[k]}
<1>1. ASSUME NEW k \in 1 .. n + 1, \A j \in k + 1 .. n + 1 : j \in Good
      PROVE  k \in Good
  <2>0. n + d \in Nat /\ k + d \in 1 .. (n + d) + 1
    OBVIOUS
  <2>1. CASE k > n
    <3>1. k + d > n + d
      BY <2>1
    <3> QED
      BY <2>0, <2>1, <3>1, ParseDef
  <2>2. CASE k <= n
    <3>1. b[k].next \in k + 1 .. n + 1
      BY <2>2 DEF Tokens
    <3>2. b[k] \in [next : Nat, plain : Seq(Bytes), replies : Seq(Bytes), carry : Seq(Bytes)]
      BY <2>2 DEF Tokens
    <3>3. a[k + d].next = b[k].next + d /\ a[k + d].plain = b[k].plain
          /\ a[k + d].replies = b[k].replies /\ a[k + d].carry = b[k].carry
      <4>1. a[k + d] = Moved(b[k], d)
        BY <2>2
      <4> QED
        BY <4>1 DEF Moved, Token
    <3>4. Parse(a)[b[k].next + d] = Parse(b)[b[k].next]
      BY <1>1, <3>1
    <3>5. Parse(b)[k] = Then(b[k], Parse(b)[b[k].next])
      BY <2>2, ParseDef
    <3>6. Parse(a)[k + d] = Then(a[k + d], Parse(a)[a[k + d].next])
      <4>1. ~(k + d > n + d)
        BY <2>2
      <4> QED
        BY <2>0, <4>1, ParseDef
    <3> QED
      BY <3>3, <3>4, <3>5, <3>6 DEF Then
  <2> QED
    BY <2>1, <2>2
<1> HIDE DEF Good
<1>2. \A k \in 1 .. n + 1 : k \in Good
  BY <1>1, Backward
<1> QED
  BY <1>2 DEF Good

-----------------------------------------------------------------------------
(* Positions in a buffer. *)

(* x is d bytes and then y. *)
EndsWith(x, y, d) == Len(x) = Len(y) + d /\ \A k \in 1 .. Len(y) : x[k + d] = y[k]

(* The first end of a subnegotiation is an end, and the first. *)
LEMMA FirstEnd ==
  ASSUME NEW in \in Seq(Bytes), NEW i \in Nat, SbEnds(in, i) # {}
  PROVE  /\ FirstOf(SbEnds(in, i)) \in SbEnds(in, i)
         /\ \A k \in SbEnds(in, i) : FirstOf(SbEnds(in, i)) <= k
<1>1. SbEnds(in, i) \in SUBSET Nat
  BY LenProperties DEF SbEnds
<1>2. \E j \in SbEnds(in, i) : \A k \in SbEnds(in, i) : j <= k
  BY <1>1, Least
<1> QED
  BY <1>2 DEF FirstOf

(* Where the scan goes on behind a subnegotiation. *)
LEMMA EndRange ==
  ASSUME NEW in \in Seq(Bytes), NEW i \in Nat, SbEnds(in, i) # {}
  PROVE  FirstOf(SbEnds(in, i)) + 2 \in i + 4 .. Len(in) + 1
  BY FirstEnd, LenProperties DEF SbEnds

(* An end that no other one precedes is the first. *)
LEMMA FirstUnique ==
  ASSUME NEW in \in Seq(Bytes), NEW i \in Nat, NEW j \in SbEnds(in, i),
         \A k \in SbEnds(in, i) : j <= k
  PROVE  FirstOf(SbEnds(in, i)) = j
<1>1. FirstOf(SbEnds(in, i)) \in SbEnds(in, i) /\ FirstOf(SbEnds(in, i)) <= j
  BY FirstEnd
<1>2. SbEnds(in, i) \subseteq Nat
  BY LenProperties DEF SbEnds
<1> QED
  BY <1>1, <1>2

(* The ends of a subnegotiation move with the bytes. *)
LEMMA SbShift ==
  ASSUME NEW x \in Seq(Bytes), NEW y \in Seq(Bytes), NEW d \in Nat, EndsWith(x, y, d),
         NEW k \in 1 .. Len(y)
  PROVE  /\ SbEnds(x, k + d) = {} <=> SbEnds(y, k) = {}
         /\ SbEnds(y, k) # {} => FirstOf(SbEnds(x, k + d)) = FirstOf(SbEnds(y, k)) + d
<1>0. Len(y) \in Nat /\ Len(x) = Len(y) + d /\ k \in Nat /\ k + d \in Nat
  BY LenProperties DEF EndsWith
<1>1. \A j \in SbEnds(y, k) : j + d \in SbEnds(x, k + d)
  <2> TAKE j \in SbEnds(y, k)
  <2>1. j \in k + 2 .. Len(y) - 1 /\ y[j] = "IAC" /\ y[j + 1] = "SE"
    BY DEF SbEnds
  <2>2. j \in 1 .. Len(y) /\ j + 1 \in 1 .. Len(y) /\ (j + 1) + d = (j + d) + 1
    BY <1>0, <2>1
  <2>3. x[j + d] = "IAC" /\ x[(j + d) + 1] = "SE"
    BY <2>1, <2>2 DEF EndsWith
  <2>4. j + d \in (k + d) + 2 .. Len(x) - 1
    BY <1>0, <2>1
  <2> QED
    BY <2>3, <2>4 DEF SbEnds
<1>2. \A j \in SbEnds(x, k + d) : j - d \in SbEnds(y, k) /\ (j - d) + d = j
  <2> TAKE j \in SbEnds(x, k + d)
  <2>1. j \in (k + d) + 2 .. Len(x) - 1 /\ x[j] = "IAC" /\ x[j + 1] = "SE"
    BY DEF SbEnds
  <2>2. j - d \in 1 .. Len(y) /\ (j - d) + 1 \in 1 .. Len(y) /\ (j - d) + d = j
        /\ ((j - d) + 1) + d = j + 1
    BY <1>0, <2>1
  <2>3. y[j - d] = "IAC" /\ y[(j - d) + 1] = "SE"
    BY <2>1, <2>2 DEF EndsWith
  <2>4. j - d \in k + 2 .. Len(y) - 1
    BY <1>0, <2>1
  <2> QED
    BY <2>2, <2>3, <2>4 DEF SbEnds
<1>3. ASSUME SbEnds(y, k) # {}
      PROVE  FirstOf(SbEnds(x, k + d)) = FirstOf(SbEnds(y, k)) + d
  <2> DEFINE f == FirstOf(SbEnds(y, k))
  <2>1. f \in SbEnds(y, k) /\ \A j \in SbEnds(y, k) : f <= j
    BY <1>0, <1>3, FirstEnd
  <2> HIDE DEF f
  <2>2. f + d \in SbEnds(x, k + d)
    BY <1>1, <2>1
  <2>3. \A j \in SbEnds(x, k + d) : f + d <= j
    <3> TAKE j \in SbEnds(x, k + d)
    <3>1. f <= j - d
      BY <1>2, <2>1
    <3>2. f \in Nat /\ j \in Nat
      BY <1>0, <2>1 DEF SbEnds
    <3> QED
      BY <3>1, <3>2
  <2>4. FirstOf(SbEnds(x, k + d)) = f + d
    BY <1>0, <2>2, <2>3, FirstUnique
  <2> QED
    BY <2>4 DEF f
<1> QED
  BY <1>1, <1>2, <1>3

(* Every turn of iac_filter's loop moves forward, and not past the end. *)
LEMMA FilterTokensType ==
  ASSUME NEW in \in Seq(Bytes)
  PROVE  FilterTokens(in) \in Tokens(Len(in)) /\ Len(in) \in Nat
<1>0. Len(in) \in Nat
  BY LenProperties
<1>1. ASSUME NEW i \in 1 .. Len(in)
      PROVE  /\ FilterToken(in, i) \in [next : Nat, plain : Seq(Bytes), replies : Seq(Bytes), carry : Seq(Bytes)]
             /\ FilterToken(in, i).next \in i + 1 .. Len(in) + 1
  <2>1. in[i] \in Bytes /\ (i # Len(in) => in[i + 1] \in Bytes)
    BY <1>0, ElementOfSeq
  <2>2. \A b \in Bytes : <<b>> \in Seq(Bytes)
    OBVIOUS
  <2>3. \A b, c \in Bytes : <<b, c>> \in Seq(Bytes)
    OBVIOUS
  <2>4. <<>> \in Seq(Bytes) /\ <<"IAC">> \in Seq(Bytes) /\ <<"WONT">> \in Seq(Bytes)
        /\ <<"DONT">> \in Seq(Bytes)
    BY DEF Bytes, Negotiation
  <2>5. CASE in[i] # "IAC"
    BY <1>0, <2>1, <2>2, <2>4, <2>5 DEF FilterToken, Data, Token
  <2>6. CASE in[i] = "IAC" /\ Cut(in, i)
    <3>1. Held(in, i) \in Seq(Bytes)
      BY <2>1, <2>2, <2>3 DEF Held
    <3> QED
      BY <1>0, <2>4, <2>6, <3>1 DEF FilterToken, Token
  <2>7. CASE in[i] = "IAC" /\ ~Cut(in, i)
    <3>1. i < Len(in)
      BY <1>0, <2>7 DEF Cut
    <3>2. in[i + 1] = "SB" => SbEnds(in, i) # {}
      BY <2>7 DEF Cut
    <3>3. in[i + 1] \in Negotiation => i + 2 <= Len(in)
      BY <1>0, <2>7 DEF Cut
    <3>4. in[i + 1] = "SB" => FirstOf(SbEnds(in, i)) + 2 \in i + 4 .. Len(in) + 1
      BY <3>2, EndRange
    <3>5. CASE in[i + 1] = "SB"
      BY <1>0, <2>4, <2>7, <3>4, <3>5 DEF FilterToken, Skip, Data, Token
    <3>6. CASE in[i + 1] # "SB"
      BY <1>0, <2>4, <2>7, <3>1, <3>3, <3>6 DEF FilterToken, Skip, Data, Token, Negotiation
    <3> QED
      BY <3>5, <3>6
  <2> QED
    BY <2>5, <2>6, <2>7
<1> QED
  BY <1>0, <1>1 DEF FilterTokens, Tokens

(* iac_filter reads a suffix of a buffer as it reads that suffix alone. *)
LEMMA FilterShift ==
  ASSUME NEW x \in Seq(Bytes), NEW y \in Seq(Bytes), NEW d \in Nat, EndsWith(x, y, d)
  PROVE  \A k \in 1 .. Len(y) + 1 :
           Parse(FilterTokens(x))[k + d] = Parse(FilterTokens(y))[k]
<1>0. Len(y) \in Nat /\ Len(x) = Len(y) + d /\ Len(x) \in Nat
  BY LenProperties DEF EndsWith
<1>1. ASSUME NEW k \in 1 .. Len(y)
      PROVE  FilterTokens(x)[k + d] = Moved(FilterTokens(y)[k], d)
  <2>1. /\ SbEnds(x, k + d) = {} <=> SbEnds(y, k) = {}
        /\ SbEnds(y, k) # {} => FirstOf(SbEnds(x, k + d)) = FirstOf(SbEnds(y, k)) + d
    BY SbShift
  <2>2. /\ x[k + d] = y[k]
        /\ k # Len(y) => x[(k + d) + 1] = y[k + 1]
        /\ k + d = Len(x) <=> k = Len(y)
        /\ (k + d) + 2 > Len(x) <=> k + 2 > Len(y)
        /\ k + d \in 1 .. Len(x)
    <3>1. k # Len(y) => k + 1 \in 1 .. Len(y) /\ (k + d) + 1 = (k + 1) + d
      BY <1>0
    <3>2. k # Len(y) => x[(k + d) + 1] = y[k + 1]
      BY <3>1 DEF EndsWith
    <3>3. x[k + d] = y[k]
      BY DEF EndsWith
    <3>4. /\ k + d = Len(x) <=> k = Len(y)
          /\ (k + d) + 2 > Len(x) <=> k + 2 > Len(y)
          /\ k + d \in 1 .. Len(x)
      BY <1>0
    <3> QED
      BY <3>2, <3>3, <3>4
  <2>3. (Cut(x, k + d) <=> Cut(y, k)) /\ Held(x, k + d) = Held(y, k)
    BY <2>1, <2>2 DEF Cut, Held
  <2>4. SbEnds(y, k) # {} => FirstOf(SbEnds(y, k)) \in Nat
    BY <1>0, FirstEnd DEF SbEnds
  <2>5. FilterToken(x, k + d) = Moved(FilterToken(y, k), d)
    <3>1. CASE y[k] # "IAC"
      BY <1>0, <2>2, <3>1 DEF FilterToken, Moved, Data, Token
    <3>2. CASE y[k] = "IAC" /\ Cut(y, k)
      BY <1>0, <2>2, <2>3, <3>2 DEF FilterToken, Moved, Token
    <3>3. CASE y[k] = "IAC" /\ ~Cut(y, k)
      <4>1. k # Len(y) /\ (y[k + 1] = "SB" => SbEnds(y, k) # {})
        BY <3>3 DEF Cut
      <4>2. x[k + d] = "IAC" /\ ~Cut(x, k + d) /\ x[(k + d) + 1] = y[k + 1]
        BY <2>2, <2>3, <3>3, <4>1
      <4>3. CASE y[k + 1] = "SB"
        <5>1. FilterToken(y, k) = Skip(FirstOf(SbEnds(y, k)) + 2)
          BY <3>3, <4>3 DEF FilterToken
        <5>2. FilterToken(x, k + d) = Skip(FirstOf(SbEnds(x, k + d)) + 2)
          BY <4>2, <4>3 DEF FilterToken
        <5>3. FirstOf(SbEnds(x, k + d)) + 2 = (FirstOf(SbEnds(y, k)) + 2) + d
          BY <2>1, <2>4, <4>1, <4>3
        <5> QED
          BY <5>1, <5>2, <5>3 DEF Moved, Skip, Data, Token
      <4>4. CASE y[k + 1] # "SB"
        <5>1. (k + d) + 2 = (k + 2) + d /\ (k + d) + 3 = (k + 3) + d
          BY <1>0
        <5> QED
          BY <3>3, <4>2, <4>4, <5>1 DEF FilterToken, Moved, Skip, Data, Token
      <4> QED
        BY <4>3, <4>4
    <3> QED
      BY <3>1, <3>2, <3>3
  <2> QED
    BY <2>2, <2>5 DEF FilterTokens
<1>2. FilterTokens(x) \in Tokens(Len(y) + d) /\ FilterTokens(y) \in Tokens(Len(y))
  BY <1>0, FilterTokensType
<1> QED
  BY <1>0, <1>1, <1>2, Shift

(* SubSeq(x, i, Len(x)) is what x ends with. *)
LEMMA Suffix ==
  ASSUME NEW x \in Seq(Bytes), NEW i \in 1 .. Len(x) + 1
  PROVE  /\ SubSeq(x, i, Len(x)) \in Seq(Bytes)
         /\ EndsWith(x, SubSeq(x, i, Len(x)), i - 1)
<1>0. Len(x) \in Nat
  BY LenProperties
<1>1. /\ SubSeq(x, i, Len(x)) \in Seq(Bytes)
      /\ Len(SubSeq(x, i, Len(x))) = Len(x) - i + 1
      /\ \A k \in 1 .. Len(x) - i + 1 : SubSeq(x, i, Len(x))[k] = x[i + k - 1]
  BY <1>0, SubSeqProperties
<1> QED
  BY <1>0, <1>1 DEF EndsWith

(* What iac_filter does from a position on is what it does with the rest   *)
(* of the buffer.                                                          *)
LEMMA FilterFrom ==
  ASSUME NEW x \in Seq(Bytes), NEW y \in Seq(Bytes), NEW d \in Nat, EndsWith(x, y, d)
  PROVE  Parse(FilterTokens(x))[d + 1] = Filter(y)
<1>1. 1 \in 1 .. Len(y) + 1 /\ 1 + d = d + 1
  BY LenProperties
<1> QED
  BY <1>1, FilterShift DEF Filter

(* A turn of iac_filter's loop. *)
LEMMA FilterStep ==
  ASSUME NEW in \in Seq(Bytes), NEW i \in 1 .. Len(in)
  PROVE  /\ Parse(FilterTokens(in))[i]
              = Then(FilterToken(in, i), Parse(FilterTokens(in))[FilterToken(in, i).next])
         /\ FilterToken(in, i).next \in i + 1 .. Len(in) + 1
         /\ Parse(FilterTokens(in))[i] \in Result
<1>1. FilterTokens(in) \in Tokens(Len(in)) /\ Len(in) \in Nat
  BY FilterTokensType
<1>2. FilterTokens(in)[i] = FilterToken(in, i)
  BY DEF FilterTokens
<1>3. i \in 1 .. Len(in) + 1 /\ ~(i > Len(in))
  BY <1>1
<1>4. FilterTokens(in)[i].next \in i + 1 .. Len(in) + 1
  BY <1>1 DEF Tokens
<1> QED
  BY <1>1, <1>2, <1>3, <1>4, ParseDef, ParseType

(* The end of iac_filter's loop. *)
LEMMA FilterEnd ==
  ASSUME NEW in \in Seq(Bytes)
  PROVE  Parse(FilterTokens(in))[Len(in) + 1] = Nothing
<1>1. FilterTokens(in) \in Tokens(Len(in)) /\ Len(in) \in Nat
  BY FilterTokensType
<1>2. Len(in) + 1 \in 1 .. Len(in) + 1 /\ Len(in) + 1 > Len(in)
  BY <1>1
<1> QED
  BY <1>1, <1>2, ParseDef

(* Filter yields a result. *)
LEMMA FilterType ==
  ASSUME NEW in \in Seq(Bytes)
  PROVE  Filter(in) \in Result
<1>1. FilterTokens(in) \in Tokens(Len(in)) /\ Len(in) \in Nat
  BY FilterTokensType
<1>2. 1 \in 1 .. Len(in) + 1
  BY <1>1
<1> QED
  BY <1>1, <1>2, ParseType DEF Filter

(* A sequence that is cut short yields what is held of it. *)
LEMMA CutResult ==
  ASSUME NEW in \in Seq(Bytes), NEW i \in 1 .. Len(in), in[i] = "IAC", Cut(in, i)
  PROVE  Parse(FilterTokens(in))[i] = [plain |-> <<>>, replies |-> <<>>, carry |-> Held(in, i)]
<1>1. FilterToken(in, i) = Token(Len(in) + 1, <<>>, <<>>, Held(in, i))
  BY DEF FilterToken
<1>2. Parse(FilterTokens(in))[i] = Then(FilterToken(in, i), Nothing)
  BY <1>1, FilterStep, FilterEnd DEF Token
<1>3. Held(in, i) \in Seq(Bytes)
  <2>1. Len(in) \in Nat /\ in[i] \in Bytes /\ (i # Len(in) => in[i + 1] \in Bytes)
    BY LenProperties, ElementOfSeq
  <2> QED
    BY <2>1 DEF Held
<1>4. Held(in, i) \o <<>> = Held(in, i)
  BY <1>3, ConcatEmptySeq
<1>5. <<>> \o <<>> = <<>>
  BY EmptySeq, ConcatEmptySeq
<1> QED
  BY <1>1, <1>2, <1>4, <1>5 DEF Then, Token, Nothing

(* The bytes of an unfinished subnegotiation can be forgotten, unless they *)
(* hold its end or the IAC of it.                                          *)
LEMMA DropBody ==
  ASSUME NEW y \in Seq(Bytes), NEW z \in Seq(Bytes), NEW e \in Nat,
         Len(y) = Len(z) + e, Len(z) >= 2,
         y[1] = "IAC", y[2] = "SB", z[1] = "IAC", z[2] = "SB",
         \A k \in 3 .. Len(z) : y[k + e] = z[k],
         \A j \in 3 .. 2 + e : ~(j < Len(y) /\ y[j] = "IAC" /\ y[j + 1] = "SE")
  PROVE  Filter(y) = Filter(z)
<1>0. Len(y) \in Nat /\ Len(z) \in Nat
  BY LenProperties
<1>1. \A j \in SbEnds(z, 1) : j + e \in SbEnds(y, 1)
  <2> TAKE j \in SbEnds(z, 1)
  <2>1. j \in 3 .. Len(z) - 1 /\ z[j] = "IAC" /\ z[j + 1] = "SE"
    BY DEF SbEnds
  <2>2. j \in 3 .. Len(z) /\ j + 1 \in 3 .. Len(z) /\ (j + 1) + e = (j + e) + 1
    BY <1>0, <2>1
  <2>3. j + e \in 3 .. Len(y) - 1 /\ y[j + e] = "IAC" /\ y[(j + e) + 1] = "SE"
    BY <1>0, <2>1, <2>2
  <2> QED
    BY <2>3 DEF SbEnds
<1>2. \A j \in SbEnds(y, 1) : j - e \in SbEnds(z, 1) /\ (j - e) + e = j
  <2> TAKE j \in SbEnds(y, 1)
  <2>1. j \in 3 .. Len(y) - 1 /\ y[j] = "IAC" /\ y[j + 1] = "SE"
    BY DEF SbEnds
  <2>2. j \notin 3 .. 2 + e
    BY <1>0, <2>1
  <2>3. j - e \in 3 .. Len(z) - 1 /\ (j - e) + e = j /\ ((j - e) + 1) + e = j + 1
    BY <1>0, <2>1, <2>2
  <2>4. z[j - e] = "IAC" /\ z[(j - e) + 1] = "SE"
    <3>1. j - e \in 3 .. Len(z) /\ (j - e) + 1 \in 3 .. Len(z)
      BY <1>0, <2>3
    <3> QED
      BY <2>1, <2>3, <3>1
  <2> QED
    BY <2>3, <2>4 DEF SbEnds
<1>3. 1 \in 1 .. Len(y) /\ 1 \in 1 .. Len(z) /\ 1 # Len(y) /\ 1 # Len(z) /\ 1 + 1 = 2
  BY <1>0
<1>4. CASE SbEnds(z, 1) = {}
  <2>1. SbEnds(y, 1) = {}
    BY <1>2, <1>4
  <2>2. Cut(y, 1) /\ Cut(z, 1) /\ Held(y, 1) = Held(z, 1)
    BY <1>3, <1>4, <2>1 DEF Cut, Held
  <2> QED
    BY <1>3, <2>2, CutResult DEF Filter
<1>5. CASE SbEnds(z, 1) # {}
  <2> DEFINE f == FirstOf(SbEnds(z, 1))
  <2>1. f \in SbEnds(z, 1) /\ \A j \in SbEnds(z, 1) : f <= j
    BY <1>5, FirstEnd
  <2>2. f \in Nat /\ f + 2 \in 1 .. Len(z) + 1
    BY <1>0, <2>1 DEF SbEnds
  <2> HIDE DEF f
  <2>3. SbEnds(y, 1) # {}
    BY <1>1, <2>1
  <2>4. FirstOf(SbEnds(y, 1)) = f + e
    <3>1. \A j \in SbEnds(y, 1) : f + e <= j
      <4> TAKE j \in SbEnds(y, 1)
      <4>1. f <= j - e
        BY <1>2, <2>1
      <4>2. j \in Nat
        BY <1>0 DEF SbEnds
      <4> QED
        BY <2>2, <4>1, <4>2
    <3>2. f + e \in SbEnds(y, 1)
      BY <1>1, <2>1
    <3> QED
      BY <3>1, <3>2, FirstUnique
  <2>5. ~Cut(y, 1) /\ ~Cut(z, 1)
    BY <1>3, <1>5, <2>3 DEF Cut, Negotiation
  <2>6. FilterToken(y, 1) = Skip((f + e) + 2) /\ FilterToken(z, 1) = Skip(f + 2)
    BY <1>3, <2>4, <2>5 DEF FilterToken, f
  <2> DEFINE w == SubSeq(z, f + 2, Len(z))
  <2>7. w \in Seq(Bytes) /\ EndsWith(z, w, (f + 2) - 1)
    BY <2>2, Suffix
  <2> HIDE DEF w
  <2>8. EndsWith(y, w, ((f + e) + 2) - 1)
    <3>1. Len(w) \in Nat /\ Len(z) = Len(w) + ((f + 2) - 1)
      BY <2>7, LenProperties DEF EndsWith
    <3>2. ASSUME NEW k \in 1 .. Len(w) PROVE y[k + (((f + e) + 2) - 1)] = w[k]
      <4>1. z[k + ((f + 2) - 1)] = w[k]
        BY <2>7 DEF EndsWith
      <4>2. f >= 3
        BY <1>0, <2>1 DEF SbEnds
      <4>3. k + ((f + 2) - 1) \in 3 .. Len(z)
            /\ (k + ((f + 2) - 1)) + e = k + (((f + e) + 2) - 1)
        BY <2>2, <3>1, <4>2
      <4> QED
        BY <4>1, <4>3
    <3> QED
      BY <2>2, <3>1, <3>2 DEF EndsWith
  <2>9. Parse(FilterTokens(z))[f + 2] = Filter(w) /\ Parse(FilterTokens(y))[(f + e) + 2] = Filter(w)
    <3>1. (f + 2) - 1 \in Nat /\ ((f + 2) - 1) + 1 = f + 2
          /\ ((f + e) + 2) - 1 \in Nat /\ (((f + e) + 2) - 1) + 1 = (f + e) + 2
      BY <2>2
    <3>2. Parse(FilterTokens(z))[((f + 2) - 1) + 1] = Filter(w)
      BY <2>7, <3>1, FilterFrom
    <3>3. Parse(FilterTokens(y))[(((f + e) + 2) - 1) + 1] = Filter(w)
      BY <2>7, <2>8, <3>1, FilterFrom
    <3> QED
      BY <3>1, <3>2, <3>3
  <2>10. Filter(y) = Then(Skip((f + e) + 2), Filter(w)) /\ Filter(z) = Then(Skip(f + 2), Filter(w))
    BY <1>3, <2>6, <2>9, FilterStep DEF Filter, Skip, Data, Token
  <2> QED
    BY <2>10 DEF Then, Skip, Data, Token
<1> QED
  BY <1>4, <1>5

-----------------------------------------------------------------------------
(* Two buffers, one after the other. *)

(* The bytes of a joined buffer. *)
LEMMA Front ==
  ASSUME NEW s \in Seq(Bytes), NEW c \in Seq(Bytes)
  PROVE  /\ s \o c \in Seq(Bytes) /\ Len(s) \in Nat /\ Len(c) \in Nat
         /\ Len(s \o c) = Len(s) + Len(c)
         /\ \A k \in 1 .. Len(s) : (s \o c)[k] = s[k]
         /\ \A k \in 1 .. Len(c) : (s \o c)[Len(s) + k] = c[k]
         /\ EndsWith(s \o c, c, Len(s))
<1>1. Len(s) \in Nat /\ Len(c) \in Nat
  BY LenProperties
<1>2. /\ s \o c \in Seq(Bytes) /\ Len(s \o c) = Len(s) + Len(c)
      /\ \A k \in 1 .. Len(s) + Len(c) :
           (s \o c)[k] = IF k <= Len(s) THEN s[k] ELSE c[k - Len(s)]
  BY ConcatProperties
<1>3. \A k \in 1 .. Len(c) : (s \o c)[Len(s) + k] = c[k]
  <2> TAKE k \in 1 .. Len(c)
  <2>1. Len(s) + k \in 1 .. Len(s) + Len(c) /\ ~(Len(s) + k <= Len(s)) /\ (Len(s) + k) - Len(s) = k
    BY <1>1
  <2> QED
    BY <1>2, <2>1
<1>4. \A k \in 1 .. Len(s) : (s \o c)[k] = s[k]
  BY <1>1, <1>2
<1>5. \A k \in 1 .. Len(c) : Len(s) + k = k + Len(s)
  BY <1>1
<1>6. EndsWith(s \o c, c, Len(s))
  BY <1>1, <1>2, <1>3, <1>5 DEF EndsWith
<1> QED
  BY <1>1, <1>2, <1>3, <1>4, <1>6

(* A subnegotiation that has ended has the same first end in a longer      *)
(* buffer.                                                                 *)
LEMMA EndsKept ==
  ASSUME NEW s \in Seq(Bytes), NEW c \in Seq(Bytes), NEW i \in 1 .. Len(s), SbEnds(s, i) # {}
  PROVE  /\ SbEnds(s \o c, i) # {}
         /\ FirstOf(SbEnds(s \o c, i)) = FirstOf(SbEnds(s, i))
<1> DEFINE f == FirstOf(SbEnds(s, i))
<1>0. i \in Nat /\ Len(s) \in Nat /\ s \o c \in Seq(Bytes) /\ Len(s \o c) \in Nat /\ Len(s \o c) >= Len(s)
  BY Front
<1>1. f \in SbEnds(s, i) /\ \A j \in SbEnds(s, i) : f <= j
  BY <1>0, FirstEnd
<1> HIDE DEF f
<1>2. f \in i + 2 .. Len(s) - 1 /\ s[f] = "IAC" /\ s[f + 1] = "SE"
  BY <1>1 DEF SbEnds
<1>3. f \in 1 .. Len(s) /\ f + 1 \in 1 .. Len(s) /\ f \in i + 2 .. Len(s \o c) - 1
  BY <1>0, <1>2
<1>4. f \in SbEnds(s \o c, i)
  BY <1>2, <1>3, Front DEF SbEnds
<1>5. \A k \in SbEnds(s \o c, i) : f <= k
  <2> SUFFICES ASSUME NEW k \in SbEnds(s \o c, i), ~(f <= k) PROVE FALSE
    OBVIOUS
  <2>1. k \in i + 2 .. Len(s \o c) - 1 /\ (s \o c)[k] = "IAC" /\ (s \o c)[k + 1] = "SE"
    BY DEF SbEnds
  <2>2. k < f /\ k \in 1 .. Len(s) /\ k + 1 \in 1 .. Len(s) /\ k \in i + 2 .. Len(s) - 1
    BY <1>0, <1>2, <2>1
  <2>3. k \in SbEnds(s, i)
    BY <2>1, <2>2, Front DEF SbEnds
  <2> QED
    BY <1>1, <2>3
<1>6. FirstOf(SbEnds(s \o c, i)) = f
  BY <1>0, <1>4, <1>5, FirstUnique
<1> QED
  BY <1>4, <1>6 DEF f

(* A token that the end of the first buffer does not cut is the same in    *)
(* the joined buffer.                                                      *)
LEMMA TokenKept ==
  ASSUME NEW s \in Seq(Bytes), NEW c \in Seq(Bytes), NEW i \in 1 .. Len(s),
         s[i] # "IAC" \/ ~Cut(s, i)
  PROVE  FilterToken(s \o c, i) = FilterToken(s, i) /\ FilterToken(s, i).carry = <<>>
<1>0. /\ Len(s) \in Nat /\ Len(c) \in Nat /\ Len(s \o c) = Len(s) + Len(c)
      /\ (s \o c)[i] = s[i]
  BY Front
<1>1. CASE s[i] # "IAC"
  BY <1>0, <1>1 DEF FilterToken, Data, Token
<1>2. CASE s[i] = "IAC" /\ ~Cut(s, i)
  <2>1. i # Len(s) /\ i + 1 \in 1 .. Len(s)
    BY <1>0, <1>2 DEF Cut
  <2>2. (s \o c)[i + 1] = s[i + 1]
    BY <2>1, Front
  <2>3. s[i + 1] = "SB" => /\ SbEnds(s \o c, i) # {}
                           /\ FirstOf(SbEnds(s \o c, i)) = FirstOf(SbEnds(s, i))
    BY <1>2, EndsKept DEF Cut
  <2>4. ~Cut(s \o c, i)
    BY <1>0, <1>2, <2>1, <2>2, <2>3 DEF Cut
  <2>5. CASE s[i + 1] = "SB"
    BY <1>0, <1>2, <2>2, <2>3, <2>4, <2>5 DEF FilterToken, Skip, Data, Token
  <2>6. CASE s[i + 1] # "SB"
    BY <1>0, <1>2, <2>2, <2>4, <2>6 DEF FilterToken, Skip, Data, Token
  <2> QED
    BY <2>5, <2>6
<1> QED
  BY <1>1, <1>2

(* Concatenation of byte streams is associative. *)
LEMMA Assoc ==
  ASSUME NEW a \in Seq(Bytes), NEW b \in Seq(Bytes), NEW c \in Seq(Bytes)
  PROVE  a \o (b \o c) = (a \o b) \o c
  BY ConcatAssociative, SMTT(30)

(* What two results are together when the second one began with what the   *)
(* first one held back.                                                    *)
Joined(a, b) == [plain |-> a.plain \o b.plain, replies |-> a.replies \o b.replies, carry |-> b.carry]

(* The parts of a joined result. *)
LEMMA JoinedParts ==
  ASSUME NEW a, NEW b
  PROVE  /\ Joined(a, b).plain = a.plain \o b.plain
         /\ Joined(a, b).replies = a.replies \o b.replies
         /\ Joined(a, b).carry = b.carry
  BY Zenon DEF Joined

(* A token in front of a joined result. *)
LEMMA JoinedThen ==
  ASSUME NEW t, t \in [next : Nat, plain : Seq(Bytes), replies : Seq(Bytes), carry : Seq(Bytes)],
         t.carry = <<>>, NEW a \in Result, NEW b \in Result
  PROVE  Then(t, a).carry = a.carry /\ Then(t, Joined(a, b)) = Joined(Then(t, a), b)
<1>1. <<>> \o a.carry = a.carry /\ <<>> \o b.carry = b.carry
  BY ConcatEmptySeq DEF Result
<1>2. t.plain \o (a.plain \o b.plain) = (t.plain \o a.plain) \o b.plain
  <2>1. t.plain \in Seq(Bytes) /\ a.plain \in Seq(Bytes) /\ b.plain \in Seq(Bytes)
    BY DEF Result
  <2> QED
    BY ONLY <2>1, Assoc, Zenon
<1>3. t.replies \o (a.replies \o b.replies) = (t.replies \o a.replies) \o b.replies
  <2>1. t.replies \in Seq(Bytes) /\ a.replies \in Seq(Bytes) /\ b.replies \in Seq(Bytes)
    BY DEF Result
  <2> QED
    BY ONLY <2>1, Assoc, Zenon
<1> QED
  BY <1>1, <1>2, <1>3 DEF Then, Joined

(* A joined result whose first part yields nothing. *)
LEMMA JoinedEmpty ==
  ASSUME NEW b \in Result
  PROVE  \A w : Joined([plain |-> <<>>, replies |-> <<>>, carry |-> w], b) = b
<1>1. <<>> \o b.plain = b.plain /\ <<>> \o b.replies = b.replies
  BY ConcatEmptySeq DEF Result
<1>2. b = [plain |-> b.plain, replies |-> b.replies, carry |-> b.carry]
  BY DEF Result
<1> QED
  BY <1>1, <1>2 DEF Joined

(* The carry stands for the sequence that was cut. *)
LEMMA CutJoin ==
  ASSUME NEW s \in Seq(Bytes), NEW c \in Seq(Bytes), NEW i \in 1 .. Len(s),
         s[i] = "IAC", Cut(s, i), ~(Held(s, i) = <<"IAC", "SB">> /\ s[Len(s)] = "IAC")
  PROVE  Parse(FilterTokens(s \o c))[i] = Filter(Held(s, i) \o c) /\ Held(s, i) \in Seq(Bytes)
<1> DEFINE x == s \o c
           n == Len(s)
           y == SubSeq(x, i, Len(x))
           h == Held(s, i)
           z == h \o c
<1>0. /\ x \in Seq(Bytes) /\ n \in Nat /\ Len(c) \in Nat /\ Len(x) = n + Len(c) /\ i \in 1 .. n
      /\ \A k \in 1 .. n : x[k] = s[k]
      /\ \A k \in 1 .. Len(c) : x[n + k] = c[k]
  BY Front
<1>1. i \in 1 .. Len(x) + 1 /\ i - 1 \in Nat /\ (i - 1) + 1 = i
  BY <1>0
<1> HIDE DEF x, n
<1>2. y \in Seq(Bytes) /\ EndsWith(x, y, i - 1)
  BY <1>0, <1>1, Suffix
<1>3. Parse(FilterTokens(x))[i] = Filter(y)
  <2> HIDE DEF y
  <2>1. Parse(FilterTokens(x))[(i - 1) + 1] = Filter(y)
    BY <1>0, <1>1, <1>2, FilterFrom
  <2> QED
    BY <1>1, <2>1
<1> HIDE DEF y
<1>4. /\ Len(y) \in Nat /\ Len(y) = (n - i) + 1 + Len(c)
      /\ \A k \in 1 .. Len(y) : y[k] = x[k + (i - 1)]
  BY <1>0, <1>1, <1>2, LenProperties DEF EndsWith
<1>5. /\ s[i] \in Bytes /\ (i # n => s[i + 1] \in Bytes)
      /\ h = IF i = n THEN <<s[i]>> ELSE <<s[i], s[i + 1]>>
  <2>1. i \in 1 .. Len(s) /\ (i # n => i + 1 \in 1 .. Len(s))
    BY <1>0 DEF n
  <2> QED
    BY <2>1, ElementOfSeq DEF Held, n
<1> HIDE DEF h
<1>6. h \in Seq(Bytes) /\ Len(h) = IF i = n THEN 1 ELSE 2
  BY <1>5
<1>7. /\ z \in Seq(Bytes) /\ Len(z) = Len(h) + Len(c)
      /\ \A k \in 1 .. Len(h) : z[k] = h[k]
      /\ \A k \in 1 .. Len(c) : z[Len(h) + k] = c[k]
  BY <1>6, Front
<1> HIDE DEF z
<1>8. y[1] = "IAC" /\ z[1] = "IAC"
  <2>1. 1 \in 1 .. Len(y) /\ 1 + (i - 1) = i
    BY <1>0, <1>4
  <2>2. y[1] = "IAC"
    BY <1>0, <1>4, <2>1
  <2>3. h[1] = "IAC" /\ 1 \in 1 .. Len(h)
    BY <1>5, <1>6
  <2> QED
    BY <1>7, <2>2, <2>3
<1>9. CASE i = n
  <2>1. Len(z) = Len(y)
    BY <1>0, <1>4, <1>6, <1>7, <1>9
  <2>2. \A k \in 1 .. Len(y) : y[k] = z[k]
    <3> TAKE k \in 1 .. Len(y)
    <3>1. CASE k = 1
      BY <1>8, <3>1
    <3>2. CASE k # 1
      <4>1. k - 1 \in 1 .. Len(c) /\ n + (k - 1) = k + (i - 1) /\ Len(h) + (k - 1) = k
        BY <1>0, <1>4, <1>6, <1>9, <3>2
      <4>2. x[n + (k - 1)] = c[k - 1]
        BY <1>0, <4>1
      <4>3. z[Len(h) + (k - 1)] = c[k - 1]
        BY <1>7, <4>1
      <4> QED
        BY <1>4, <4>1, <4>2, <4>3
    <3> QED
      BY <3>1, <3>2
  <2>3. y = z
    BY <1>2, <1>7, <2>1, <2>2, SeqEqual
  <2> QED
    BY <1>3, <1>6, <2>3 DEF x, z, h
<1>10. CASE i # n
  <2> DEFINE e == (n - i) - 1
  <2>1. e \in Nat /\ i + 1 \in 1 .. n /\ Len(h) = 2 /\ Len(z) >= 2 /\ Len(y) = Len(z) + e
    BY <1>0, <1>4, <1>6, <1>7, <1>10
  <2>2. y[2] = s[i + 1] /\ z[2] = s[i + 1]
    <3>1. 2 \in 1 .. Len(y) /\ 2 + (i - 1) = i + 1 /\ 2 \in 1 .. Len(h)
      BY <1>0, <1>4, <2>1
    <3>2. h[2] = s[i + 1]
      BY <1>5, <1>10
    <3> QED
      BY <1>0, <1>4, <1>7, <2>1, <3>1, <3>2
  <2>3. \A k \in 3 .. Len(z) : y[k + e] = z[k]
    <3> TAKE k \in 3 .. Len(z)
    <3>0. Len(z) = 2 + Len(c) /\ Len(c) \in Nat
      BY <1>0, <1>7, <2>1
    <3>1. k - 2 \in 1 .. Len(c) /\ Len(h) + (k - 2) = k
      BY <2>1, <3>0
    <3>2. k + e \in 1 .. Len(y) /\ (k + e) + (i - 1) = n + (k - 2)
      BY <1>0, <2>1, <3>0
    <3>3. z[Len(h) + (k - 2)] = c[k - 2]
      BY <1>7, <3>1
    <3>4. x[n + (k - 2)] = c[k - 2]
      BY <1>0, <3>1
    <3>5. y[k + e] = x[(k + e) + (i - 1)]
      BY <1>4, <3>2
    <3> QED
      BY <3>1, <3>2, <3>3, <3>4, <3>5
  <2>4. CASE s[i + 1] = "SB"
    <3>1. SbEnds(s, i) = {}
      BY <1>10, <2>4 DEF Cut, n, Negotiation
    <3>2. s[n] # "IAC"
      BY <1>5, <1>10, <2>4 DEF n, h
    <3>3. ASSUME NEW j \in 3 .. 2 + e, j < Len(y), y[j] = "IAC", y[j + 1] = "SE"
          PROVE  FALSE
      <4> DEFINE k == j + (i - 1)
      <4>0. n \in Nat /\ i \in 1 .. n /\ Len(y) \in Nat
        BY <1>0, <1>4
      <4>1. k \in i + 2 .. n /\ k \in 1 .. n /\ j \in 1 .. Len(y) /\ j + 1 \in 1 .. Len(y)
            /\ (j + 1) + (i - 1) = k + 1
        <5> DEFINE m == Len(y)
        <5>1. m \in Nat /\ j < m /\ j \in 3 .. 2 + e
          BY <3>3, <4>0
        <5> HIDE DEF m, n
        <5>2. k \in i + 2 .. n /\ k \in 1 .. n /\ (j + 1) + (i - 1) = k + 1
          BY <4>0, <5>1
        <5>3. j \in 1 .. m /\ j + 1 \in 1 .. m
          BY <5>1
        <5> QED
          BY <5>2, <5>3 DEF m
      <4>2. x[k] = "IAC" /\ x[k + 1] = "SE" /\ s[k] = "IAC"
        BY <1>0, <1>4, <3>3, <4>1
      <4>3. k # n
        BY <3>2, <4>2
      <4>4. k \in i + 2 .. n - 1 /\ k + 1 \in 1 .. n
        BY <1>0, <4>1, <4>3
      <4>5. s[k + 1] = "SE"
        BY <1>0, <4>2, <4>4
      <4> QED
        BY <3>1, <4>2, <4>4, <4>5 DEF SbEnds, n
    <3>4. Filter(y) = Filter(z)
      <4> HIDE DEF e
      <4>1. \A j \in 3 .. 2 + e : ~(j < Len(y) /\ y[j] = "IAC" /\ y[j + 1] = "SE")
        BY <3>3
      <4>2. y[2] = "SB" /\ z[2] = "SB"
        BY <2>2, <2>4
      <4>3. e \in Nat /\ Len(y) = Len(z) + e /\ Len(z) >= 2
        BY <2>1
      <4> QED
        BY <1>2, <1>7, <1>8, <2>3, <4>1, <4>2, <4>3, DropBody
    <3> QED
      BY <1>3, <1>6, <3>4 DEF x, z, h
  <2>5. CASE s[i + 1] # "SB"
    <3>1. e = 0
      BY <1>0, <1>10, <2>5 DEF Cut, n
    <3>2. Len(y) = Len(z) /\ \A k \in 3 .. Len(z) : y[k] = z[k]
      <4>1. Len(z) \in Nat
        BY <1>7, LenProperties
      <4>2. \A k \in 3 .. Len(z) : k + e = k
        BY <3>1, <4>1
      <4> QED
        BY <2>1, <2>3, <3>1, <4>1, <4>2
    <3>3. \A k \in 1 .. Len(y) : y[k] = z[k]
      <4> TAKE k \in 1 .. Len(y)
      <4>1. k = 1 \/ k = 2 \/ k \in 3 .. Len(z)
        BY <1>4, <3>2
      <4> QED
        BY <1>8, <2>2, <3>2, <4>1
    <3>4. y = z
      BY <1>2, <1>7, <3>2, <3>3, SeqEqual
    <3> QED
      BY <1>3, <1>6, <3>4 DEF x, z, h
  <2> QED
    BY <2>4, <2>5
<1> QED
  BY <1>9, <1>10

(* iac_filter on two buffers in a row, the carry in front of the second,   *)
(* yields what it yields on the joined buffer, unless the first ends with  *)
(* the IAC that ends a subnegotiation.                                     *)
THEOREM FilterJoin ==
  ASSUME NEW s \in Seq(Bytes), NEW c \in Seq(Bytes),
         ~(Filter(s).carry = <<"IAC", "SB">> /\ s[Len(s)] = "IAC")
  PROVE  Filter(s \o c) = Joined(Filter(s), Filter(Filter(s).carry \o c))
<1> DEFINE n == Len(s)
           P(i) == Parse(FilterTokens(s))[i]
           Q(i) == Parse(FilterTokens(s \o c))[i]
           Whole(i) == P(i).carry = <<"IAC", "SB">> => s[n] # "IAC"
           Good == {i \in 1 .. n + 1 : Whole(i) => Q(i) = Joined(P(i), Filter(P(i).carry \o c))}
<1>0. /\ s \o c \in Seq(Bytes) /\ n \in Nat /\ Len(c) \in Nat /\ Len(s \o c) = n + Len(c)
      /\ EndsWith(s \o c, c, n)
  BY Front
<1>1. ASSUME NEW i \in 1 .. n + 1, \A j \in i + 1 .. n + 1 : j \in Good, Whole(i)
      PROVE  Q(i) = Joined(P(i), Filter(P(i).carry \o c))
  <2>1. CASE i = n + 1
    <3>1. P(i) = Nothing
      BY <2>1, FilterEnd
    <3>2. <<>> \o c = c
      BY ConcatEmptySeq
    <3>3. Q(i) = Filter(c)
      BY <1>0, <2>1, FilterFrom
    <3>4. Joined(Nothing, Filter(c)) = Filter(c)
      BY FilterType, JoinedEmpty DEF Nothing
    <3>5. Nothing.carry = <<>>
      BY DEF Nothing
    <3> QED
      BY <3>1, <3>2, <3>3, <3>4, <3>5
  <2>2. CASE i # n + 1 /\ (s[i] # "IAC" \/ ~Cut(s, i))
    <3> DEFINE t == FilterToken(s, i)
    <3>1. i \in 1 .. Len(s) /\ i \in 1 .. Len(s \o c)
      BY <1>0, <2>2
    <3>2. FilterToken(s \o c, i) = t /\ t.carry = <<>>
      BY <2>2, <3>1, TokenKept
    <3>3. P(i) = Then(t, P(t.next)) /\ t.next \in i + 1 .. n + 1
      BY <3>1, FilterStep
    <3>4. Q(i) = Then(t, Q(t.next))
      BY <1>0, <3>1, <3>2, FilterStep
    <3>5. t \in [next : Nat, plain : Seq(Bytes), replies : Seq(Bytes), carry : Seq(Bytes)]
      <4>1. FilterTokens(s) \in Tokens(Len(s)) /\ FilterTokens(s)[i] = t
        BY <3>1, FilterTokensType DEF FilterTokens
      <4> QED
        BY <3>1, <4>1 DEF Tokens
    <3>6. P(t.next) \in Result
      <4>1. t.next \in 1 .. Len(s) + 1
        BY <1>0, <3>1, <3>3
      <4> QED
        BY <4>1, FilterTokensType, ParseType
    <3> HIDE DEF t, P, Q
    <3>7. Filter(P(t.next).carry \o c) \in Result
      <4>1. P(t.next).carry \in Seq(Bytes)
        BY <3>6 DEF Result
      <4> QED
        BY <4>1, Front, FilterType
    <3>8. P(i).carry = P(t.next).carry
      <4> DEFINE b == Filter(P(t.next).carry \o c)
      <4>1. b \in Result
        BY <3>7
      <4> HIDE DEF b
      <4>2. Then(t, P(t.next)).carry = P(t.next).carry
        BY <3>2, <3>5, <3>6, <4>1, JoinedThen
      <4> QED
        BY <3>3, <4>2
    <3>9. Q(t.next) = Joined(P(t.next), Filter(P(t.next).carry \o c))
      BY <1>1, <3>3, <3>8
    <3> QED
      BY <3>2, <3>3, <3>4, <3>5, <3>6, <3>7, <3>8, <3>9, JoinedThen
  <2>3. CASE i # n + 1 /\ s[i] = "IAC" /\ Cut(s, i)
    <3>1. i \in 1 .. Len(s)
      BY <1>0, <2>3
    <3>2. P(i) = [plain |-> <<>>, replies |-> <<>>, carry |-> Held(s, i)]
      BY <2>3, <3>1, CutResult
    <3>3. Held(s, i) = P(i).carry
      BY <3>2
    <3>4. ~(Held(s, i) = <<"IAC", "SB">> /\ s[Len(s)] = "IAC")
      BY <1>1, <3>3
    <3>5. Q(i) = Filter(Held(s, i) \o c) /\ Held(s, i) \in Seq(Bytes)
      BY <2>3, <3>1, <3>4, CutJoin
    <3>6. Filter(Held(s, i) \o c) \in Result
      BY <3>5, Front, FilterType
    <3> QED
      BY <3>2, <3>3, <3>5, <3>6, JoinedEmpty
  <2> QED
    BY <2>1, <2>2, <2>3
<1>2. \A i \in 1 .. n + 1 : i \in Good
  <2>1. \A i \in 1 .. n + 1 : (\A j \in i + 1 .. n + 1 : j \in Good) => i \in Good
    BY <1>1
  <2> HIDE DEF Good
  <2> QED
    BY <1>0, <2>1, Backward
<1>3. 1 \in 1 .. n + 1
  BY <1>0
<1>4. Whole(1)
  BY DEF Filter
<1>5. Q(1) = Joined(P(1), Filter(P(1).carry \o c))
  BY <1>2, <1>3, <1>4
<1> QED
  BY <1>5 DEF Filter

(* What iac_filter may hold back. *)
Carries == {<<>>, <<"IAC">>} \cup {<<"IAC", b>> : b \in Negotiation \cup {"SB"}}

(* What Filter holds back is one of these. *)
LEMMA CarryKind ==
  ASSUME NEW in \in Seq(Bytes)
  PROVE  Filter(in).carry \in Carries
<1> DEFINE n == Len(in)
           P(i) == Parse(FilterTokens(in))[i]
           Good == {i \in 1 .. n + 1 : P(i).carry \in Carries}
<1>0. n \in Nat
  BY LenProperties
<1>1. ASSUME NEW i \in 1 .. n + 1, \A j \in i + 1 .. n + 1 : j \in Good
      PROVE  i \in Good
  <2>1. CASE i = n + 1
    BY <2>1, FilterEnd DEF Carries, Nothing
  <2>2. CASE i # n + 1 /\ (in[i] # "IAC" \/ ~Cut(in, i))
    <3>1. i \in 1 .. Len(in) /\ <<>> \in Seq(Bytes)
      BY <1>0, <2>2
    <3>2. FilterToken(in, i).carry = <<>>
      BY <2>2, <3>1, TokenKept
    <3>3. P(i) = Then(FilterToken(in, i), P(FilterToken(in, i).next))
          /\ FilterToken(in, i).next \in i + 1 .. n + 1
      BY <3>1, FilterStep
    <3>4. P(FilterToken(in, i).next).carry \in Carries
      BY <1>1, <3>3
    <3>5. P(FilterToken(in, i).next).carry \in Seq(Bytes)
      <4>1. FilterToken(in, i).next \in 1 .. Len(in) + 1
        BY <1>0, <3>1, <3>3
      <4> QED
        BY <4>1, FilterTokensType, ParseType DEF Result
    <3>6. P(i).carry = P(FilterToken(in, i).next).carry
      <4>1. P(i).carry = FilterToken(in, i).carry \o P(FilterToken(in, i).next).carry
        <5> HIDE DEF P
        <5> QED
          BY <3>3, ThenParts
      <4> HIDE DEF P
      <4> QED
        BY <3>2, <3>5, <4>1, ConcatEmptySeq
    <3> QED
      BY <3>4, <3>6
  <2>3. CASE i # n + 1 /\ in[i] = "IAC" /\ Cut(in, i)
    <3>1. i \in 1 .. Len(in)
      BY <1>0, <2>3
    <3>2. P(i).carry = Held(in, i)
      <4>1. P(i) = [plain |-> <<>>, replies |-> <<>>, carry |-> Held(in, i)]
        BY <2>3, <3>1, CutResult
      <4> HIDE DEF P
      <4> QED
        BY <4>1
    <3>3. Held(in, i) \in Carries
      BY <2>3 DEF Held, Cut, Carries
    <3> QED
      BY <3>2, <3>3
  <2> QED
    BY <2>1, <2>2, <2>3
<1>2. \A i \in 1 .. n + 1 : i \in Good
  <2> HIDE DEF Good
  <2> QED
    BY <1>0, <1>1, Backward
<1>3. 1 \in 1 .. n + 1
  BY <1>0
<1> QED
  BY <1>2, <1>3 DEF Filter

(* Arithmetic of the next two proofs. *)
LEMMA OneAtMost ==
  ASSUME NEW a, a = 0 \/ a = 1
  PROVE  a \in Nat /\ a <= 1
  OBVIOUS

(* Arithmetic of CarryBound. *)
LEMMA PastTwo ==
  ASSUME NEW next \in Nat, next >= 3, NEW l, l = 1 \/ l = 2
  PROVE  next >= l + 1
  OBVIOUS

(* Arithmetic of PlainBound. *)
LEMMA OneEach ==
  ASSUME NEW a \in Nat, a <= 1, NEW i \in Nat, NEW n \in Nat, NEW next \in i + 1 .. n + 1,
         NEW b \in Nat, b <= n + 1 - next
  PROVE  a + b <= n + 1 - i
  OBVIOUS

(* A loop that copies at most one byte per position copies no more bytes   *)
(* than there are positions left.                                          *)
LEMMA PlainBound ==
  ASSUME NEW in \in Seq(Bytes), NEW k \in 1 .. Len(in) + 1
  PROVE  /\ Parse(FilterTokens(in))[k] \in Result
         /\ Len(Parse(FilterTokens(in))[k].plain) \in Nat
         /\ Len(Parse(FilterTokens(in))[k].plain) <= Len(in) + 1 - k
<1> DEFINE n == Len(in)
           P(i) == Parse(FilterTokens(in))[i]
           Good == {i \in 1 .. n + 1 : Len(P(i).plain) <= n + 1 - i}
<1>0. n \in Nat
  BY LenProperties
<1>t. \A i \in 1 .. n + 1 : P(i) \in Result /\ P(i).plain \in Seq(Bytes) /\ Len(P(i).plain) \in Nat
  <2> TAKE i \in 1 .. n + 1
  <2>1. P(i) \in Result
    BY FilterTokensType, ParseType
  <2> HIDE DEF P
  <2>2. P(i).plain \in Seq(Bytes)
    BY <2>1 DEF Result
  <2> QED
    BY <2>1, <2>2, LenProperties
<1>1. ASSUME NEW i \in 1 .. n + 1, \A j \in i + 1 .. n + 1 : j \in Good
      PROVE  i \in Good
  <2>1. CASE i = n + 1
    <3>1. P(i) = Nothing
      BY <2>1, FilterEnd
    <3>2. Len(P(i).plain) = 0
      BY <3>1 DEF Nothing
    <3> QED
      BY <1>0, <2>1, <3>2
  <2>2. CASE i # n + 1
    <3> DEFINE t == FilterToken(in, i)
    <3>1. i \in 1 .. Len(in)
      BY <1>0, <2>2
    <3>2. P(i) = Then(t, P(t.next)) /\ t.next \in i + 1 .. n + 1
      BY <3>1, FilterStep
    <3>3. /\ t.plain \in Seq(Bytes)
          /\ Len(t.plain) = 0 \/ Len(t.plain) = 1
      <4>1. in[i] \in Bytes
        BY <3>1, ElementOfSeq
      <4>2. "IAC" \in Bytes
        BY DEF Bytes
      <4>3. t.plain = <<>> \/ t.plain = <<"IAC">> \/ t.plain = <<in[i]>>
        BY DEF FilterToken, Skip, Data, Token
      <4> HIDE DEF t
      <4> QED
        BY <4>1, <4>2, <4>3, Short
    <3>4. P(t.next).plain \in Seq(Bytes) /\ Len(P(t.next).plain) \in Nat
          /\ Len(P(t.next).plain) <= n + 1 - t.next
      <4>1. t.next \in 1 .. n + 1
        BY <3>1, <3>2
      <4>2. t.next \in Good
        BY <1>1, <3>2
      <4> HIDE DEF P, t
      <4> QED
        BY <1>t, <4>1, <4>2
    <3> HIDE DEF P, t
    <3>5. P(i).plain = t.plain \o P(t.next).plain
      BY <3>2, ThenParts
    <3>6. Len(P(i).plain) = Len(t.plain) + Len(P(t.next).plain)
      BY <3>3, <3>4, <3>5, ConcatProperties
    <3>7. Len(P(t.next).plain) \in Nat /\ Len(P(t.next).plain) <= n + 1 - t.next
      BY <3>4
    <3>8. Len(t.plain) \in Nat /\ Len(t.plain) <= 1
      <4>1. Len(t.plain) = 0 \/ Len(t.plain) = 1
        BY <3>3
      <4> DEFINE a == Len(t.plain)
      <4> HIDE DEF a
      <4>2. a = 0 \/ a = 1
        BY <4>1 DEF a
      <4>3. a \in Nat /\ a <= 1
        BY <4>2, OneAtMost, Zenon
      <4> QED
        BY <4>3, Zenon DEF a
    <3>9. t.next \in i + 1 .. n + 1 /\ i \in Nat
      BY <1>0, <3>1, <3>2
    <3>10. Len(t.plain) + Len(P(t.next).plain) <= n + 1 - i
      <4> HIDE DEF n
      <4> QED
        BY <1>0, <3>7, <3>8, <3>9, OneEach
    <3> QED
      BY <3>6, <3>10
  <2> QED
    BY <2>1, <2>2
<1>2. \A i \in 1 .. n + 1 : i \in Good
  <2> HIDE DEF Good
  <2> QED
    BY <1>0, <1>1, Backward
<1> QED
  BY <1>2, <1>t

(* The bytes held back add nothing to what a call yields. *)
LEMMA CarryBound ==
  ASSUME NEW h \in Carries, NEW c \in Seq(Bytes)
  PROVE  /\ h \in Seq(Bytes) /\ h \o c \in Seq(Bytes) /\ Len(h) <= 2
         /\ Len(Filter(h \o c).plain) <= Len(c)
<1> DEFINE x == h \o c
           t == FilterToken(x, 1)
<1>1. h \in Seq(Bytes) /\ Len(h) \in Nat /\ Len(h) <= 2
  <2>1. CASE h = <<>>
    BY <2>1
  <2>2. CASE h = <<"IAC">>
    BY <2>2 DEF Bytes
  <2>3. CASE \E b \in Negotiation \cup {"SB"} : h = <<"IAC", b>>
    <3>1. PICK b \in Negotiation \cup {"SB"} : h = <<"IAC", b>>
      BY <2>3
    <3>2. b \in Bytes /\ "IAC" \in Bytes
      BY DEF Bytes
    <3> QED
      BY <3>1, <3>2
  <2> QED
    BY <2>1, <2>2, <2>3 DEF Carries
<1>2. /\ x \in Seq(Bytes) /\ Len(c) \in Nat /\ Len(x) = Len(h) + Len(c) /\ Len(x) \in Nat
      /\ \A k \in 1 .. Len(h) : x[k] = h[k]
  BY <1>1, Front
<1> HIDE DEF x
<1>3. ASSUME h = <<>> PROVE Len(Filter(x).plain) <= Len(c)
  <2>1. 1 \in 1 .. Len(x) + 1 /\ Len(x) = Len(c) /\ Len(x) + 1 - 1 = Len(x)
    BY <1>2, <1>3
  <2>2. Len(Parse(FilterTokens(x))[1].plain) <= Len(x) + 1 - 1
    BY <1>2, <2>1, PlainBound
  <2> QED
    BY <2>1, <2>2 DEF Filter
<1>4. ASSUME h # <<>> PROVE Len(Filter(x).plain) <= Len(c)
  <2>0. /\ Len(h) = 1 \/ Len(h) = 2
        /\ h[1] = "IAC" /\ (Len(h) = 2 => h[2] \in Negotiation \cup {"SB"})
    BY <1>4 DEF Carries
  <2>1. Len(h) = 1 \/ Len(h) = 2
    BY <2>0
  <2>2. 1 \in 1 .. Len(x) /\ x[1] = "IAC" /\ (Len(h) = 2 => x[2] \in Negotiation \cup {"SB"})
    BY <1>2, <2>0
  <2>3. Filter(x) = Then(t, Parse(FilterTokens(x))[t.next]) /\ t.next \in 2 .. Len(x) + 1
    BY <1>2, <2>2, FilterStep DEF Filter
  <2>n. t.next \in Nat
    BY <1>2, <2>3
  <2>p. Filter(x).plain = t.plain \o Parse(FilterTokens(x))[t.next].plain
    <3> DEFINE q == Parse(FilterTokens(x))[t.next]
    <3>1. Then(t, q).plain = t.plain \o q.plain
      BY ThenParts
    <3>2. Filter(x) = Then(t, q)
      BY <2>3
    <3> HIDE DEF t, q
    <3>3. Filter(x).plain = t.plain \o q.plain
      BY <3>1, <3>2
    <3> QED
      BY <3>3 DEF q
  <2>4. \/ t.plain = <<>> /\ t.next >= Len(h) + 1
        \/ t.plain = <<"IAC">> /\ t.next = 3 /\ Len(h) = 1
    <3>1. CASE Cut(x, 1)
      BY <1>2, <2>1, <2>2, <3>1 DEF FilterToken, Token
    <3>2. CASE ~Cut(x, 1)
      <4>0. 1 # Len(x) /\ 1 + 1 = 2 /\ 1 + 2 = 3 /\ 1 + 3 = 4
        BY <3>2 DEF Cut
      <4>1. x[2] = "SB" => SbEnds(x, 1) # {}
        BY <3>2, <4>0 DEF Cut
      <4>2. x[2] = "SB" => FirstOf(SbEnds(x, 1)) + 2 >= 5
        <5>1. x[2] = "SB" => FirstOf(SbEnds(x, 1)) + 2 \in 5 .. Len(x) + 1
          BY <1>2, <4>1, EndRange
        <5> QED
          BY <1>2, <5>1
      <4>3. CASE x[2] = "SB"
        <5>1. t = Skip(FirstOf(SbEnds(x, 1)) + 2)
          BY <2>2, <3>2, <4>0, <4>3 DEF FilterToken
        <5>2. t.plain = <<>> /\ t.next = FirstOf(SbEnds(x, 1)) + 2
          BY <5>1 DEF Skip, Data, Token
        <5> HIDE DEF t
        <5> QED
          <6>1. t.next >= Len(h) + 1
            <7>1. t.next >= 3
              BY <2>n, <4>2, <4>3, <5>2
            <7> QED
              BY <2>1, <2>n, <7>1, PastTwo, Zenon
          <6> QED
            BY <5>2, <6>1
      <4>4. CASE x[2] = "IAC"
        <5>1. t = Data(3, <<"IAC">>)
          BY <2>2, <3>2, <4>0, <4>4 DEF FilterToken
        <5>2. t.plain = <<"IAC">> /\ t.next = 3
          BY <5>1 DEF Data, Token
        <5>3. Len(h) = 1
          BY <2>1, <2>2, <4>4 DEF Negotiation
        <5> QED
          BY <5>2, <5>3
      <4>5. CASE x[2] \notin {"SB", "IAC"}
        <5>1. \/ t = Token(4, <<>>, <<"WONT">>, <<>>)
              \/ t = Token(4, <<>>, <<"DONT">>, <<>>)
              \/ t = Skip(3)
          BY <2>2, <3>2, <4>0, <4>5 DEF FilterToken
        <5>2. t.plain = <<>> /\ (t.next = 4 \/ t.next = 3)
          BY <5>1 DEF Skip, Data, Token
        <5> HIDE DEF t
        <5> QED
          <6>1. t.next >= Len(h) + 1
            <7>1. t.next >= 3
              BY <2>n, <5>2
            <7> QED
              BY <2>1, <2>n, <7>1, PastTwo, Zenon
          <6> QED
            BY <5>2, <6>1
      <4> QED
        BY <4>3, <4>4, <4>5
    <3> QED
      BY <3>1, <3>2
  <2>5. /\ Parse(FilterTokens(x))[t.next].plain \in Seq(Bytes)
        /\ Len(Parse(FilterTokens(x))[t.next].plain) \in Nat
        /\ Len(Parse(FilterTokens(x))[t.next].plain) <= Len(x) + 1 - t.next
    <3>1. t.next \in 1 .. Len(x) + 1
      BY <2>3
    <3> HIDE DEF t
    <3> QED
      BY <1>2, <3>1, PlainBound DEF Result
  <2> DEFINE r == Parse(FilterTokens(x))[t.next].plain
  <2>6. Filter(x).plain = t.plain \o r
    BY <2>p
  <2>7. t.plain \in Seq(Bytes)
    <3> HIDE DEF t
    <3> QED
      BY <2>4, Short
  <2>8. Len(Filter(x).plain) = Len(t.plain) + Len(r)
    <3> HIDE DEF t, r
    <3> QED
      BY <2>5, <2>6, <2>7, ConcatProperties DEF r
  <2>9. Len(Filter(x).plain) <= Len(c)
    <3> HIDE DEF t, r
    <3>1. CASE t.plain = <<>> /\ t.next >= Len(h) + 1
      <4>1. Len(t.plain) = 0
        BY <3>1
      <4> QED
        BY <1>2, <2>1, <2>3, <2>5, <2>8, <3>1, <4>1 DEF r
    <3>2. CASE t.plain = <<"IAC">> /\ t.next = 3 /\ Len(h) = 1
      <4>1. Len(t.plain) = 1
        BY <3>2
      <4> QED
        BY <1>2, <2>1, <2>3, <2>5, <2>8, <3>2, <4>1 DEF r
    <3> QED
      BY <2>4, <3>1, <3>2
  <2> QED
    BY <2>9
<1>5. Len(Filter(x).plain) <= Len(c)
  BY <1>3, <1>4
<1>6. Len(h) <= 2
  BY <1>1
<1>7. x = h \o c
  BY DEF x
<1> QED
  BY <1>1, <1>2, <1>5, <1>6, <1>7

-----------------------------------------------------------------------------
(* The host's conversion *)

(* A refusal is a byte stream. *)
LEMMA RefusalType ==
  ASSUME NEW cmd
  PROVE  Refusal(cmd) \in Seq(Bytes)
  BY Short DEF Refusal

(* Every turn of _telnet_eat_iac's loop moves forward, and not past the    *)
(* end.                                                                    *)
LEMMA EatTokensType ==
  ASSUME NEW in \in Seq(Bytes)
  PROVE  EatTokens(in) \in Tokens(Len(in)) /\ Len(in) \in Nat
<1>0. Len(in) \in Nat
  BY LenProperties
<1>1. ASSUME NEW i \in 1 .. Len(in)
      PROVE  /\ EatToken(in, i) \in [next : Nat, plain : Seq(Bytes), replies : Seq(Bytes), carry : Seq(Bytes)]
             /\ EatToken(in, i).next \in i + 1 .. Len(in) + 1
  <2>1. in[i] \in Bytes
    BY <1>0, ElementOfSeq
  <2>2. <<in[i]>> \in Seq(Bytes) /\ <<>> \in Seq(Bytes) /\ <<"IAC">> \in Seq(Bytes)
    BY <2>1, Short
  <2>3. CASE in[i] # "IAC"
    BY <1>0, <2>2, <2>3 DEF EatToken, Data, Token
  <2>4. CASE in[i] = "IAC" /\ i = Len(in)
    BY <1>0, <2>2, <2>4 DEF EatToken, Skip, Data, Token
  <2>5. CASE in[i] = "IAC" /\ i # Len(in)
    <3>0. i < Len(in)
      BY <1>0, <2>5
    <3>1. CASE in[i + 1] = "SB"
      <4> DEFINE next == IF SbEnds(in, i) = {} THEN Len(in) + 1 ELSE FirstOf(SbEnds(in, i)) + 2
      <4>1. next \in i + 2 .. Len(in) + 1
        BY <1>0, <3>0, EndRange
      <4>2. EatToken(in, i) = Skip(next)
        BY <2>5, <3>1 DEF EatToken, Negotiation
      <4> HIDE DEF next
      <4> QED
        BY <1>0, <2>2, <4>1, <4>2 DEF Skip, Data, Token
    <3>2. CASE in[i + 1] \in Negotiation /\ i + 2 <= Len(in)
      <4>1. EatToken(in, i) = Token(i + 3, <<>>, Refusal(in[i + 1]), <<>>)
        BY <2>5, <3>2 DEF EatToken, Negotiation
      <4> QED
        BY <1>0, <2>2, <3>2, <4>1, RefusalType DEF Token
    <3>3. CASE in[i + 1] # "SB" /\ ~(in[i + 1] \in Negotiation /\ i + 2 <= Len(in))
      <4>1. EatToken(in, i) = Data(i + 2, <<"IAC">>) \/ EatToken(in, i) = Skip(i + 2)
        BY <2>5, <3>3 DEF EatToken
      <4>2. i + 2 \in Nat /\ i + 2 \in i + 1 .. Len(in) + 1
        BY <1>0, <3>0
      <4>3. CASE EatToken(in, i) = Data(i + 2, <<"IAC">>)
        BY <2>2, <4>2, <4>3 DEF Data, Token
      <4>4. CASE EatToken(in, i) = Skip(i + 2)
        BY <2>2, <4>2, <4>4 DEF Skip, Data, Token
      <4> QED
        BY <4>1, <4>3, <4>4
    <3> QED
      BY <3>1, <3>2, <3>3
  <2> QED
    BY <2>3, <2>4, <2>5
<1> QED
  BY <1>0, <1>1 DEF EatTokens, Tokens

(* What the host makes of a buffer from a position on is what it makes of  *)
(* the rest of it.                                                         *)
LEMMA EatFrom ==
  ASSUME NEW x \in Seq(Bytes), NEW y \in Seq(Bytes), NEW d \in Nat, EndsWith(x, y, d)
  PROVE  Parse(EatTokens(x))[d + 1] = Eat(y)
<1>0. Len(y) \in Nat /\ Len(x) = Len(y) + d /\ Len(x) \in Nat
  BY LenProperties DEF EndsWith
<1>1. ASSUME NEW k \in 1 .. Len(y)
      PROVE  EatTokens(x)[k + d] = Moved(EatTokens(y)[k], d)
  <2>1. /\ SbEnds(x, k + d) = {} <=> SbEnds(y, k) = {}
        /\ SbEnds(y, k) # {} => FirstOf(SbEnds(x, k + d)) = FirstOf(SbEnds(y, k)) + d
    BY SbShift
  <2>2. /\ x[k + d] = y[k]
        /\ k # Len(y) => x[(k + d) + 1] = y[k + 1]
        /\ k + d = Len(x) <=> k = Len(y)
        /\ (k + d) + 2 <= Len(x) <=> k + 2 <= Len(y)
        /\ k + d \in 1 .. Len(x)
    <3>1. k # Len(y) => k + 1 \in 1 .. Len(y) /\ (k + d) + 1 = (k + 1) + d
      BY <1>0
    <3>2. k # Len(y) => x[(k + d) + 1] = y[k + 1]
      BY <3>1 DEF EndsWith
    <3>3. x[k + d] = y[k]
      BY DEF EndsWith
    <3>4. /\ k + d = Len(x) <=> k = Len(y)
          /\ (k + d) + 2 <= Len(x) <=> k + 2 <= Len(y)
          /\ k + d \in 1 .. Len(x)
      BY <1>0
    <3> QED
      BY <3>2, <3>3, <3>4
  <2>3. SbEnds(y, k) # {} => FirstOf(SbEnds(y, k)) \in Nat
    BY <1>0, FirstEnd DEF SbEnds
  <2>4. (k + d) + 1 = (k + 1) + d /\ (k + d) + 2 = (k + 2) + d /\ (k + d) + 3 = (k + 3) + d
    BY <1>0
  <2>5. EatToken(x, k + d) = Moved(EatToken(y, k), d)
    <3>1. CASE y[k] # "IAC"
      BY <2>2, <2>4, <3>1 DEF EatToken, Moved, Data, Token
    <3>2. CASE y[k] = "IAC" /\ k = Len(y)
      BY <2>2, <2>4, <3>2 DEF EatToken, Moved, Skip, Data, Token
    <3>3. CASE y[k] = "IAC" /\ k # Len(y)
      <4>0. x[k + d] = "IAC" /\ k + d # Len(x) /\ x[(k + d) + 1] = y[k + 1]
        BY <2>2, <3>3
      <4>1. CASE y[k + 1] = "SB"
        <5> DEFINE next(in, i) == IF SbEnds(in, i) = {} THEN Len(in) + 1 ELSE FirstOf(SbEnds(in, i)) + 2
        <5>1. next(x, k + d) = next(y, k) + d
          BY <1>0, <2>1, <2>3
        <5>2. EatToken(x, k + d) = Skip(next(x, k + d)) /\ EatToken(y, k) = Skip(next(y, k))
          BY <3>3, <4>0, <4>1 DEF EatToken, Negotiation
        <5> HIDE DEF next
        <5> QED
          BY <5>1, <5>2 DEF Moved, Skip, Data, Token
      <4>2. CASE y[k + 1] # "SB"
        <5>1. CASE y[k + 1] = "IAC"
          <6>1. /\ EatToken(y, k) = Data(k + 2, <<"IAC">>)
                /\ EatToken(x, k + d) = Data((k + d) + 2, <<"IAC">>)
            BY <3>3, <4>0, <5>1 DEF EatToken, Negotiation
          <6> QED
            BY <2>4, <6>1 DEF Moved, Data, Token
        <5>2. CASE y[k + 1] \in Negotiation /\ k + 2 <= Len(y)
          <6>1. /\ EatToken(y, k) = Token(k + 3, <<>>, Refusal(y[k + 1]), <<>>)
                /\ EatToken(x, k + d) = Token((k + d) + 3, <<>>, Refusal(y[k + 1]), <<>>)
            BY <2>2, <3>3, <4>0, <5>2 DEF EatToken, Negotiation
          <6> QED
            BY <2>4, <6>1 DEF Moved, Token
        <5>3. CASE y[k + 1] # "IAC" /\ ~(y[k + 1] \in Negotiation /\ k + 2 <= Len(y))
          <6>1. EatToken(y, k) = Skip(k + 2) /\ EatToken(x, k + d) = Skip((k + d) + 2)
            BY <2>2, <3>3, <4>0, <4>2, <5>3 DEF EatToken
          <6> QED
            BY <2>4, <6>1 DEF Moved, Skip, Data, Token
        <5> QED
          BY <5>1, <5>2, <5>3
      <4> QED
        BY <4>1, <4>2
    <3> QED
      BY <3>1, <3>2, <3>3
  <2> QED
    BY <2>2, <2>5 DEF EatTokens
<1>2. EatTokens(x) \in Tokens(Len(y) + d) /\ EatTokens(y) \in Tokens(Len(y))
  BY <1>0, EatTokensType
<1>3. \A k \in 1 .. Len(y) + 1 : Parse(EatTokens(x))[k + d] = Parse(EatTokens(y))[k]
  BY <1>0, <1>1, <1>2, Shift
<1>4. 1 \in 1 .. Len(y) + 1 /\ 1 + d = d + 1
  BY <1>0
<1> QED
  BY <1>3, <1>4 DEF Eat

(* A turn of _telnet_eat_iac's loop. *)
LEMMA EatStep ==
  ASSUME NEW in \in Seq(Bytes), NEW i \in 1 .. Len(in)
  PROVE  /\ Parse(EatTokens(in))[i]
              = Then(EatToken(in, i), Parse(EatTokens(in))[EatToken(in, i).next])
         /\ EatToken(in, i).next \in i + 1 .. Len(in) + 1
         /\ EatToken(in, i) \in [next : Nat, plain : Seq(Bytes), replies : Seq(Bytes), carry : Seq(Bytes)]
<1>1. EatTokens(in) \in Tokens(Len(in)) /\ Len(in) \in Nat
  BY EatTokensType
<1>2. EatTokens(in)[i] = EatToken(in, i)
  BY DEF EatTokens
<1>3. i \in 1 .. Len(in) + 1 /\ ~(i > Len(in))
  BY <1>1
<1>4. /\ EatTokens(in)[i].next \in i + 1 .. Len(in) + 1
      /\ EatTokens(in)[i] \in [next : Nat, plain : Seq(Bytes), replies : Seq(Bytes), carry : Seq(Bytes)]
  BY <1>1 DEF Tokens
<1> QED
  BY <1>1, <1>2, <1>3, <1>4, ParseDef

(* The end of _telnet_eat_iac's loop. *)
LEMMA EatEnd ==
  ASSUME NEW in \in Seq(Bytes)
  PROVE  Parse(EatTokens(in))[Len(in) + 1] = Nothing
<1>1. EatTokens(in) \in Tokens(Len(in)) /\ Len(in) \in Nat
  BY EatTokensType
<1>2. Len(in) + 1 \in 1 .. Len(in) + 1 /\ Len(in) + 1 > Len(in)
  BY <1>1
<1> QED
  BY <1>1, <1>2, ParseDef

(* Eat yields a result. *)
LEMMA EatType ==
  ASSUME NEW in \in Seq(Bytes)
  PROVE  Eat(in) \in Result
<1>1. EatTokens(in) \in Tokens(Len(in)) /\ Len(in) \in Nat
  BY EatTokensType
<1>2. 1 \in 1 .. Len(in) + 1
  BY <1>1
<1> QED
  BY <1>1, <1>2, ParseType DEF Eat

(* A sequence that is whole in a buffer is read the same in a longer one,  *)
(* and as far as iac_filter reads it.                                      *)
LEMMA EatKept ==
  ASSUME NEW s \in Seq(Bytes), NEW c \in Seq(Bytes), NEW i \in 1 .. Len(s),
         s[i] # "IAC" \/ ~Cut(s, i)
  PROVE  /\ EatToken(s \o c, i) = EatToken(s, i)
         /\ EatToken(s, i).next = FilterToken(s, i).next
         /\ EatToken(s, i).carry = <<>>
<1>0. /\ Len(s) \in Nat /\ Len(c) \in Nat /\ Len(s \o c) = Len(s) + Len(c)
      /\ (s \o c)[i] = s[i]
  BY Front
<1>1. CASE s[i] # "IAC"
  BY <1>0, <1>1 DEF FilterToken, EatToken, Data, Token
<1>2. CASE s[i] = "IAC" /\ ~Cut(s, i)
  <2>1. i # Len(s) /\ i + 1 \in 1 .. Len(s) /\ i # Len(s \o c)
    BY <1>0, <1>2 DEF Cut
  <2>2. (s \o c)[i + 1] = s[i + 1]
    BY <2>1, Front
  <2>3. CASE s[i + 1] = "SB"
    <3>1. SbEnds(s, i) # {}
      BY <1>2, <2>3 DEF Cut
    <3>2. /\ SbEnds(s \o c, i) # {}
          /\ FirstOf(SbEnds(s \o c, i)) = FirstOf(SbEnds(s, i))
      BY <3>1, EndsKept
    <3>3. /\ EatToken(s, i) = Skip(FirstOf(SbEnds(s, i)) + 2)
          /\ EatToken(s \o c, i) = Skip(FirstOf(SbEnds(s, i)) + 2)
      BY <1>0, <1>2, <2>1, <2>2, <2>3, <3>1, <3>2 DEF EatToken, Negotiation
    <3>4. FilterToken(s, i) = Skip(FirstOf(SbEnds(s, i)) + 2)
      BY <1>2, <2>3 DEF FilterToken
    <3> QED
      BY <3>3, <3>4 DEF Skip, Data, Token
  <2>4. CASE s[i + 1] \in Negotiation
    <3>1. i + 2 <= Len(s) /\ i + 2 <= Len(s \o c)
      BY <1>0, <1>2, <2>4 DEF Cut
    <3>2. /\ EatToken(s, i) = Token(i + 3, <<>>, Refusal(s[i + 1]), <<>>)
          /\ EatToken(s \o c, i) = Token(i + 3, <<>>, Refusal(s[i + 1]), <<>>)
      BY <1>0, <1>2, <2>1, <2>2, <2>4, <3>1 DEF EatToken, Negotiation
    <3>3. FilterToken(s, i).next = i + 3
      BY <1>2, <2>4 DEF FilterToken, Negotiation, Token
    <3> QED
      BY <3>2, <3>3 DEF Token
  <2>5. CASE s[i + 1] \notin Negotiation \cup {"SB"}
    BY <1>0, <1>2, <2>1, <2>2, <2>5 DEF EatToken, FilterToken, Negotiation, Skip, Data, Token
  <2> QED
    BY <2>3, <2>4, <2>5
<1> QED
  BY <1>1, <1>2

(* A buffer that ends between two sequences can be read on its own.        *)
THEOREM EatJoin ==
  ASSUME NEW s \in Seq(Bytes), NEW c \in Seq(Bytes), Filter(s).carry = <<>>
  PROVE  Eat(s \o c) = Joined(Eat(s), Eat(c))
<1> DEFINE n == Len(s)
           C(i) == Parse(FilterTokens(s))[i]
           P(i) == Parse(EatTokens(s))[i]
           Q(i) == Parse(EatTokens(s \o c))[i]
           Good == {i \in 1 .. n + 1 : C(i).carry = <<>> => Q(i) = Joined(P(i), Eat(c))}
<1>0. /\ s \o c \in Seq(Bytes) /\ n \in Nat /\ Len(c) \in Nat /\ Len(s \o c) = n + Len(c)
      /\ EndsWith(s \o c, c, n)
  BY Front
<1>1. ASSUME NEW i \in 1 .. n + 1, \A j \in i + 1 .. n + 1 : j \in Good, C(i).carry = <<>>
      PROVE  Q(i) = Joined(P(i), Eat(c))
  <2>1. CASE i = n + 1
    <3>1. P(i) = Nothing
      BY <2>1, EatEnd
    <3>2. Q(i) = Eat(c)
      BY <1>0, <2>1, EatFrom
    <3>3. Joined(Nothing, Eat(c)) = Eat(c)
      BY EatType, JoinedEmpty DEF Nothing
    <3> QED
      BY <3>1, <3>2, <3>3
  <2>2. CASE i # n + 1 /\ (s[i] # "IAC" \/ ~Cut(s, i))
    <3> DEFINE t == EatToken(s, i)
               next == t.next
    <3>1. i \in 1 .. Len(s) /\ i \in 1 .. Len(s \o c)
      BY <1>0, <2>2
    <3>2. EatToken(s \o c, i) = t /\ t.carry = <<>> /\ next = FilterToken(s, i).next
      BY <2>2, <3>1, EatKept
    <3>3. /\ P(i) = Then(t, P(next)) /\ next \in i + 1 .. n + 1
          /\ t \in [next : Nat, plain : Seq(Bytes), replies : Seq(Bytes), carry : Seq(Bytes)]
      BY <3>1, EatStep
    <3>4. Q(i) = Then(t, Q(next))
      BY <1>0, <3>1, <3>2, EatStep
    <3>5. C(i) = Then(FilterToken(s, i), C(next)) /\ FilterToken(s, i).carry = <<>>
      BY <2>2, <3>1, <3>2, FilterStep, TokenKept
    <3>6. P(next) \in Result /\ C(next) \in Result
      <4>1. next \in 1 .. Len(s) + 1
        BY <1>0, <3>1, <3>3
      <4> QED
        BY <4>1, EatTokensType, FilterTokensType, ParseType
    <3> HIDE DEF t, next, P, Q, C
    <3>7. C(i).carry = C(next).carry
      <4>1. C(i).carry = FilterToken(s, i).carry \o C(next).carry
        BY <3>5, ThenParts
      <4>2. C(next).carry \in Seq(Bytes)
        BY <3>6 DEF Result
      <4> QED
        BY <3>5, <4>1, <4>2, ConcatEmptySeq
    <3>8. Q(next) = Joined(P(next), Eat(c))
      BY <1>1, <3>3, <3>7
    <3> QED
      BY <3>2, <3>3, <3>4, <3>6, <3>8, EatType, JoinedThen
  <2>3. CASE i # n + 1 /\ s[i] = "IAC" /\ Cut(s, i)
    <3>1. i \in 1 .. Len(s)
      BY <1>0, <2>3
    <3>2. C(i) = [plain |-> <<>>, replies |-> <<>>, carry |-> Held(s, i)]
      BY <2>3, <3>1, CutResult
    <3> HIDE DEF C
    <3>3. C(i).carry = Held(s, i)
      BY <3>2
    <3>4. Held(s, i) # <<>>
      BY DEF Held
    <3> QED
      BY <1>1, <3>3, <3>4
  <2> QED
    BY <2>1, <2>2, <2>3
<1>2. \A i \in 1 .. n + 1 : i \in Good
  <2>1. \A i \in 1 .. n + 1 : (\A j \in i + 1 .. n + 1 : j \in Good) => i \in Good
    BY <1>1
  <2> HIDE DEF Good
  <2> QED
    BY <1>0, <2>1, Backward
<1>3. 1 \in 1 .. n + 1
  BY <1>0
<1>4. C(1).carry = <<>>
  BY DEF Filter
<1>5. Q(1) = Joined(P(1), Eat(c))
  BY <1>2, <1>3, <1>4
<1> QED
  BY <1>5 DEF Eat

-----------------------------------------------------------------------------
(* iac_filter, chunk by chunk *)

Types == received \in Seq(Bytes) /\ plain \in Seq(Bytes) /\ replies \in Seq(Bytes) /\ carry \in Carries

(* What has been filtered, and what is held back, are what one call would  *)
(* have made of everything received.                                       *)
Whole ==
  ~seSplit => LET whole == Filter(received) IN
              /\ plain = whole.plain /\ replies = whole.replies /\ carry = whole.carry
              /\ ~(carry = <<"IAC", "SB">> /\ received[Len(received)] = "IAC")

IInv == Types /\ Whole

(* An empty buffer. *)
LEMMA FilterNothing == Filter(<<>>) = Nothing
<1>1. <<>> \in Seq(Bytes) /\ Len(<<>>) = 0
  BY Short
<1>2. Parse(FilterTokens(<<>>))[Len(<<>>) + 1] = Nothing
  BY <1>1, FilterEnd
<1> QED
  BY <1>1, <1>2 DEF Filter

(* What recv returns. *)
LEMMA ChunkType ==
  ASSUME NEW chunk \in Chunks
  PROVE  chunk \in Seq(Bytes) /\ Len(chunk) \in Nat /\ Len(chunk) >= 1
<1>1. PICK n \in 1 .. IoBuf : chunk \in [1 .. n -> Sent]
  BY DEF Chunks
<1>2. n \in Nat /\ n >= 1 /\ chunk \in [1 .. n -> Bytes]
  BY <1>1, FilterAssumption DEF FilterAssumption
<1> QED
  BY <1>2

(* The invariant holds initially ... *)
LEMMA FilterInit == Init => IInv
<1> SUFFICES ASSUME Init PROVE IInv
  OBVIOUS
<1>1. Types
  BY Short DEF Init, Types, Carries
<1>2. Whole
  <2>1. Filter(received) = Nothing /\ plain = <<>> /\ replies = <<>> /\ carry = <<>>
    BY FilterNothing DEF Init
  <2>2. <<>> # <<"IAC", "SB">>
    OBVIOUS
  <2> QED
    BY <2>1, <2>2 DEF Whole, Nothing
<1> QED
  BY <1>1, <1>2 DEF IInv

(* ... and after a recv, which yields no more than it took. *)
LEMMA RecvStep ==
  ASSUME IInv, NEW chunk \in Chunks, Recv(chunk)
  PROVE  /\ IInv'
         /\ Len(plain') - Len(plain) <= Len(received') - Len(received)
         /\ Len(carry') <= 4
<1> DEFINE r == Filter(carry \o chunk)
<1>1. /\ received' = received \o chunk /\ plain' = plain \o r.plain
      /\ replies' = replies \o r.replies /\ carry' = r.carry
      /\ seSplit' = (seSplit \/ (r.carry = <<"IAC", "SB">> /\ chunk[Len(chunk)] = "IAC"))
  BY DEF Recv
<1>2. /\ received \in Seq(Bytes) /\ plain \in Seq(Bytes) /\ replies \in Seq(Bytes)
      /\ carry \in Carries
  BY DEF IInv, Types
<1>3. chunk \in Seq(Bytes) /\ Len(chunk) \in Nat /\ Len(chunk) >= 1
  BY ChunkType
<1>4. carry \in Seq(Bytes) /\ carry \o chunk \in Seq(Bytes) /\ Len(r.plain) <= Len(chunk)
  BY <1>2, <1>3, CarryBound
<1>5. r \in Result /\ r.carry \in Carries
  BY <1>4, FilterType, CarryKind
<1>6. r.plain \in Seq(Bytes) /\ r.replies \in Seq(Bytes)
  BY <1>5 DEF Result
<1> HIDE DEF r
<1>7. Types'
  BY <1>1, <1>2, <1>3, <1>5, <1>6, Front DEF Types
<1>8. Whole'
  <2> SUFFICES ASSUME ~seSplit'
               PROVE  LET whole == Filter(received') IN
                      /\ plain' = whole.plain /\ replies' = whole.replies /\ carry' = whole.carry
                      /\ ~(carry' = <<"IAC", "SB">> /\ received'[Len(received')] = "IAC")
    BY DEF Whole
  <2>1. ~seSplit /\ ~(r.carry = <<"IAC", "SB">> /\ chunk[Len(chunk)] = "IAC")
    BY <1>1
  <2>2. /\ plain = Filter(received).plain /\ replies = Filter(received).replies
        /\ carry = Filter(received).carry
        /\ ~(carry = <<"IAC", "SB">> /\ received[Len(received)] = "IAC")
    BY <2>1 DEF IInv, Whole
  <2>3. Filter(received') = Joined(Filter(received), r)
    BY <1>1, <1>2, <1>3, <2>2, FilterJoin DEF r
  <2>4. Filter(received').plain = plain' /\ Filter(received').replies = replies'
        /\ Filter(received').carry = carry'
    <3> DEFINE whole == Filter(received)
               joined == Joined(whole, r)
    <3>1. /\ joined.plain = whole.plain \o r.plain /\ joined.replies = whole.replies \o r.replies
          /\ joined.carry = r.carry
      BY DEF Joined
    <3>2. Filter(received') = joined /\ plain = whole.plain /\ replies = whole.replies
      BY <2>2, <2>3
    <3> HIDE DEF joined, whole
    <3>3. /\ Filter(received').plain = joined.plain /\ Filter(received').replies = joined.replies
          /\ Filter(received').carry = joined.carry
      BY <3>2
    <3> QED
      BY <1>1, <3>1, <3>2, <3>3
  <2>5. received'[Len(received')] = chunk[Len(chunk)]
    <3>1. Len(chunk) \in 1 .. Len(chunk)
      BY <1>3
    <3> QED
      BY <1>1, <1>2, <1>3, <3>1, Front
  <2> QED
    BY <1>1, <2>1, <2>4, <2>5
<1>9. Len(plain') - Len(plain) <= Len(received') - Len(received)
  <2>1. /\ Len(received') = Len(received) + Len(chunk) /\ Len(received) \in Nat
        /\ Len(plain') = Len(plain) + Len(r.plain) /\ Len(plain) \in Nat
        /\ Len(r.plain) \in Nat
    BY <1>1, <1>2, <1>3, <1>6, Front
  <2> QED
    BY <1>3, <1>4, <2>1
<1>10. Len(carry') <= 4
  <2>1. <<>> \in Seq(Bytes)
    BY Short
  <2>2. r.carry \in Seq(Bytes) /\ Len(r.carry) <= 2
    BY <1>5, <2>1, CarryBound
  <2>3. Len(r.carry) \in Nat
    BY <2>2, LenProperties
  <2> QED
    BY <1>1, <2>2, <2>3
<1> QED
  BY <1>7, <1>8, <1>9, <1>10 DEF IInv

(* ... and after a stutter. *)
LEMMA Stutter ==
  ASSUME IInv, UNCHANGED vars
  PROVE  IInv'
  BY DEF IInv, Types, Whole, vars

(* So it is an invariant. *)
LEMMA FilterInductive == Spec => []IInv
<1>1. IInv /\ [Next]_vars => IInv'
  BY RecvStep, Stutter DEF Next
<1> QED
  BY FilterInit, <1>1, PTL DEF Spec

(* Whatever the recv boundaries are, the shell gets what it would have got *)
(* of one buffer, and the client the same refusals, unless one of them     *)
(* separates the IAC and the SE that end a subnegotiation.                 *)
THEOREM ChunksAreInvisible == Spec => []ChunkingInvisible
<1>1. IInv => ChunkingInvisible
  BY DEF IInv, Whole, ChunkingInvisible
<1> QED
  BY FilterInductive, <1>1, PTL

(* No call yields more plain bytes than recv returned, and what it holds   *)
(* back fits iac_carry.                                                    *)
THEOREM OutputAlwaysFits == Spec => OutputFits
<1>1. IInv /\ [Next]_vars =>
        [/\ Len(plain') - Len(plain) <= Len(received') - Len(received)
         /\ Len(carry') <= 4]_vars
  BY RecvStep DEF Next
<1> QED
  BY FilterInductive, <1>1, PTL DEF Spec, OutputFits

-----------------------------------------------------------------------------
(* The host's side *)

(* What both sides make of a buffer that is one whole sequence. *)
LEMMA OneSequence ==
  ASSUME NEW u \in Seq(Bytes), Len(u) >= 1, u[1] # "IAC" \/ ~Cut(u, 1),
         EatToken(u, 1).next = Len(u) + 1
  PROVE  /\ Filter(u).carry = <<>>
         /\ Eat(u).plain = EatToken(u, 1).plain
         /\ Eat(u).replies = EatToken(u, 1).replies
<1>1. 1 \in 1 .. Len(u) /\ <<>> \in Seq(Bytes)
  BY LenProperties, Short
<1>2. FilterToken(u, 1).next = Len(u) + 1 /\ FilterToken(u, 1).carry = <<>>
  BY <1>1, EatKept, TokenKept
<1>3. Filter(u) = Then(FilterToken(u, 1), Nothing)
  BY <1>1, <1>2, FilterStep, FilterEnd DEF Filter
<1>4. Eat(u) = Then(EatToken(u, 1), Nothing)
  <2>1. Eat(u) = Then(EatToken(u, 1), Parse(EatTokens(u))[EatToken(u, 1).next])
    BY <1>1, EatStep DEF Eat
  <2>2. Parse(EatTokens(u))[Len(u) + 1] = Nothing
    BY EatEnd
  <2> QED
    BY <2>1, <2>2
<1>5. EatToken(u, 1).plain \in Seq(Bytes) /\ EatToken(u, 1).replies \in Seq(Bytes)
  BY <1>1, EatStep
<1>6. /\ EatToken(u, 1).plain \o <<>> = EatToken(u, 1).plain
      /\ EatToken(u, 1).replies \o <<>> = EatToken(u, 1).replies
      /\ <<>> \o <<>> = <<>>
  BY <1>1, <1>5, ConcatEmptySeq
<1>7. Nothing.plain = <<>> /\ Nothing.replies = <<>> /\ Nothing.carry = <<>>
  BY DEF Nothing
<1>8. Filter(u).carry = <<>>
  <2> DEFINE f == FilterToken(u, 1)
             r == Then(f, Nothing)
  <2>1. r.carry = f.carry \o Nothing.carry
    BY ThenParts
  <2>2. f.carry = <<>>
    BY <1>2
  <2>3. Filter(u) = r
    BY <1>3
  <2> HIDE DEF f, r
  <2>4. Filter(u).carry = r.carry
    BY <2>3
  <2> QED
    BY <1>6, <1>7, <2>1, <2>2, <2>4
<1> DEFINE t == EatToken(u, 1)
<1> HIDE DEF t
<1>9. Then(t, Nothing).plain = t.plain \o <<>> /\ Then(t, Nothing).replies = t.replies \o <<>>
  BY <1>7, ThenParts
<1>10. Eat(u) = Then(t, Nothing)
  BY <1>4 DEF t
<1>11. Eat(u).plain = t.plain \o <<>> /\ Eat(u).replies = t.replies \o <<>>
  BY <1>9, <1>10
<1> QED
  BY <1>6, <1>8, <1>11 DEF t

(* Escape of one byte. *)
LEMMA EscapeByte ==
  ASSUME NEW b \in Bytes
  PROVE  Escape(<<b>>) = Doubled(b) /\ Doubled(b) \in Seq(Bytes)
<1> DEFINE token == [i \in 1 .. Len(<<b>>) |-> Data(i + 1, Doubled(<<b>>[i]))]
<1>1. Doubled(b) \in Seq(Bytes)
  BY Short DEF Doubled
<1>2. token = [i \in 1 .. 1 |-> Data(i + 1, Doubled(b))]
  BY Short
<1>3. token \in Tokens(1) /\ token[1] = Data(2, Doubled(b))
  BY <1>1, <1>2, Short DEF Tokens, Data, Token
<1> HIDE DEF token
<1>4. Parse(token)[1] = Then(token[1], Parse(token)[token[1].next])
  BY <1>3, ParseDef
<1>5. Parse(token)[2] = Nothing
  BY <1>3, ParseDef
<1>6. token[1].next = 2 /\ token[1].plain = Doubled(b)
  BY <1>3 DEF Data, Token
<1>7. Parse(token)[1].plain = Doubled(b) \o <<>>
  <2>1. Parse(token)[1] = Then(token[1], Nothing)
    BY <1>4, <1>5, <1>6
  <2>2. Nothing.plain = <<>>
    BY DEF Nothing
  <2> DEFINE f == token[1]
             r == Then(f, Nothing)
  <2>3. r.plain = f.plain \o Nothing.plain
    BY ThenParts
  <2>4. f.plain = Doubled(b)
    BY <1>6
  <2>5. Parse(token)[1] = r
    BY <2>1
  <2> HIDE DEF f, r
  <2>6. Parse(token)[1].plain = r.plain
    BY <2>5
  <2> QED
    BY <2>2, <2>3, <2>4, <2>6
<1>8. Doubled(b) \o <<>> = Doubled(b)
  BY <1>1, ConcatEmptySeq
<1>9. Escape(<<b>>) = Parse(token)[1].plain
  BY DEF Escape, token
<1> QED
  BY <1>1, <1>7, <1>8, <1>9

(* An escaped byte is read as that byte. *)
LEMMA ByteUnit ==
  ASSUME NEW b \in Bytes
  PROVE  /\ Escape(<<b>>) \in Seq(Bytes) /\ Filter(Escape(<<b>>)).carry = <<>>
         /\ Eat(Escape(<<b>>)).plain = <<b>> /\ Eat(Escape(<<b>>)).replies = <<>>
<1> DEFINE u == Doubled(b)
<1>1. Escape(<<b>>) = u /\ u \in Seq(Bytes)
  BY EscapeByte
<1>2. CASE b = "IAC"
  <2>1. u = <<"IAC", "IAC">>
    BY <1>2 DEF Doubled
  <2> HIDE DEF u
  <2>2. Len(u) = 2 /\ u[1] = "IAC" /\ u[2] = "IAC" /\ 1 + 1 = 2 /\ 1 + 2 = 3
    BY <2>1
  <2>3. ~Cut(u, 1)
    BY <2>2 DEF Cut, Negotiation
  <2>4. EatToken(u, 1) = Data(3, <<"IAC">>)
    BY <2>2 DEF EatToken, Negotiation
  <2>5. EatToken(u, 1).next = 3 /\ EatToken(u, 1).plain = <<"IAC">> /\ EatToken(u, 1).replies = <<>>
    BY <2>4 DEF Data, Token
  <2>6. Len(u) >= 1 /\ Len(u) + 1 = 3
    BY <2>2
  <2> QED
    BY <1>1, <1>2, <2>3, <2>5, <2>6, OneSequence
<1>3. CASE b # "IAC"
  <2>1. u = <<b>>
    BY <1>3 DEF Doubled
  <2> HIDE DEF u
  <2>2. Len(u) = 1 /\ u[1] = b /\ 1 + 1 = 2
    BY <2>1
  <2>3. EatToken(u, 1) = Data(2, <<b>>)
    BY <1>3, <2>2 DEF EatToken
  <2>4. EatToken(u, 1).next = 2 /\ EatToken(u, 1).plain = <<b>> /\ EatToken(u, 1).replies = <<>>
    BY <2>3 DEF Data, Token
  <2>5. Len(u) >= 1 /\ Len(u) + 1 = 2
    BY <2>2
  <2> QED
    BY <1>1, <1>3, <2>2, <2>4, <2>5, OneSequence
<1> QED
  BY <1>2, <1>3

(* A command is read as nothing, and answered if it is an offer. *)
LEMMA CommandUnit ==
  ASSUME NEW u \in Commands
  PROVE  /\ u \in Seq(Bytes) /\ Filter(u).carry = <<>>
         /\ Eat(u).plain = <<>> /\ Eat(u).replies = Refusal(u[2])
<1>1. CASE \E c \in Negotiation : u = <<"IAC", c, "x">>
  <2>1. PICK c \in Negotiation : u = <<"IAC", c, "x">>
    BY <1>1
  <2>2. Len(u) = 3 /\ u[1] = "IAC" /\ u[2] = c /\ 1 + 1 = 2 /\ 1 + 2 = 3 /\ 1 + 3 = 4
    BY <2>1
  <2>3. u \in Seq(Bytes)
    BY <2>1 DEF Bytes, Negotiation
  <2>4. ~Cut(u, 1)
    BY <2>2 DEF Cut, Negotiation
  <2>5. EatToken(u, 1) = Token(4, <<>>, Refusal(c), <<>>)
    BY <2>2 DEF EatToken, Negotiation
  <2>6. EatToken(u, 1).next = 4 /\ EatToken(u, 1).plain = <<>> /\ EatToken(u, 1).replies = Refusal(c)
    BY <2>5 DEF Token
  <2>7. Len(u) >= 1 /\ Len(u) + 1 = 4
    BY <2>2
  <2>8. Refusal(u[2]) = Refusal(c)
    BY <2>2 DEF Refusal, Refusal
  <2> QED
    BY <2>3, <2>4, <2>6, <2>7, <2>8, OneSequence
<1>2. CASE u = <<"IAC", "SB", "x", "IAC", "SE">>
  <2>1. /\ Len(u) = 5 /\ u[1] = "IAC" /\ u[2] = "SB" /\ u[3] = "x" /\ u[4] = "IAC" /\ u[5] = "SE"
        /\ 1 + 1 = 2 /\ 1 + 2 = 3
    BY <1>2
  <2>2. u \in Seq(Bytes)
    BY <1>2 DEF Bytes, Negotiation
  <2>3. SbEnds(u, 1) = {4}
    <3>1. SbEnds(u, 1) = {j \in 3 .. 4 : u[j] = "IAC" /\ u[j + 1] = "SE"}
      BY <2>1 DEF SbEnds
    <3>2. \A j \in 3 .. 4 : (u[j] = "IAC" /\ u[j + 1] = "SE") <=> j = 4
      <4>1. \A j \in 3 .. 4 : j = 3 \/ j = 4
        OBVIOUS
      <4>2. 4 + 1 = 5
        OBVIOUS
      <4> QED
        BY <2>1, <4>1, <4>2
    <3> QED
      BY <3>1, <3>2
  <2>4. FirstOf(SbEnds(u, 1)) = 4
    <3>1. 4 \in SbEnds(u, 1) /\ \A k \in SbEnds(u, 1) : 4 <= k
      BY <2>3
    <3> QED
      BY <2>2, <3>1, FirstUnique
  <2>5. ~Cut(u, 1)
    BY <2>1, <2>3 DEF Cut, Negotiation
  <2>6. EatToken(u, 1) = Skip(4 + 2)
    BY <2>1, <2>3, <2>4 DEF EatToken, Negotiation
  <2>7. EatToken(u, 1).next = 6 /\ EatToken(u, 1).plain = <<>> /\ EatToken(u, 1).replies = <<>>
    BY <2>6 DEF Skip, Data, Token
  <2>8. Len(u) >= 1 /\ Len(u) + 1 = 6
    BY <2>1
  <2>9. Refusal(u[2]) = <<>>
    BY <2>1 DEF Refusal
  <2> QED
    BY <2>2, <2>5, <2>7, <2>8, <2>9, OneSequence
<1>3. CASE u = <<"IAC", "NOP">>
  <2>1. Len(u) = 2 /\ u[1] = "IAC" /\ u[2] = "NOP" /\ 1 + 1 = 2 /\ 1 + 2 = 3
    BY <1>3
  <2>2. u \in Seq(Bytes)
    BY <1>3 DEF Bytes, Negotiation
  <2>3. ~Cut(u, 1)
    BY <2>1 DEF Cut, Negotiation
  <2>4. EatToken(u, 1) = Skip(3)
    BY <2>1 DEF EatToken, Negotiation
  <2>5. EatToken(u, 1).next = 3 /\ EatToken(u, 1).plain = <<>> /\ EatToken(u, 1).replies = <<>>
    BY <2>4 DEF Skip, Data, Token
  <2>6. Len(u) >= 1 /\ Len(u) + 1 = 3
    BY <2>1
  <2>7. Refusal(u[2]) = <<>>
    BY <2>1 DEF Refusal
  <2> QED
    BY <2>2, <2>3, <2>5, <2>6, <2>7, OneSequence
<1> QED
  BY <1>1, <1>2, <1>3 DEF Commands, Negotiation, Negotiation

(* The types of the host's side. *)
HostTypes == /\ printed \in Seq(Bytes) /\ offers \in Seq(Bytes) /\ wire \in Seq(Bytes)
             /\ heard \in Seq(Bytes) /\ text \in Seq(Bytes) /\ answers \in Seq(Bytes)

(* All that was sent ends between two sequences, and one reading of it     *)
(* would give the shell's output and the offers' answers.                  *)
Readable == LET all == heard \o wire IN
            /\ Filter(all).carry = <<>>
            /\ Eat(all).plain = printed /\ Eat(all).replies = offers

(* While no recv cut a sequence, the readings of the chunks are one        *)
(* reading of everything received.                                         *)
ReadSoFar == ~cut => /\ Filter(heard).carry = <<>>
                     /\ text = Eat(heard).plain /\ answers = Eat(heard).replies

HostInv == HostTypes /\ Readable /\ ReadSoFar

(* Nothing is read from an empty buffer. *)
LEMMA NothingRead == Filter(<<>>) = Nothing /\ Eat(<<>>) = Nothing
<1>1. <<>> \in Seq(Bytes) /\ Len(<<>>) = 0 /\ 0 + 1 = 1
  BY Short
<1>2. Parse(EatTokens(<<>>))[Len(<<>>) + 1] = Nothing
  BY <1>1, EatEnd
<1> QED
  BY <1>1, <1>2, FilterNothing DEF Eat

(* The host's side initially. *)
LEMMA HostInitially == HostInit => HostInv
<1> SUFFICES ASSUME HostInit PROVE HostInv
  OBVIOUS
<1>1. /\ printed = <<>> /\ offers = <<>> /\ wire = <<>> /\ heard = <<>> /\ text = <<>>
      /\ answers = <<>> /\ heard \o wire = <<>>
  BY Short, ConcatEmptySeq DEF HostInit
<1>2. Nothing.plain = <<>> /\ Nothing.replies = <<>> /\ Nothing.carry = <<>>
  BY DEF Nothing
<1>3. HostTypes
  BY <1>1, Short DEF HostTypes
<1>4. Readable
  BY <1>1, <1>2, NothingRead DEF Readable
<1>5. ReadSoFar
  BY <1>1, <1>2, NothingRead DEF ReadSoFar
<1> QED
  BY <1>3, <1>4, <1>5 DEF HostInv

(* The guest sends a whole sequence. *)
LEMMA Sends ==
  ASSUME HostInv, NEW u \in Seq(Bytes), Filter(u).carry = <<>>
  PROVE  LET all == heard \o (wire \o u) IN
         /\ wire \o u \in Seq(Bytes) /\ Filter(all).carry = <<>>
         /\ Eat(all).plain = printed \o Eat(u).plain
         /\ Eat(all).replies = offers \o Eat(u).replies
<1> DEFINE before == heard \o wire
<1>1. heard \in Seq(Bytes) /\ wire \in Seq(Bytes) /\ before \in Seq(Bytes)
  BY Front DEF HostInv, HostTypes
<1>2. heard \o (wire \o u) = before \o u /\ wire \o u \in Seq(Bytes)
  BY <1>1, Assoc, Front
<1>3. Filter(before).carry = <<>> /\ Eat(before).plain = printed /\ Eat(before).replies = offers
  BY DEF HostInv, Readable
<1> HIDE DEF before
<1>4. Filter(before \o u).carry = <<>>
  <2>1. <<>> \o u = u
    BY ConcatEmptySeq
  <2>2. <<>> # <<"IAC", "SB">>
    OBVIOUS
  <2>3. Filter(before).carry \o u = u /\ Filter(before).carry # <<"IAC", "SB">>
    BY <1>3, <2>1, <2>2
  <2>4. Filter(before \o u) = Joined(Filter(before), Filter(Filter(before).carry \o u))
    BY <1>1, <2>3, FilterJoin
  <2>5. Filter(before \o u) = Joined(Filter(before), Filter(u))
    BY <2>3, <2>4
  <2> QED
    <3> DEFINE b == Filter(u)
               j == Joined(Filter(before), b)
    <3>1. j.carry = b.carry
      BY DEF Joined
    <3>2. b.carry = <<>> /\ Filter(before \o u) = j
      BY <2>5
    <3> HIDE DEF b, j
    <3> QED
      BY <3>1, <3>2
<1>5. Eat(before \o u) = Joined(Eat(before), Eat(u))
  BY <1>1, <1>3, EatJoin
<1>6. Eat(before \o u).plain = printed \o Eat(u).plain
      /\ Eat(before \o u).replies = offers \o Eat(u).replies
  <2>1. /\ Eat(before \o u).plain = Eat(before).plain \o Eat(u).plain
        /\ Eat(before \o u).replies = Eat(before).replies \o Eat(u).replies
    <3> DEFINE j == Joined(Eat(before), Eat(u))
    <3>1. /\ j.plain = Eat(before).plain \o Eat(u).plain
          /\ j.replies = Eat(before).replies \o Eat(u).replies
      BY JoinedParts, Zenon
    <3>2. Eat(before \o u) = j
      BY <1>5
    <3> HIDE DEF j
    <3> QED
      BY <3>1, <3>2
  <2> QED
    BY <1>3, <2>1
<1> QED
  BY <1>2, <1>4, <1>6

(* A byte of output. *)
LEMMA OutputStep ==
  ASSUME HostInv, NEW b \in Bytes, Output(b)
  PROVE  HostInv'
<1> DEFINE u == Escape(<<b>>)
<1>1. /\ u \in Seq(Bytes) /\ Filter(u).carry = <<>> /\ Eat(u).plain = <<b>> /\ Eat(u).replies = <<>>
  BY ByteUnit
<1>2. /\ printed' = Append(printed, b) /\ wire' = wire \o u
      /\ UNCHANGED <<offers, heard, text, answers, cut>>
  BY DEF Output
<1> HIDE DEF u
<1>3. /\ printed \in Seq(Bytes) /\ offers \in Seq(Bytes) /\ HostTypes
  BY DEF HostInv, HostTypes
<1>4. /\ Append(printed, b) = printed \o <<b>> /\ Append(printed, b) \in Seq(Bytes)
      /\ offers \o <<>> = offers
  BY <1>3, AppendIsConcat, AppendProperties, ConcatEmptySeq
<1>5. LET all == heard \o (wire \o u) IN
      /\ wire \o u \in Seq(Bytes) /\ Filter(all).carry = <<>>
      /\ Eat(all).plain = printed \o <<b>> /\ Eat(all).replies = offers \o <<>>
  BY <1>1, Sends
<1>6. HostTypes'
  BY <1>2, <1>3, <1>4, <1>5 DEF HostTypes
<1>7. Readable'
  BY <1>2, <1>4, <1>5 DEF Readable
<1>8. ReadSoFar'
  BY <1>2 DEF HostInv, ReadSoFar
<1> QED
  BY <1>6, <1>7, <1>8 DEF HostInv

(* A command. *)
LEMMA NegotiateStep ==
  ASSUME HostInv, NEW u \in Commands, Negotiate(u)
  PROVE  HostInv'
<1>1. /\ u \in Seq(Bytes) /\ Filter(u).carry = <<>> /\ Eat(u).plain = <<>>
      /\ Eat(u).replies = Refusal(u[2])
  BY CommandUnit
<1>2. /\ offers' = offers \o Refusal(u[2]) /\ wire' = wire \o u
      /\ UNCHANGED <<printed, heard, text, answers, cut>>
  BY DEF Negotiate
<1>3. /\ printed \in Seq(Bytes) /\ offers \in Seq(Bytes) /\ HostTypes
  BY DEF HostInv, HostTypes
<1>4. printed \o <<>> = printed
  BY <1>3, ConcatEmptySeq
<1>5. LET all == heard \o (wire \o u) IN
      /\ wire \o u \in Seq(Bytes) /\ Filter(all).carry = <<>>
      /\ Eat(all).plain = printed \o <<>> /\ Eat(all).replies = offers \o Refusal(u[2])
  BY <1>1, Sends
<1>6. offers \o Refusal(u[2]) \in Seq(Bytes)
  <2>1. Refusal(u[2]) \in Seq(Bytes)
    BY Short DEF Refusal
  <2> QED
    BY <1>3, <2>1, Front
<1>7. HostTypes'
  BY <1>2, <1>3, <1>5, <1>6 DEF HostTypes
<1>8. Readable'
  BY <1>2, <1>4, <1>5 DEF Readable
<1>9. ReadSoFar'
  BY <1>2 DEF HostInv, ReadSoFar
<1> QED
  BY <1>7, <1>8, <1>9 DEF HostInv

(* A buffer is its front and its rest. *)
LEMMA Split ==
  ASSUME NEW s \in Seq(Bytes), NEW n \in 0 .. Len(s)
  PROVE  /\ SubSeq(s, 1, n) \in Seq(Bytes) /\ SubSeq(s, n + 1, Len(s)) \in Seq(Bytes)
         /\ SubSeq(s, 1, n) \o SubSeq(s, n + 1, Len(s)) = s
<1> DEFINE a == SubSeq(s, 1, n)
           b == SubSeq(s, n + 1, Len(s))
<1>0. Len(s) \in Nat /\ n \in Nat /\ n <= Len(s)
  BY LenProperties
<1>1. a \in Seq(Bytes) /\ Len(a) = n /\ \A k \in 1 .. n : a[k] = s[k]
  <2>1. \A k \in 1 .. n : 1 + k - 1 = k
    BY <1>0
  <2> QED
    BY <1>0, <2>1, SubSeqProperties
<1>2. b \in Seq(Bytes) /\ EndsWith(s, b, (n + 1) - 1)
  BY <1>0, Suffix
<1> HIDE DEF a, b
<1>3. /\ (n + 1) - 1 = n /\ Len(b) \in Nat /\ Len(s) = Len(b) + n
      /\ \A k \in 1 .. Len(b) : s[k + n] = b[k]
  BY <1>0, <1>2, LenProperties DEF EndsWith
<1>4. /\ a \o b \in Seq(Bytes) /\ Len(a \o b) = n + Len(b)
      /\ \A k \in 1 .. n : (a \o b)[k] = a[k]
      /\ \A k \in 1 .. Len(b) : (a \o b)[n + k] = b[k]
  BY <1>1, <1>2, Front
<1>5. \A k \in 1 .. Len(s) : (a \o b)[k] = s[k]
  <2> TAKE k \in 1 .. Len(s)
  <2>1. CASE k <= n
    BY <1>0, <1>1, <1>4, <2>1
  <2>3. k <= n \/ k > n
    <3>1. k \in Nat /\ n \in Nat
      BY <1>0
    <3> QED
      BY <3>1
  <2>2. CASE k > n
    <3>1. k - n \in 1 .. Len(b) /\ (k - n) + n = k /\ n + (k - n) = k
      BY <1>0, <1>3, <2>2
    <3> QED
      BY <1>3, <1>4, <3>1
  <2> QED
    BY <2>1, <2>2, <2>3
<1>6. a \o b = s
  <2>1. Len(a \o b) = Len(s)
    BY <1>0, <1>3, <1>4
  <2> QED
    BY <1>4, <1>5, <2>1, SeqEqual
<1> QED
  BY <1>1, <1>2, <1>6 DEF a, b

(* A recv of any size. *)
LEMMA ReceiveStep ==
  ASSUME HostInv, NEW n \in 1 .. RecvMax, n <= Len(wire), HostRecv(n)
  PROVE  HostInv'
<1> DEFINE chunk == SubSeq(wire, 1, n)
           r == Eat(chunk)
<1>1. /\ wire' = SubSeq(wire, n + 1, Len(wire)) /\ heard' = heard \o chunk
      /\ text' = text \o r.plain /\ answers' = answers \o r.replies
      /\ cut' = (cut \/ Filter(heard').carry # <<>>)
      /\ UNCHANGED <<printed, offers, units>>
  BY DEF HostRecv
<1>2. /\ printed \in Seq(Bytes) /\ offers \in Seq(Bytes) /\ wire \in Seq(Bytes)
      /\ heard \in Seq(Bytes) /\ text \in Seq(Bytes) /\ answers \in Seq(Bytes)
  BY DEF HostInv, HostTypes
<1>3. n \in 0 .. Len(wire)
  BY <1>2, LenProperties
<1>4. /\ chunk \in Seq(Bytes) /\ wire' \in Seq(Bytes) /\ chunk \o wire' = wire
  BY <1>1, <1>2, <1>3, Split
<1>5. r.plain \in Seq(Bytes) /\ r.replies \in Seq(Bytes)
  BY <1>4, EatType DEF Result
<1> HIDE DEF r, chunk
<1>6. HostTypes'
  BY <1>1, <1>2, <1>4, <1>5, Front DEF HostTypes
<1>7. heard' \o wire' = heard \o wire
  <2>1. heard \o (chunk \o wire') = (heard \o chunk) \o wire'
    <3> DEFINE w == wire'
    <3>1. w \in Seq(Bytes)
      BY <1>4
    <3> HIDE DEF w
    <3>2. heard \o (chunk \o w) = (heard \o chunk) \o w
      <4>1. heard \in Seq(Bytes) /\ chunk \in Seq(Bytes)
        BY <1>2, <1>4
      <4> QED
        BY <3>1, <4>1, Assoc
    <3> QED
      BY <3>2 DEF w
  <2> QED
    BY <1>1, <1>4, <2>1
<1>8. Readable'
  BY <1>1, <1>7 DEF HostInv, Readable
<1>9. ReadSoFar'
  <2> SUFFICES ASSUME ~cut'
               PROVE  /\ Filter(heard').carry = <<>>
                      /\ text' = Eat(heard').plain /\ answers' = Eat(heard').replies
    BY DEF ReadSoFar
  <2>1. ~cut /\ Filter(heard').carry = <<>>
    BY <1>1
  <2>2. Filter(heard).carry = <<>> /\ text = Eat(heard).plain /\ answers = Eat(heard).replies
    BY <2>1 DEF HostInv, ReadSoFar
  <2>3. Eat(heard \o chunk) = Joined(Eat(heard), r)
    BY <1>2, <1>4, <2>2, EatJoin DEF r
  <2>4. /\ Eat(heard \o chunk).plain = Eat(heard).plain \o r.plain
        /\ Eat(heard \o chunk).replies = Eat(heard).replies \o r.replies
    <3> DEFINE j == Joined(Eat(heard), r)
    <3>1. j.plain = Eat(heard).plain \o r.plain /\ j.replies = Eat(heard).replies \o r.replies
      BY JoinedParts, Zenon
    <3>2. Eat(heard \o chunk) = j
      BY <2>3
    <3> HIDE DEF j
    <3> QED
      BY <3>1, <3>2
  <2> QED
    BY <1>1, <2>1, <2>2, <2>4
<1> QED
  BY <1>6, <1>8, <1>9 DEF HostInv

(* The host's side at any time. *)
LEMMA HostInductive == HostSpec => []HostInv
<1>1. HostInv /\ [HostNext]_hostVars => HostInv'
  <2> SUFFICES ASSUME HostInv, [HostNext]_hostVars PROVE HostInv'
    OBVIOUS
  <2>1. CASE \E b \in Printed : Output(b)
    BY <2>1, OutputStep, HostAssumption
  <2>2. CASE \E seq \in Commands : Negotiate(seq)
    BY <2>2, NegotiateStep
  <2>3. CASE ReceiveSome
    BY <2>3, ReceiveStep DEF ReceiveSome
  <2>4. CASE UNCHANGED hostVars
    BY <2>4 DEF hostVars, HostInv, HostTypes, Readable, ReadSoFar
  <2> QED
    BY <2>1, <2>2, <2>3, <2>4 DEF HostNext
<1> QED
  BY HostInitially, <1>1, PTL DEF HostSpec

(* A prefix of a concatenation. *)
LEMMA InitialOf ==
  ASSUME NEW s \in Seq(Bytes), NEW t \in Seq(Bytes)
  PROVE  Initial(s, s \o t)
<1>1. /\ Len(s) \in Nat /\ Len(t) \in Nat /\ Len(s \o t) = Len(s) + Len(t)
      /\ s \o t \in Seq(Bytes) /\ \A k \in 1 .. Len(s) : (s \o t)[k] = s[k]
  BY Front
<1>2. /\ SubSeq(s \o t, 1, Len(s)) \in Seq(Bytes) /\ Len(SubSeq(s \o t, 1, Len(s))) = Len(s)
      /\ \A k \in 1 .. Len(s) : SubSeq(s \o t, 1, Len(s))[k] = (s \o t)[k]
  <2>1. \A k \in 1 .. Len(s) : 1 + k - 1 = k
    BY <1>1
  <2> QED
    BY <1>1, <2>1, SubSeqProperties
<1>3. s = SubSeq(s \o t, 1, Len(s))
  BY <1>1, <1>2, SeqEqual
<1>4. Len(s) <= Len(s \o t)
  BY <1>1
<1> QED
  BY <1>3, <1>4 DEF Initial

(* While no recv ended inside a telnet sequence, the transcript is the     *)
(* guest's output and the answers are those its offers call for, however   *)
(* the bytes were received.                                                *)
THEOREM ConversationsAreIntact == HostSpec => []ConversationIntact
<1>1. HostInv => ConversationIntact
  <2> SUFFICES ASSUME HostInv, ~cut
               PROVE  /\ Initial(text, printed) /\ Initial(answers, offers)
                      /\ wire = <<>> => text = printed /\ answers = offers
    BY DEF ConversationIntact
  <2>1. /\ heard \in Seq(Bytes) /\ wire \in Seq(Bytes)
        /\ text \in Seq(Bytes) /\ answers \in Seq(Bytes)
    BY DEF HostInv, HostTypes
  <2>2. Filter(heard).carry = <<>> /\ text = Eat(heard).plain /\ answers = Eat(heard).replies
    BY DEF HostInv, ReadSoFar
  <2>3. Eat(heard \o wire) = Joined(Eat(heard), Eat(wire))
    BY <2>1, <2>2, EatJoin
  <2>4. printed = Eat(heard \o wire).plain /\ offers = Eat(heard \o wire).replies
    BY DEF HostInv, Readable
  <2>5. printed = text \o Eat(wire).plain /\ offers = answers \o Eat(wire).replies
    <3>1. /\ Eat(heard \o wire).plain = Eat(heard).plain \o Eat(wire).plain
          /\ Eat(heard \o wire).replies = Eat(heard).replies \o Eat(wire).replies
      <4> DEFINE j == Joined(Eat(heard), Eat(wire))
      <4>1. /\ j.plain = Eat(heard).plain \o Eat(wire).plain
            /\ j.replies = Eat(heard).replies \o Eat(wire).replies
        BY JoinedParts, Zenon
      <4>2. Eat(heard \o wire) = j
        BY <2>3
      <4> HIDE DEF j
      <4> QED
        BY <4>1, <4>2
    <3> QED
      BY <2>2, <2>4, <3>1
  <2>6. Eat(wire).plain \in Seq(Bytes) /\ Eat(wire).replies \in Seq(Bytes)
    BY <2>1, EatType DEF Result
  <2>7. Initial(text, printed) /\ Initial(answers, offers)
    BY <2>1, <2>5, <2>6, InitialOf
  <2>8. ASSUME wire = <<>> PROVE text = printed /\ answers = offers
    <3>1. Eat(wire).plain = <<>> /\ Eat(wire).replies = <<>>
      BY <2>8, NothingRead DEF Nothing
    <3> QED
      BY <2>1, <2>5, <3>1, ConcatEmptySeq
  <2> QED
    BY <2>7, <2>8
<1> QED
  BY HostInductive, <1>1, PTL

-----------------------------------------------------------------------------
(* What the daemon escapes of any output is read back by the host as that  *)
(* output, and as no offer.                                                *)
THEOREM EscapedIsRead ==
  ASSUME NEW out \in Seq(Bytes)
  PROVE  Eat(Escape(out)).plain = out /\ Eat(Escape(out)).replies = <<>>
<1> DEFINE n == Len(out)
           token == [i \in 1 .. n |-> Data(i + 1, Doubled(out[i]))]
           E(i) == Parse(token)[i].plain
           Good == {i \in 1 .. n + 1 : /\ Filter(E(i)).carry = <<>>
                                      /\ Eat(E(i)).plain = SubSeq(out, i, n)
                                      /\ Eat(E(i)).replies = <<>>}
<1>0. n \in Nat
  BY LenProperties
<1>1. \A i \in 1 .. n : out[i] \in Bytes /\ Doubled(out[i]) \in Seq(Bytes)
  BY ElementOfSeq, EscapeByte
<1>2. token \in Tokens(n)
  BY <1>0, <1>1, Short DEF Tokens, Data, Token
<1>3. \A i \in 1 .. n : token[i].next = i + 1 /\ token[i].plain = Doubled(out[i])
  BY DEF Data, Token
<1>4. \A i \in 1 .. n + 1 : E(i) \in Seq(Bytes)
  <2> HIDE DEF token
  <2> QED
    BY <1>0, <1>2, ParseType DEF Result
<1> HIDE DEF token
<1>5. E(n + 1) = <<>>
  <2>1. n + 1 \in 1 .. n + 1 /\ n + 1 > n
    BY <1>0
  <2>2. Parse(token)[n + 1] = Nothing
    BY <1>0, <1>2, <2>1, ParseDef
  <2> QED
    BY <2>2 DEF Nothing
<1>6. ASSUME NEW i \in 1 .. n
      PROVE  E(i) = Doubled(out[i]) \o E(i + 1)
  <2>1. i \in 1 .. n + 1 /\ ~(i > n)
    BY <1>0
  <2>2. Parse(token)[i] = Then(token[i], Parse(token)[i + 1])
    BY <1>0, <1>2, <1>3, <2>1, ParseDef
  <2> DEFINE f == token[i]
             q == Parse(token)[i + 1]
             r == Then(f, q)
  <2>3. r.plain = f.plain \o q.plain
    BY ThenParts
  <2>4. Parse(token)[i] = r
    BY <2>2
  <2> HIDE DEF f, q, r
  <2>5. E(i) = f.plain \o q.plain
    BY <2>3, <2>4
  <2> QED
    BY <1>3, <2>5 DEF f, q
<1> HIDE DEF E
<1>7. ASSUME NEW i \in 1 .. n + 1, \A j \in i + 1 .. n + 1 : j \in Good
      PROVE  i \in Good
  <2>1. CASE i = n + 1
    <3>1. E(i) = <<>>
      BY <1>5, <2>1
    <3>2. SubSeq(out, i, n) = <<>>
      BY <1>0, <2>1, SubSeqEmpty
    <3>3. Nothing.plain = <<>> /\ Nothing.replies = <<>> /\ Nothing.carry = <<>>
      BY DEF Nothing
    <3> QED
      BY <3>1, <3>2, <3>3, NothingRead
  <2>2. CASE i # n + 1
    <3> DEFINE u == Doubled(out[i])
               z == E(i + 1)
    <3>1. i \in 1 .. n /\ i + 1 \in i + 1 .. n + 1 /\ i + 1 \in 1 .. n + 1
      BY <1>0, <2>2
    <3>2. /\ u \in Seq(Bytes) /\ Filter(u).carry = <<>>
          /\ Eat(u).plain = <<out[i]>> /\ Eat(u).replies = <<>>
      BY <1>1, <3>1, EscapeByte, ByteUnit
    <3>3. /\ z \in Seq(Bytes) /\ Filter(z).carry = <<>>
          /\ Eat(z).plain = SubSeq(out, i + 1, n) /\ Eat(z).replies = <<>>
      BY <1>4, <1>7, <3>1
    <3>4. E(i) = u \o z
      BY <1>6, <3>1
    <3> HIDE DEF u, z
    <3>5. Filter(u \o z) = Joined(Filter(u), Filter(z))
      <4>1. <<>> \o z = z /\ <<>> # <<"IAC", "SB">>
        BY ConcatEmptySeq
      <4>2. Filter(u).carry \o z = z /\ Filter(u).carry # <<"IAC", "SB">>
        BY <3>2, <4>1
      <4>3. Filter(u \o z) = Joined(Filter(u), Filter(Filter(u).carry \o z))
        BY <3>2, <3>3, <4>2, FilterJoin
      <4> QED
        BY <4>2, <4>3
    <3>6. Eat(u \o z) = Joined(Eat(u), Eat(z))
      BY <3>2, <3>3, EatJoin
    <3>7. /\ Joined(Filter(u), Filter(z)).carry = Filter(z).carry
          /\ Joined(Eat(u), Eat(z)).plain = Eat(u).plain \o Eat(z).plain
          /\ Joined(Eat(u), Eat(z)).replies = Eat(u).replies \o Eat(z).replies
      BY Zenon DEF Joined
    <3>8. <<out[i]>> \o SubSeq(out, i + 1, n) = SubSeq(out, i, n)
      <4>1. i \in 1 .. Len(out) /\ n \in i .. Len(out)
        BY <1>0, <3>1
      <4> QED
        BY <4>1, SubSeqRecursiveFirst
    <3>9. <<>> \o <<>> = <<>>
      BY Short, ConcatEmptySeq
    <3> QED
      BY <3>2, <3>3, <3>4, <3>5, <3>6, <3>7, <3>8, <3>9
  <2> QED
    BY <2>1, <2>2
<1>8. \A i \in 1 .. n + 1 : i \in Good
  <2> HIDE DEF Good
  <2> QED
    BY <1>0, <1>7, Backward
<1>9. 1 \in 1 .. n + 1
  BY <1>0
<1>10. E(1) = Escape(out)
  BY DEF E, token, Escape
<1>11. SubSeq(out, 1, n) = out
  BY SubSeqFull
<1> QED
  BY <1>8, <1>9, <1>10, <1>11
=============================================================================
