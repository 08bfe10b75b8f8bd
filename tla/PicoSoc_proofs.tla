------------------------------ MODULE PicoSoc_proofs ------------------------------
(***************************************************************************)
(* Proofs about PicoSoc, for a flash of any size, any latency after reset  *)
(* and any numbers of rounds: as long as only keys are typed that Avoided  *)
(* admits, the program can be read from the flash it runs from, although   *)
(* it changes how it is read; and whatever is typed, what it reports is    *)
(* true.                                                                   *)
(***************************************************************************)
EXTENDS PicoSoc, TLAPS

-------------------------------------------------------------------------------
(* The programs: what operations they are made of *)

\* Operations that leave the flash alone.
Plain ==
  [do : {"show", "latency", "enter", "prompt", "echo", "bytes", "passed"}, arg : {""}]
  \cup [do : {"flag"}, arg : {"ddr", "qspi", "cont"}]
  \cup [do : {"dec"}, arg : 0 .. 99 \cup {128}]
  \cup [do : {"hex"}, arg : {2, 8}]
  \cup [do : {"words"}, arg : Nat]

\* Writes of the configuration register.  On the larger board continuous reading is
\* never set on one line, and on two only by the benchmark (lines = "two"); on the smaller one
\* a width comes with the latency it needs.
Modes(lines) ==
  {m \in [ddr : BOOLEAN, qspi : BOOLEAN, cont : BOOLEAN] :
     m.cont => (m.ddr \/ m.qspi) /\ (m.qspi \/ lines = "two")}
Latencies == [ddr : {FALSE}, qspi : {FALSE}, cont : {FALSE}, dummy : 1 .. 15]
IceModes ==
  {m \in [ddr : BOOLEAN, qspi : BOOLEAN, cont : {FALSE}, dummy : {0, 4, 7}] :
     m.qspi => m.dummy = IF m.ddr THEN 7 ELSE 4}
Settings(b, lines) ==
  [do : {"set"},
   arg : IF b = "hx8k" THEN Modes(lines) \cup Latencies
         ELSE {m \in IceModes : m.ddr /\ ~m.qspi => m.dummy = 0} \cup [cont : {TRUE}]]

\* Commands by hand.
Reads == [do : {"flashio"}, arg : [kind : {"read", "any"}, n : Nat, effect : {Nothing}]]
Writes ==
  [do : {"flashio"},
   arg : [kind : {"write"}, n : Nat, effect : {[qe |-> TRUE]} \cup {[latency |-> v] : v \in 1 .. 15}]]

Ops(b, lines) == Plain \cup Settings(b, lines) \cup Reads \cup Writes

SetsLatency(b, o) == b = "hx8k" /\ o.do = "set" /\ "dummy" \in DOMAIN o.arg
SetsWidth(o) == o.do = "set" /\ "qspi" \in DOMAIN o.arg
SetsCont(o) == o.do = "set" /\ "qspi" \notin DOMAIN o.arg
WritesLatency(o) == o.do = "flashio" /\ "latency" \in DOMAIN o.arg.effect
ReadsAny(o) == o.do = "flashio" /\ o.arg.kind = "any"

\* What an operation finds behind it and leaves before it: latency is set at both ends
\* in two steps with nothing between them; registers are read by hand right after that,
\* at the latency they count on; continuous reading is set on its own only after a
\* width of four lines; and a test has passed only after its last part.
Placed(b, s, j) ==
  /\ s[j].do = "flashio" => WritesLatency(s[j]) \/ ReadsAny(s[j])
  /\ WritesLatency(s[j]) =>
       j > 1 /\ SetsLatency(b, s[j-1]) /\ s[j-1].arg.dummy = s[j].arg.effect.latency
  /\ SetsLatency(b, s[j]) => j < Len(s) /\ WritesLatency(s[j+1])
  /\ ReadsAny(s[j]) =>
       j > 1 /\ WritesLatency(s[j-1]) /\ s[j-1].arg.effect.latency = LATENCY
  /\ SetsCont(s[j]) =>
       \E i \in 1 .. j - 1 : /\ SetsWidth(s[i]) /\ s[i].arg.qspi
                             /\ \A m \in i + 1 .. j - 1 : s[m].do # "set"
  /\ s[j].do = "passed" => j > 1 /\ s[j-1].do = "bytes"
Script(b, lines, s) == s \in Seq(Ops(b, lines)) /\ \A j \in 1 .. Len(s) : Placed(b, s, j)

\* s is a piece of t, behind its first k operations.
Piece(s, t, k) == k + Len(s) <= Len(t) /\ \A j \in 1 .. Len(s) : t[k+j] = s[j]

\* What is placed in a piece is placed in the whole.
LEMMA PlacedInPiece ==
  ASSUME NEW b, NEW S, NEW s \in Seq(S), NEW t \in Seq(S), NEW k \in Nat, Piece(s, t, k),
         NEW j \in 1 .. Len(s), Placed(b, s, j)
  PROVE  Placed(b, t, k + j)
<1> /\ k + j \in 1 .. Len(t) /\ t[k+j] = s[j]
    /\ j > 1 => t[k+j-1] = s[j-1]
    /\ j < Len(s) => k + j < Len(t) /\ t[k+j+1] = s[j+1]
  <2>1. j > 1 => j - 1 \in 1 .. Len(s) /\ k + (j - 1) = k + j - 1
    OBVIOUS
  <2>2. j < Len(s) => j + 1 \in 1 .. Len(s) /\ k + (j + 1) = k + j + 1
    OBVIOUS
  <2>3. j > 1 => t[k + (j-1)] = s[j-1]
    BY <2>1 DEF Piece
  <2>4. j < Len(s) => t[k + (j+1)] = s[j+1] /\ k + Len(s) <= Len(t)
    BY <2>2 DEF Piece
  <2>5. k + j \in 1 .. Len(t) /\ t[k+j] = s[j]
    <3> Len(s) \in Nat /\ Len(t) \in Nat
      OBVIOUS
    <3> QED BY DEF Piece
  <2> QED BY <2>1, <2>2, <2>3, <2>4, <2>5
<1>1. SetsCont(s[j]) =>
        \E i \in 1 .. (k + j) - 1 : /\ SetsWidth(t[i]) /\ t[i].arg.qspi
                                    /\ \A m \in i + 1 .. (k + j) - 1 : t[m].do # "set"
  <2> SUFFICES ASSUME SetsCont(s[j])
               PROVE  \E i \in 1 .. (k + j) - 1 :
                        /\ SetsWidth(t[i]) /\ t[i].arg.qspi
                        /\ \A m \in i + 1 .. (k + j) - 1 : t[m].do # "set"
    OBVIOUS
  <2>1. PICK i \in 1 .. j - 1 : /\ SetsWidth(s[i]) /\ s[i].arg.qspi
                                /\ \A m \in i + 1 .. j - 1 : s[m].do # "set"
    BY DEF Placed
  <2>2. k + i \in 1 .. (k + j) - 1 /\ t[k+i] = s[i]
    <3> i \in 1 .. Len(s)
      OBVIOUS
    <3> QED BY DEF Piece
  <2>3. ASSUME NEW m \in (k + i) + 1 .. (k + j) - 1 PROVE t[m].do # "set"
    <3> m - k \in i + 1 .. j - 1 /\ m - k \in 1 .. Len(s) /\ k + (m - k) = m
      BY SMTT(30)
    <3> QED BY <2>1 DEF Piece
  <2> QED BY <2>1, <2>2, <2>3
<1> QED BY <1>1 DEF Placed

LEMMA ScriptConcat ==
  ASSUME NEW b, NEW lines, NEW s, NEW t, Script(b, lines, s), Script(b, lines, t)
  PROVE  /\ Script(b, lines, s \o t)
         /\ Len(s \o t) = Len(s) + Len(t) /\ Len(s) \in Nat /\ Len(t) \in Nat
<1> DEFINE S == Ops(b, lines)
<1> s \in Seq(S) /\ t \in Seq(S)
  BY DEF Script
<1> HIDE DEF S
<1>1. /\ s \o t \in Seq(S) /\ Len(s \o t) = Len(s) + Len(t)
      /\ Piece(s, s \o t, 0) /\ Piece(t, s \o t, Len(s))
  BY DEF Piece
<1>2. ASSUME NEW j \in 1 .. Len(s \o t) PROVE Placed(b, s \o t, j)
  <2>1. CASE j <= Len(s)
    <3> j \in 1 .. Len(s) /\ 0 + j = j
      BY <2>1
    <3>1. Placed(b, s, j)
      BY DEF Script
    <3>2. Placed(b, s \o t, 0 + j)
      BY <1>1, <3>1, PlacedInPiece
    <3> QED BY <3>2
  <2>2. CASE j > Len(s)
    <3> j - Len(s) \in 1 .. Len(t) /\ Len(s) \in Nat /\ Len(s) + (j - Len(s)) = j
      BY <1>1, <2>2
    <3>1. Placed(b, t, j - Len(s))
      BY DEF Script
    <3>2. Placed(b, s \o t, Len(s) + (j - Len(s)))
      BY <1>1, <3>1, PlacedInPiece
    <3> QED BY <3>2
  <2> QED BY <1>1, <2>1, <2>2
<1>3. Len(s) \in Nat /\ Len(t) \in Nat
  OBVIOUS
<1> QED BY <1>1, <1>2, <1>3 DEF Script, S

\* Quotient and rest of a division by L are unique.
LEMMA Division ==
  ASSUME NEW L \in Nat \ {0}, NEW p \in Int, NEW q \in Int,
         NEW r \in 0 .. L - 1, NEW s \in 0 .. L - 1, L * p + r = L * q + s
  PROVE  p = q /\ r = s
<1>1. ASSUME NEW x \in Int, NEW y \in Int, x < y PROVE L * x + L <= L * y
  <2>1. L * y = L * x + L * (y - x) /\ y - x - 1 \in Nat
    BY <1>1
  <2>2. L * (y - x) = L * (y - x - 1) + L /\ L * (y - x - 1) \in Nat
    BY <2>1
  <2> QED BY <2>1, <2>2
<1>2. L * p \in Int /\ L * q \in Int
  OBVIOUS
<1>3. ~(p < q) /\ ~(q < p)
  BY <1>1, <1>2
<1> QED BY <1>2, <1>3

LEMMA Quotient ==
  ASSUME NEW L \in Nat \ {0}, NEW k \in Int, NEW p \in Int, NEW r \in 0 .. L - 1,
         k = L * p + r
  PROVE  k \div L = p /\ k % L = r
<1>1. k \div L \in Int /\ k % L \in 0 .. L - 1 /\ k = L * (k \div L) + (k % L)
  OBVIOUS
<1> DEFINE q == k \div L
           s == k % L
<1>2. q \in Int /\ s \in 0 .. L - 1 /\ L * p + r = L * q + s
  BY <1>1
<1> HIDE DEF q, s
<1>3. p = q /\ r = s
  BY <1>2, Division
<1> QED BY <1>3 DEF q, s

\* Place j of round i, of n rounds of length L.
LEMMA PlaceOfRound ==
  ASSUME NEW n \in Nat, NEW L \in Nat \ {0}, NEW i \in 1 .. n, NEW j \in 1 .. L
  PROVE  /\ (i - 1) * L \in Nat /\ (i - 1) * L + L <= n * L
         /\ 1 + ((i - 1) * L + j - 1) \div L = i
         /\ 1 + (((i - 1) * L + j - 1) % L) = j
<1> DEFINE k == (i - 1) * L
<1>1. k \in Nat /\ k = L * (i - 1)
  <2>1. i - 1 \in Nat
    OBVIOUS
  <2> QED BY <2>1
<1>2. k + L <= n * L
  <2>1. n * L = i * L + (n - i) * L /\ n - i \in Nat /\ i * L = (i - 1) * L + L
    OBVIOUS
  <2>2. (n - i) * L \in Nat
    BY <2>1
  <2> QED BY <1>1, <2>1, <2>2
<1> HIDE DEF k
<1>3. k + j - 1 \in Int /\ i - 1 \in Int /\ j - 1 \in 0 .. L - 1 /\ k + j - 1 = L * (i - 1) + (j - 1)
  BY <1>1
<1>4. (k + j - 1) \div L = i - 1 /\ (k + j - 1) % L = j - 1
  BY <1>3, Quotient
<1>5. 1 + (k + j - 1) \div L = i /\ 1 + ((k + j - 1) % L) = j
  BY <1>4
<1> QED BY <1>1, <1>2, <1>5 DEF k

LEMMA RoundOfPlace ==
  ASSUME NEW n \in Nat, NEW L \in Nat \ {0}, NEW k \in 1 .. n * L
  PROVE  \E i \in 1 .. n, j \in 1 .. L : k = (i - 1) * L + j
<1>1. (k - 1) \div L \in Int /\ (k - 1) % L \in 0 .. L - 1 /\ k - 1 = L * ((k - 1) \div L) + ((k - 1) % L)
  OBVIOUS
<1> DEFINE q == (k - 1) \div L
           r == (k - 1) % L
<1>2. q \in Int /\ r \in 0 .. L - 1 /\ k - 1 = L * q + r
  BY <1>1
<1> HIDE DEF q, r
<1>3. n * L \in Nat /\ L * q \in Int /\ 0 <= L * q + r /\ L * q + r < n * L
  BY <1>2
<1>4. q >= 0
  <2> SUFFICES ASSUME q + 1 <= 0 PROVE FALSE
    BY <1>2
  <2>1. L * (-(q + 1)) \in Nat /\ L * (-(q + 1)) = -(L * q) - L
    BY <1>2
  <2> QED BY <1>2, <1>3, <2>1
<1>5. q < n
  <2> SUFFICES ASSUME q - n \in Nat PROVE FALSE
    BY <1>2
  <2>1. L * (q - n) \in Nat /\ L * (q - n) = L * q - n * L
    BY <1>2
  <2> QED BY <1>2, <1>3, <2>1
<1>6. q + 1 \in 1 .. n /\ r + 1 \in 1 .. L /\ k = ((q + 1) - 1) * L + (r + 1)
  BY <1>2, <1>4, <1>5
<1> QED BY <1>6
\* Rounds of the same length: round i is a piece, behind the rounds before it.
LEMMA RoundsPieces ==
  ASSUME NEW S, NEW n \in Nat \ {0}, NEW L \in Nat \ {0},
         NEW f \in [1 .. n -> Seq(S)], \A i \in 1 .. n : Len(f[i]) = L
  PROVE  /\ Rounds(f) \in Seq(S) /\ Len(Rounds(f)) = n * L
         /\ \A i \in 1 .. n : (i - 1) * L \in Nat /\ Piece(f[i], Rounds(f), (i - 1) * L)
<1> DEFINE m == n * L
           At(k) == f[1 + (k - 1) \div L][1 + ((k - 1) % L)]
<1>1. m \in Nat /\ Rounds(f) = [k \in 1 .. m |-> At(k)]
  <2>1. f \in Seq(Seq(S)) /\ Len(f) = n /\ Len(f[1]) = L /\ n * L \in Nat
    OBVIOUS
  <2> QED BY <2>1 DEF Rounds
<1>2. ASSUME NEW i \in 1 .. n, NEW j \in 1 .. L
      PROVE  At((i - 1) * L + j) = f[i][j] /\ f[i][j] \in S
  <2>1. (i - 1) * L \in Nat
    BY PlaceOfRound
  <2> DEFINE p == (i - 1) * L
  <2>2. 1 + (p + j - 1) \div L = i /\ 1 + ((p + j - 1) % L) = j
    BY PlaceOfRound, SMTT(30)
  <2>3. At(p + j) = f[1 + (p + j - 1) \div L][1 + ((p + j - 1) % L)]
    OBVIOUS
  <2> HIDE DEF p, At
  <2>4. f[i] \in Seq(S) /\ Len(f[i]) = L
    OBVIOUS
  <2>5. At(p + j) = f[i][j]
    BY <2>2, <2>3
  <2> QED BY <2>4, <2>5 DEF p
<1> HIDE DEF At
<1>3. \A k \in 1 .. m : At(k) \in S
  <2> SUFFICES ASSUME NEW k \in 1 .. m PROVE At(k) \in S
    OBVIOUS
  <2>1. PICK i \in 1 .. n, j \in 1 .. L : k = (i - 1) * L + j
    BY RoundOfPlace, ZenonT(30)
  <2> QED BY <1>2, <2>1
<1>4. Rounds(f) \in Seq(S) /\ Len(Rounds(f)) = m
  <2> HIDE DEF m
  <2> QED BY <1>1, <1>3
<1>5. ASSUME NEW i \in 1 .. n
      PROVE  (i - 1) * L \in Nat /\ Piece(f[i], Rounds(f), (i - 1) * L)
  <2> DEFINE p == (i - 1) * L
  <2>1. p \in Nat /\ p + L <= m
    BY PlaceOfRound
  <2>2. \A j \in 1 .. L : At(p + j) = f[i][j]
    BY <1>2
  <2> HIDE DEF p, m
  <2>3. \A j \in 1 .. L : Rounds(f)[p + j] = f[i][j]
    BY <1>1, <2>1, <2>2
  <2> QED BY <1>4, <2>1, <2>3 DEF Piece, p
<1> QED BY <1>4, <1>5 DEF m

LEMMA ScriptRounds ==
  ASSUME NEW b, NEW lines, NEW n \in Nat \ {0}, NEW L \in Nat \ {0}, NEW f,
         f = [i \in 1 .. n |-> f[i]],
         \A i \in 1 .. n : Script(b, lines, f[i]) /\ Len(f[i]) = L
  PROVE  Script(b, lines, Rounds(f)) /\ Len(Rounds(f)) = n * L
<1> DEFINE S == Ops(b, lines)
<1>1. f \in [1 .. n -> Seq(S)]
  BY DEF Script
<1> HIDE DEF S
<1>2. /\ Rounds(f) \in Seq(S) /\ Len(Rounds(f)) = n * L
      /\ \A i \in 1 .. n : (i - 1) * L \in Nat /\ Piece(f[i], Rounds(f), (i - 1) * L)
  BY <1>1, RoundsPieces
<1>3. ASSUME NEW k \in 1 .. n * L PROVE Placed(b, Rounds(f), k)
  <2>1. PICK i \in 1 .. n, j \in 1 .. L : k = (i - 1) * L + j
    BY RoundOfPlace
  <2> DEFINE p == (i - 1) * L
  <2>2. j \in 1 .. Len(f[i]) /\ Placed(b, f[i], j)
    BY DEF Script
  <2>3. f[i] \in Seq(S) /\ p \in Nat /\ Piece(f[i], Rounds(f), p)
    BY <1>1, <1>2
  <2> HIDE DEF p
  <2>4. Placed(b, Rounds(f), p + j)
    BY <1>2, <2>2, <2>3, PlacedInPiece
  <2> QED BY <2>1, <2>4 DEF p
<1> QED BY <1>2, <1>3 DEF Script, S

\* An operation that may stand anywhere.
Free(b, o) ==
  o.do \notin {"flashio", "passed"} /\ ~SetsLatency(b, o) /\ ~SetsCont(o)

LEMMA ScriptOne ==
  ASSUME NEW b, NEW lines, NEW o \in Ops(b, lines), Free(b, o)
  PROVE  Script(b, lines, <<o>>) /\ Len(<<o>>) = 1
<1> DEFINE S == Ops(b, lines)
<1> o \in S
  OBVIOUS
<1> HIDE DEF S
<1>1. <<o>> \in Seq(S) /\ Len(<<o>>) = 1 /\ <<o>>[1] = o
  OBVIOUS
<1>2. Placed(b, <<o>>, 1)
  BY <1>1 DEF Placed, Free, WritesLatency, ReadsAny, SetsCont
<1> QED BY <1>1, <1>2 DEF Script, S

\* The same script n times.
LEMMA ScriptRepeat ==
  ASSUME NEW b, NEW lines, NEW s, NEW n \in Nat \ {0}, Script(b, lines, s), Len(s) \in Nat \ {0}
  PROVE  Script(b, lines, Repeat(s, n)) /\ Len(Repeat(s, n)) = n * Len(s)
<1> DEFINE f == [i \in 1 .. n |-> s]
<1>1. f = [i \in 1 .. n |-> f[i]] /\ \A i \in 1 .. n : Script(b, lines, f[i]) /\ Len(f[i]) = Len(s)
  OBVIOUS
<1> HIDE DEF f
<1>2. Script(b, lines, Rounds(f)) /\ Len(Rounds(f)) = n * Len(s)
  BY <1>1, ScriptRounds
<1> QED BY <1>2 DEF Repeat, f

LEMMA Pieces ==
  ASSUME NEW b, NEW lines
  PROVE  /\ Script(b, lines, Show) /\ Len(Show) = 1
         /\ \A v \in 0 .. 99 \cup {128} : Script(b, lines, Dec(v)) /\ Len(Dec(v)) = 1
         /\ \A d \in {2, 8} : Script(b, lines, Hex(d)) /\ Len(Hex(d)) = 1
         /\ \A what \in {"latency", "enter", "prompt", "echo", "bytes"} :
              Script(b, lines, Op(what, "")) /\ Len(Op(what, "")) = 1
         /\ \A flag \in {"ddr", "qspi", "cont"} :
              Script(b, lines, Op("flag", flag)) /\ Len(Op("flag", flag)) = 1
<1> DEFINE Some(o) == o \in Plain /\ o.do # "passed"
<1>1. ASSUME NEW o, Some(o)
      PROVE  Script(b, lines, <<o>>) /\ Len(<<o>>) = 1
  <2>1. o \in Ops(b, lines) /\ Free(b, o)
    BY <1>1 DEF Plain, Ops, Free, SetsLatency, SetsCont
  <2> QED BY <2>1, ScriptOne
<1>2. Some([do |-> "show", arg |-> ""])
  BY DEF Plain
<1>3. \A v \in 0 .. 99 \cup {128} : Some([do |-> "dec", arg |-> v])
  BY DEF Plain
<1>4. \A d \in {2, 8} : Some([do |-> "hex", arg |-> d])
  BY DEF Plain
<1>5. \A what \in {"latency", "enter", "prompt", "echo", "bytes"} : Some([do |-> what, arg |-> ""])
  BY DEF Plain
<1>6. \A flag \in {"ddr", "qspi", "cont"} : Some([do |-> "flag", arg |-> flag])
  BY DEF Plain
<1> HIDE DEF Some
<1> QED BY <1>1, <1>2, <1>3, <1>4, <1>5, <1>6 DEF Show, Op, Dec, Hex

\* Modes: a width, with continuous reading or without.
LEMMA ScriptMode ==
  ASSUME NEW lines, NEW m \in Modes(lines)
  PROVE  Script("hx8k", lines, Set(m)) /\ Len(Set(m)) = 1
<1> DEFINE o == [do |-> "set", arg |-> m]
<1>1. o \in Ops("hx8k", lines)
  BY DEF Ops, Settings
<1>2. Free("hx8k", o)
  BY DEF Free, SetsLatency, SetsCont, Modes
<1>3. Script("hx8k", lines, <<o>>) /\ Len(<<o>>) = 1
  BY <1>1, <1>2, ScriptOne
<1> QED BY <1>3 DEF Set, Op

LEMMA ScriptIceMode ==
  ASSUME NEW lines, NEW ddr \in BOOLEAN, NEW qspi \in BOOLEAN
  PROVE  Script("ice", lines, set_flash_mode("ice", ddr, qspi))
         /\ Len(set_flash_mode("ice", ddr, qspi)) = 1
<1> DEFINE m == [ddr |-> ddr, qspi |-> qspi, cont |-> FALSE,
                 dummy |-> CASE ~qspi -> 0 [] qspi /\ ddr -> 7 [] OTHER -> 4]
           o == [do |-> "set", arg |-> m]
<1>1. m \in IceModes /\ (m.ddr /\ ~m.qspi => m.dummy = 0)
  BY DEF IceModes
<1>2. o \in Ops("ice", lines) /\ Free("ice", o)
  BY <1>1 DEF Ops, Settings, Free, SetsLatency, SetsCont
<1>3. Script("ice", lines, <<o>>) /\ Len(<<o>>) = 1
  BY <1>2, ScriptOne
<1>4. set_flash_mode("ice", ddr, qspi) = <<o>>
  BY DEF set_flash_mode, Set, Op
<1> QED BY <1>3, <1>4

\* The two writes that change the latency.
LEMMA ScriptLatency ==
  ASSUME NEW lines, NEW v \in 1 .. 15
  PROVE  Script("hx8k", lines, set_flash_latency(v)) /\ Len(set_flash_latency(v)) = 2
<1> DEFINE S == Ops("hx8k", lines)
           o == [do |-> "set",
                 arg |-> [ddr |-> FALSE, qspi |-> FALSE, cont |-> FALSE, dummy |-> v]]
           w == [do |-> "flashio",
                 arg |-> [kind |-> "write", n |-> 5, effect |-> [latency |-> v]]]
           s == set_flash_latency(v)
<1>1. s = <<o>> \o <<w>>
  <2> v % 16 = v
    OBVIOUS
  <2> QED BY DEF set_flash_latency, Set, flashio, Op
<1>2. o \in S /\ w \in S
  BY DEF Ops, Settings, Latencies, Writes
<1>3. /\ SetsLatency("hx8k", o) /\ o.arg.dummy = v /\ ~SetsCont(o) /\ o.do = "set"
      /\ WritesLatency(w) /\ w.arg.effect.latency = v /\ w.arg.kind = "write" /\ w.do = "flashio"
  BY DEF SetsLatency, SetsCont, WritesLatency
<1> HIDE DEF S, o, w, s
<1>4. s \in Seq(S) /\ Len(s) = 2 /\ s[1] = o /\ s[2] = w
  BY <1>1, <1>2
<1>5. Placed("hx8k", s, 1)
  BY <1>3, <1>4 DEF Placed, WritesLatency, ReadsAny
<1>6. Placed("hx8k", s, 2)
  BY <1>3, <1>4 DEF Placed, SetsLatency, ReadsAny, SetsCont
<1> QED BY <1>4, <1>5, <1>6 DEF Script, S, s

LEMMA ConcatEmpty ==
  ASSUME NEW S, NEW s \in Seq(S)
  PROVE  s \o <<>> = s
OBVIOUS

\* A benchmark of a setting: only the setting touches the flash.
LEMMA ScriptMeasured ==
  ASSUME NEW b, NEW lines, NEW s, Script(b, lines, s)
  PROVE  Script(b, lines, Measured(s)) /\ Len(Measured(s)) = 2 + Len(s) + LOOPS
<1>1. LOOPS \in Nat \ {0}
  BY CountAssumption
<1>2. Script(b, lines, Repeat(Show, LOOPS)) /\ Len(Repeat(Show, LOOPS)) = LOOPS
  <2>1. Script(b, lines, Show) /\ Len(Show) = 1
    BY Pieces
  <2>2. Len(Show) \in Nat \ {0}
    BY <2>1
  <2>3. Script(b, lines, Repeat(Show, LOOPS)) /\ Len(Repeat(Show, LOOPS)) = LOOPS * Len(Show)
    BY <1>1, <2>1, <2>2, ScriptRepeat, Zenon
  <2> QED BY <1>1, <2>1, <2>3
<1> DEFINE S == Ops(b, lines)
<1>3. Repeat(Show, LOOPS) \in Seq(S) /\ s \in Seq(S) /\ Show \in Seq(S) /\ Hex(8) \in Seq(S)
  BY <1>2, Pieces DEF Script
<1>4. cmd_benchmark(FALSE) = Repeat(Show, LOOPS)
  <2> HIDE DEF S
  <2>1. cmd_benchmark(FALSE) = Repeat(Show, LOOPS) \o <<>>
    BY DEF cmd_benchmark
  <2> QED BY <1>3, <2>1, ConcatEmpty
<1>5. Measured(s) = ((Show \o s) \o Repeat(Show, LOOPS)) \o Hex(8)
  BY <1>4 DEF Measured
<1>6. /\ Script(b, lines, Show) /\ Len(Show) = 1
      /\ Script(b, lines, Hex(8)) /\ Len(Hex(8)) = 1
  BY Pieces
<1>7. Script(b, lines, Show \o s) /\ Len(Show \o s) = 1 + Len(s) /\ Len(s) \in Nat
  <2>1. /\ Script(b, lines, Show \o s) /\ Len(Show \o s) = Len(Show) + Len(s)
        /\ Len(s) \in Nat
    <3>1. Script(b, lines, Show)
      BY <1>6
    <3>2. Script(b, lines, Show \o s)
      BY <3>1, ScriptConcat
    <3>3. Len(Show \o s) = Len(Show) + Len(s)
      BY <3>1, ScriptConcat
    <3>4. Len(s) \in Nat
      BY <3>1, ScriptConcat
    <3> QED BY <3>2, <3>3, <3>4
  <2> QED BY <1>6, <2>1
<1>8. /\ Script(b, lines, (Show \o s) \o Repeat(Show, LOOPS))
      /\ Len((Show \o s) \o Repeat(Show, LOOPS)) = 1 + Len(s) + LOOPS
  BY <1>2, <1>7, ScriptConcat
<1> DEFINE t == (Show \o s) \o Repeat(Show, LOOPS)
<1>9. Script(b, lines, t) /\ Len(t) = 1 + Len(s) + LOOPS /\ Measured(s) = t \o Hex(8)
  BY <1>5, <1>8
<1> HIDE DEF t
<1>10. Script(b, lines, t \o Hex(8)) /\ Len(t \o Hex(8)) = Len(t) + Len(Hex(8))
  BY <1>6, <1>9, ScriptConcat
<1> QED BY <1>1, <1>6, <1>7, <1>9, <1>10

-------------------------------------------------------------------------------
(* The programs: one by one *)

Long(b, lines, s) == Script(b, lines, s) /\ Len(s) \in Nat \ {0}

LEMMA LongConcat ==
  ASSUME NEW b, NEW lines, NEW s, NEW t, Long(b, lines, s), Long(b, lines, t)
  PROVE  Long(b, lines, s \o t)
<1>1. Script(b, lines, s) /\ Script(b, lines, t)
  BY DEF Long
<1>2. Script(b, lines, s \o t)
  BY <1>1, ScriptConcat
<1>3. Len(s \o t) = Len(s) + Len(t)
  BY <1>1, ScriptConcat
<1>4. Len(s) \in Nat \ {0} /\ Len(t) \in Nat \ {0}
  BY DEF Long
<1> QED BY <1>2, <1>3, <1>4 DEF Long

Sized(b, lines, s, n) == Script(b, lines, s) /\ Len(s) = n
LEMMA SizedConcat ==
  ASSUME NEW b, NEW lines, NEW s, NEW t, NEW m \in Nat, NEW n \in Nat,
         Sized(b, lines, s, m), Sized(b, lines, t, n)
  PROVE  Sized(b, lines, s \o t, m + n)
<1>1. Script(b, lines, s) /\ Script(b, lines, t)
  BY DEF Sized
<1>2. Len(s \o t) = Len(s) + Len(t)
  BY <1>1, ScriptConcat
<1>3. Script(b, lines, s \o t)
  BY <1>1, ScriptConcat
<1> QED BY <1>2, <1>3 DEF Sized

\* u is s followed by t.
Joined(u, s, t) ==
  /\ Len(u) = Len(s) + Len(t)
  /\ \A j \in 1 .. Len(s) : u[j] = s[j]
  /\ \A j \in 1 .. Len(t) : u[Len(s) + j] = t[j]
LEMMA ConcatPlaces ==
  ASSUME NEW S, NEW s \in Seq(S), NEW t \in Seq(S)
  PROVE  s \o t \in Seq(S) /\ Joined(s \o t, s, t)
BY DEF Joined

LEMMA LongPieces ==
  ASSUME NEW b, NEW lines
  PROVE  /\ Long(b, lines, Show)
         /\ \A v \in 0 .. 99 \cup {128} : Long(b, lines, Dec(v))
         /\ \A d \in {2, 8} : Long(b, lines, Hex(d))
         /\ \A what \in {"latency", "enter", "prompt", "echo", "bytes"} :
              Long(b, lines, Op(what, ""))
         /\ \A flag \in {"ddr", "qspi", "cont"} : Long(b, lines, Op("flag", flag))
<1>1. \A s : Script(b, lines, s) /\ Len(s) = 1 => Long(b, lines, s)
  BY DEF Long
<1> QED BY <1>1, Pieces, Zenon

LEMMA LongRepeat ==
  ASSUME NEW b, NEW lines, NEW s, NEW n \in Nat \ {0}, Long(b, lines, s)
  PROVE  Long(b, lines, Repeat(s, n))
<1>1. Script(b, lines, s) /\ Len(s) \in Nat \ {0}
  BY DEF Long
<1>2. Script(b, lines, Repeat(s, n)) /\ Len(Repeat(s, n)) = n * Len(s)
  BY <1>1, ScriptRepeat
<1>3. n * Len(s) \in Nat \ {0}
  BY <1>1
<1> QED BY <1>2, <1>3 DEF Long

LEMMA LongMeasured ==
  ASSUME NEW b, NEW lines, NEW s, Long(b, lines, s)
  PROVE  Long(b, lines, Measured(s)) /\ Len(Measured(s)) = 2 + Len(s) + LOOPS
<1>1. Script(b, lines, s) /\ Len(s) \in Nat \ {0} /\ LOOPS \in Nat
  BY CountAssumption DEF Long
<1>2. Script(b, lines, Measured(s)) /\ Len(Measured(s)) = 2 + Len(s) + LOOPS
  BY <1>1, ScriptMeasured
<1> QED BY <1>1, <1>2 DEF Long

\* The benchmark of the larger board, at each latency.
LEMMA LongAtEachLatency ==
  ASSUME NEW m \in Modes("two")
  PROVE  Long("hx8k", "two", AtEachLatency(m))
<1> DEFINE b == "hx8k"
           s(v) == set_flash_latency(v) \o Set(m)
           g(v) == Dec(v) \o Measured(s(v))
           f == [i \in 1 .. LATENCY |-> g(LATENCY + 1 - i)]
<1>1. ASSUME NEW v \in 1 .. 15
      PROVE  Script(b, "two", g(v)) /\ Len(g(v)) = 6 + LOOPS
  <2>1. Script(b, "two", set_flash_latency(v)) /\ Len(set_flash_latency(v)) = 2
    BY ScriptLatency
  <2>2. Script(b, "two", Set(m)) /\ Len(Set(m)) = 1
    BY ScriptMode
  <2>3. Script(b, "two", s(v))
    BY <2>1, <2>2, ScriptConcat
  <2>4. Len(s(v)) = 2 + 1
    <3>1. Sized(b, "two", set_flash_latency(v), 2) /\ Sized(b, "two", Set(m), 1)
      BY <2>1, <2>2 DEF Sized
    <3>2. Sized(b, "two", s(v), 2 + 1)
      BY <3>1, SizedConcat
    <3> HIDE DEF s
    <3> QED BY <3>2 DEF Sized
  <2>5. Long(b, "two", s(v))
    BY <2>3, <2>4 DEF Long
  <2> HIDE DEF s
  <2>6. Long(b, "two", Measured(s(v))) /\ Len(Measured(s(v))) = 5 + LOOPS
    <3>1. Long(b, "two", Measured(s(v))) /\ Len(Measured(s(v))) = 2 + Len(s(v)) + LOOPS
      BY <2>5, LongMeasured
    <3> QED BY <2>4, <3>1, CountAssumption
  <2>7. Script(b, "two", Dec(v)) /\ Len(Dec(v)) = 1
    <3>1. v \in 0 .. 99 \cup {128}
      OBVIOUS
    <3> QED BY <3>1, Pieces
  <2>8. Script(b, "two", Measured(s(v)))
    BY <2>6 DEF Long
  <2>9. Script(b, "two", Dec(v) \o Measured(s(v)))
    BY <2>7, <2>8, ScriptConcat
  <2>11. Len(g(v)) = 6 + LOOPS
    <3> DEFINE n == 5 + LOOPS
    <3>1. Sized(b, "two", Dec(v), 1) /\ Sized(b, "two", Measured(s(v)), n)
      BY <2>6, <2>7, <2>8 DEF Sized
    <3>2. n \in Nat /\ 1 + n = 6 + LOOPS
      BY CountAssumption
    <3> HIDE DEF n
    <3>3. Sized(b, "two", g(v), 1 + n)
      BY <3>1, <3>2, SizedConcat
    <3> HIDE DEF g
    <3> QED BY <3>2, <3>3 DEF Sized
  <2> QED BY <2>9, <2>11
<1>2. AtEachLatency(m) = Rounds(f)
  BY DEF AtEachLatency, Down
<1> HIDE DEF g
<1>3. f = [i \in 1 .. LATENCY |-> f[i]]
  OBVIOUS
<1>4. \A i \in 1 .. LATENCY : Script(b, "two", f[i]) /\ Len(f[i]) = 6 + LOOPS
  <2>1. \A i \in 1 .. LATENCY : LATENCY + 1 - i \in 1 .. 15
    BY CountAssumption
  <2> QED BY <1>1, <2>1
<1> HIDE DEF f
<1>5. LATENCY \in Nat \ {0} /\ 6 + LOOPS \in Nat \ {0}
  BY CountAssumption
<1>6. Script(b, "two", Rounds(f)) /\ Len(Rounds(f)) = LATENCY * (6 + LOOPS)
  <2> DEFINE L == 6 + LOOPS
             n == LATENCY
  <2>1. /\ n \in Nat \ {0} /\ L \in Nat \ {0} /\ f = [i \in 1 .. n |-> f[i]]
        /\ \A i \in 1 .. n : Script(b, "two", f[i]) /\ Len(f[i]) = L
    BY <1>3, <1>4, <1>5
  <2> HIDE DEF L, n
  <2>2. Script(b, "two", Rounds(f)) /\ Len(Rounds(f)) = n * L
    BY <2>1, ScriptRounds
  <2> QED BY <2>2 DEF L, n
<1>7. LATENCY * (6 + LOOPS) \in Nat \ {0}
  BY <1>5
<1> QED BY <1>2, <1>6, <1>7 DEF Long

LEMMA LongHx8kBenchmark == Long("hx8k", "two", cmd_benchmark_all_hx8k)
<1> DEFINE b == "hx8k"
           a0 == Measured(Set(Mode(FALSE, FALSE, FALSE)))
           a1 == AtEachLatency(Mode(TRUE, FALSE, FALSE))
           a2 == AtEachLatency(Mode(TRUE, FALSE, TRUE))
           a3 == AtEachLatency(Mode(FALSE, TRUE, FALSE))
           a4 == AtEachLatency(Mode(FALSE, TRUE, TRUE))
           a5 == AtEachLatency(Mode(TRUE, TRUE, FALSE))
           a6 == AtEachLatency(Mode(TRUE, TRUE, TRUE))
<1>1. \A ddr, qspi, cont \in BOOLEAN : (cont => ddr \/ qspi) => Mode(ddr, qspi, cont) \in Modes("two")
  BY DEF Mode, Modes
<1>2. Long(b, "two", a0)
  <2>1. Mode(FALSE, FALSE, FALSE) \in Modes("two")
    BY <1>1
  <2>2. Script(b, "two", Set(Mode(FALSE, FALSE, FALSE))) /\ Len(Set(Mode(FALSE, FALSE, FALSE))) = 1
    BY <2>1, ScriptMode
  <2> DEFINE s == Set(Mode(FALSE, FALSE, FALSE))
  <2>3. Script(b, "two", s) /\ Len(s) = 1
    BY <2>2
  <2> HIDE DEF s
  <2>4. Long(b, "two", s)
    BY <2>3 DEF Long
  <2>5. Long(b, "two", Measured(s))
    BY <2>4, LongMeasured
  <2> QED BY <2>5 DEF s
<1>3. Long(b, "two", a1)
  BY <1>1, LongAtEachLatency
<1>4. Long(b, "two", a2)
  BY <1>1, LongAtEachLatency
<1>5. Long(b, "two", a3)
  BY <1>1, LongAtEachLatency
<1>6. Long(b, "two", a4)
  BY <1>1, LongAtEachLatency
<1>7. Long(b, "two", a5)
  BY <1>1, LongAtEachLatency
<1>8. Long(b, "two", a6)
  BY <1>1, LongAtEachLatency
<1>9. Long(b, "two", Hex(8))
  BY LongPieces
<1>10. cmd_benchmark_all_hx8k = a0 \o a1 \o a2 \o a3 \o a4 \o a5 \o a6 \o Hex(8)
  BY DEF cmd_benchmark_all_hx8k
<1> HIDE DEF a0, a1, a2, a3, a4, a5, a6
<1>11. Long(b, "two", a0 \o a1)
  BY <1>2, <1>3, LongConcat
<1>12. Long(b, "two", a0 \o a1 \o a2)
  BY <1>11, <1>4, LongConcat
<1>13. Long(b, "two", a0 \o a1 \o a2 \o a3)
  BY <1>12, <1>5, LongConcat
<1>14. Long(b, "two", a0 \o a1 \o a2 \o a3 \o a4)
  BY <1>13, <1>6, LongConcat
<1>15. Long(b, "two", a0 \o a1 \o a2 \o a3 \o a4 \o a5)
  BY <1>14, <1>7, LongConcat
<1>16. Long(b, "two", a0 \o a1 \o a2 \o a3 \o a4 \o a5 \o a6)
  BY <1>15, <1>8, LongConcat
<1>17. Long(b, "two", a0 \o a1 \o a2 \o a3 \o a4 \o a5 \o a6 \o Hex(8))
  BY <1>16, <1>9, LongConcat
<1> QED BY <1>10, <1>17

\* Around the setting that a benchmark measures there is nothing but printing.
ShowOp == [do |-> "show", arg |-> ""]
LEMMA AroundSetting ==
  ASSUME NEW S, NEW o \in S, ShowOp \in S, [do |-> "hex", arg |-> 8] \in S
  PROVE  LET t == Measured(<<o>>)
         IN  /\ t \in Seq(S) /\ Len(t) = 3 + LOOPS /\ t[2] = o
             /\ \A j \in 1 .. 3 + LOOPS : j # 2 => t[j] \in {ShowOp, [do |-> "hex", arg |-> 8]}
<1> DEFINE h == [do |-> "hex", arg |-> 8]
           f == [i \in 1 .. LOOPS |-> <<ShowOp>>]
           r == Repeat(Show, LOOPS)
<1>0. LOOPS \in Nat \ {0}
  BY CountAssumption
<1>1. r = Rounds(f)
  BY DEF Repeat, Show, Op, ShowOp
<1>2. f \in [1 .. LOOPS -> Seq({ShowOp})] /\ \A i \in 1 .. LOOPS : Len(f[i]) = 1
  OBVIOUS
<1> HIDE DEF f
<1>3. Rounds(f) \in Seq({ShowOp}) /\ Len(Rounds(f)) = LOOPS * 1
  <2> DEFINE T == {ShowOp}
             L == 1
  <2>1. L \in Nat \ {0} /\ f \in [1 .. LOOPS -> Seq(T)] /\ \A i \in 1 .. LOOPS : Len(f[i]) = L
    BY <1>2
  <2> HIDE DEF T, L
  <2>2. Rounds(f) \in Seq(T) /\ Len(Rounds(f)) = LOOPS * L
    BY <1>0, <2>1, RoundsPieces
  <2> QED BY <2>2 DEF T, L
<1>4. r \in Seq({ShowOp}) /\ Len(r) = LOOPS /\ \A j \in 1 .. LOOPS : r[j] = ShowOp
  <2>1. LOOPS * 1 = LOOPS
    BY <1>0
  <2>2. r \in Seq({ShowOp}) /\ Len(r) = LOOPS
    BY <1>1, <1>3, <2>1
  <2> HIDE DEF r
  <2> QED BY <2>2
<1>5. Measured(<<o>>) = ((<<ShowOp>> \o <<o>>) \o (r \o <<>>)) \o <<h>>
  BY DEF Measured, cmd_benchmark, Show, Op, Hex, ShowOp
<1> HIDE DEF r, h
<1>6. r \o <<>> = r
  BY <1>4, ConcatEmpty
<1> DEFINE t == ((<<ShowOp>> \o <<o>>) \o r) \o <<h>>
<1>7. h \in S /\ ShowOp \in S /\ r \in Seq(S)
  <2>1. h \in S
    BY DEF h
  <2> HIDE DEF ShowOp
  <2> QED BY <1>4, <2>1
<1>8. t \in Seq(S) /\ Len(t) = 3 + LOOPS /\ t[2] = o
      /\ \A j \in 1 .. 3 + LOOPS : j # 2 => t[j] \in {ShowOp, h}
  <2> HIDE DEF ShowOp
  <2> DEFINE p == <<ShowOp>> \o <<o>>
             u == p \o r
  <2>1. p \in Seq(S) /\ Len(p) = 2 /\ p[1] = ShowOp /\ p[2] = o
    BY <1>7
  <2> HIDE DEF p
  <2>2. u \in Seq(S) /\ Len(u) = 2 + LOOPS /\ u[1] = ShowOp /\ u[2] = o
        /\ \A j \in 3 .. 2 + LOOPS : u[j] = ShowOp
    <3>a. u \in Seq(S)
      BY <1>7, <2>1, ConcatPlaces
    <3>b. Joined(u, p, r)
      BY <1>7, <2>1, ConcatPlaces
    <3> HIDE DEF u
    <3>0. /\ u \in Seq(S) /\ Len(u) = Len(p) + Len(r)
          /\ \A j \in 1 .. Len(p) : u[j] = p[j]
          /\ \A j \in 1 .. Len(r) : u[Len(p) + j] = r[j]
      BY <3>a, <3>b DEF Joined
    <3>1. u \in Seq(S) /\ Len(u) = 2 + LOOPS
      BY <1>4, <2>1, <3>0
    <3>2. u[1] = ShowOp /\ u[2] = o
      <4> 1 \in 1 .. Len(p) /\ 2 \in 1 .. Len(p)
        BY <2>1
      <4> QED BY <2>1, <3>0
    <3>3. \A j \in 3 .. 2 + LOOPS : u[j] = r[j - 2] /\ j - 2 \in 1 .. LOOPS
      <4> SUFFICES ASSUME NEW j \in 3 .. 2 + LOOPS
                   PROVE  u[j] = r[j - 2] /\ j - 2 \in 1 .. LOOPS
        OBVIOUS
      <4> j - 2 \in 1 .. Len(r) /\ Len(p) + (j - 2) = j
        BY <1>0, <1>4, <2>1
      <4> QED BY <1>4, <3>0
    <3> QED BY <1>4, <3>1, <3>2, <3>3
  <2>3. t = u \o <<h>>
    BY DEF p
  <2> HIDE DEF u, t
  <2> QED BY <1>0, <1>7, <2>2, <2>3
<1> QED BY <1>5, <1>6, <1>8 DEF h

\* Continuous reading on its own follows a width of four lines.
LEMMA LongQuadThenContinuous ==
  ASSUME NEW ddr \in BOOLEAN
  PROVE  Long("ice", "four", Measured(set_flash_mode("ice", ddr, TRUE)) \o Measured(enable_flash_crm))
<1> DEFINE b == "ice"
           c == [do |-> "set", arg |-> [cont |-> TRUE]]
           o == [do |-> "set", arg |-> [ddr |-> ddr, qspi |-> TRUE, cont |-> FALSE,
                                        dummy |-> IF ddr THEN 7 ELSE 4]]
           h == [do |-> "hex", arg |-> 8]
           S == Ops(b, "four")
           q == Measured(<<o>>)
           r == Measured(<<c>>)
           t == q \o r
<1>0. LOOPS \in Nat \ {0}
  BY CountAssumption
<1>1. set_flash_mode(b, ddr, TRUE) = <<o>> /\ SetsWidth(o) /\ o.arg.qspi
  BY DEF set_flash_mode, Set, Op, SetsWidth
<1>2. /\ c \in S /\ enable_flash_crm = <<c>> /\ c.do = "set"
      /\ ~SetsLatency(b, c) /\ ~SetsWidth(c)
  BY DEF Ops, Settings, enable_flash_crm, Set, Op, SetsLatency, SetsWidth
<1>3. o \in S
  BY DEF Ops, Settings, IceModes
<1>4. ShowOp \in S /\ h \in S
  BY DEF Ops, Plain, ShowOp
<1>5. \A e \in {ShowOp, h} : Free(b, e) /\ e.do # "set"
  <2>1. ShowOp.do = "show" /\ h.do = "hex"
    BY DEF ShowOp
  <2> HIDE DEF h
  <2> QED BY <2>1 DEF Free, SetsLatency, SetsCont
<1> HIDE DEF S
<1>6. /\ q \in Seq(S) /\ Len(q) = 3 + LOOPS /\ q[2] = o
      /\ \A j \in 1 .. 3 + LOOPS : j # 2 => q[j] \in {ShowOp, h}
  BY <1>3, <1>4, AroundSetting
<1>7. /\ r \in Seq(S) /\ Len(r) = 3 + LOOPS /\ r[2] = c
      /\ \A j \in 1 .. 3 + LOOPS : j # 2 => r[j] \in {ShowOp, h}
  BY <1>2, <1>4, AroundSetting
<1>8. Free(b, o)
  <2>1. o.do = "set" /\ DOMAIN o.arg = {"ddr", "qspi", "cont", "dummy"}
    OBVIOUS
  <2> HIDE DEF o
  <2> QED BY <2>1 DEF Free, SetsLatency, SetsCont
<1> HIDE DEF q, r, o, h, c
<1>9. /\ t \in Seq(S) /\ Len(t) = 6 + 2 * LOOPS
      /\ t[2] = o /\ \A j \in 1 .. 3 + LOOPS : j # 2 => t[j] \in {ShowOp, h}
      /\ t[5 + LOOPS] = c
      /\ \A j \in 4 + LOOPS .. 6 + 2 * LOOPS : j # 5 + LOOPS => t[j] \in {ShowOp, h}
  <2>1. t \in Seq(S) /\ Len(t) = 6 + 2 * LOOPS
    BY <1>0, <1>6, <1>7
  <2>2. \A j \in 1 .. 3 + LOOPS : t[j] = q[j]
    BY <1>0, <1>6, <1>7
  <2>3. \A j \in 4 + LOOPS .. 6 + 2 * LOOPS : t[j] = r[j - (3 + LOOPS)] /\ j - (3 + LOOPS) \in 1 .. 3 + LOOPS
    BY <1>0, <1>6, <1>7
  <2>4. t[2] = o
    BY <1>0, <1>6, <2>2
  <2>5. \A j \in 1 .. 3 + LOOPS : j # 2 => t[j] \in {ShowOp, h}
    BY <1>0, <1>6, <2>2
  <2>6. t[5 + LOOPS] = c
    <3> 5 + LOOPS \in 4 + LOOPS .. 6 + 2 * LOOPS /\ (5 + LOOPS) - (3 + LOOPS) = 2
      BY <1>0
    <3> QED BY <1>7, <2>3
  <2>7. \A j \in 4 + LOOPS .. 6 + 2 * LOOPS : j # 5 + LOOPS => t[j] \in {ShowOp, h}
    <3> SUFFICES ASSUME NEW j \in 4 + LOOPS .. 6 + 2 * LOOPS, j # 5 + LOOPS PROVE t[j] \in {ShowOp, h}
      OBVIOUS
    <3> j - (3 + LOOPS) # 2
      BY <1>0
    <3> QED BY <1>7, <2>3
  <2> QED BY <2>1, <2>4, <2>5, <2>6, <2>7
<1> HIDE DEF t
<1>10. \A j \in 1 .. Len(t) : Free(b, t[j]) => Placed(b, t, j)
  BY DEF Free, Placed, WritesLatency, ReadsAny
<1>11. Placed(b, t, 5 + LOOPS)
  <2> DEFINE j == 5 + LOOPS
  <2>1. 2 \in 1 .. j - 1 /\ SetsWidth(t[2]) /\ t[2].arg.qspi
    BY <1>0, <1>1, <1>9
  <2>2. \A m \in 2 + 1 .. j - 1 : t[m].do # "set"
    <3> SUFFICES ASSUME NEW m \in 2 + 1 .. j - 1 PROVE t[m].do # "set"
      OBVIOUS
    <3>1. t[m] \in {ShowOp, h}
      BY <1>0, <1>9
    <3> QED BY <1>5, <3>1
  <2>3. t[j] = c
    BY <1>9
  <2> HIDE DEF j
  <2>4. Placed(b, t, j)
    BY <1>2, <2>1, <2>2, <2>3 DEF Placed, WritesLatency, ReadsAny
  <2> QED BY <2>4 DEF j
<1>12. \A j \in 1 .. Len(t) : Placed(b, t, j)
  <2> SUFFICES ASSUME NEW j \in 1 .. Len(t) PROVE Placed(b, t, j)
    OBVIOUS
  <2>1. j = 5 + LOOPS \/ t[j] \in {o, ShowOp, h}
    BY <1>0, <1>9
  <2> QED BY <1>5, <1>8, <1>10, <1>11, <2>1
<1>13. Len(t) \in Nat \ {0}
  BY <1>0, <1>9
<1>14. Script(b, "four", t)
  BY <1>9, <1>12 DEF Script, S
<1> QED BY <1>1, <1>2, <1>13, <1>14 DEF Long, t, q, r

LEMMA ConcatConcat ==
  \A S : \A x, y, z \in Seq(S) : (x \o y) \o z = x \o (y \o z)
<1> SUFFICES ASSUME NEW S, NEW x \in Seq(S), NEW y \in Seq(S), NEW z \in Seq(S)
             PROVE  (x \o y) \o z = x \o (y \o z)
  OBVIOUS
<1> QED BY SMTT(30)

LEMMA LongIceBenchmark == Long("ice", "four", cmd_benchmark_all_ice)
<1> DEFINE b == "ice"
           a1 == Measured(set_flash_mode_spi(b))
           a2 == Measured(set_flash_mode_dual(b))
           a3 == Measured(set_flash_mode_quad(b))
           a4 == Measured(enable_flash_crm)
           a5 == Measured(set_flash_mode_qddr(b))
<1>1. ASSUME NEW ddr \in BOOLEAN, NEW qspi \in BOOLEAN
      PROVE  Long(b, "four", Measured(set_flash_mode(b, ddr, qspi)))
  <2>1. /\ Script(b, "four", set_flash_mode(b, ddr, qspi))
        /\ Len(set_flash_mode(b, ddr, qspi)) = 1
    BY ScriptIceMode
  <2>2. Long(b, "four", set_flash_mode(b, ddr, qspi))
    <3>1. \A s : Script(b, "four", s) /\ Len(s) = 1 => Long(b, "four", s)
      BY DEF Long
    <3> QED BY <2>1, <3>1, Zenon
  <2> QED BY <2>2, LongMeasured
<1>2. Long(b, "four", a1)
  BY <1>1 DEF set_flash_mode_spi
<1>3. Long(b, "four", a2)
  BY <1>1 DEF set_flash_mode_dual
<1>4. Long(b, "four", a3 \o a4)
  BY LongQuadThenContinuous DEF set_flash_mode_quad
<1>5. Long(b, "four", a5 \o a4)
  BY LongQuadThenContinuous DEF set_flash_mode_qddr
<1>6. Long(b, "four", a3) /\ Long(b, "four", a5)
  BY <1>1 DEF set_flash_mode_quad, set_flash_mode_qddr
<1>7. cmd_benchmark_all_ice = a1 \o a2 \o a3 \o a4 \o a5 \o a4
  BY DEF cmd_benchmark_all_ice
<1>8. a4 \in Seq(Ops(b, "four"))
  <2> DEFINE c == [do |-> "set", arg |-> [cont |-> TRUE]]
  <2>1. enable_flash_crm = <<c>>
    BY DEF enable_flash_crm, Set, Op
  <2>2. c \in Ops(b, "four") /\ ShowOp \in Ops(b, "four") /\ [do |-> "hex", arg |-> 8] \in Ops(b, "four")
    BY DEF Ops, Settings, Plain, ShowOp
  <2> HIDE DEF c
  <2> QED BY <2>1, <2>2, AroundSetting
<1> HIDE DEF a1, a2, a3, a4, a5
<1>9. a1 \o a2 \o a3 \o a4 \o a5 \o a4 = ((a1 \o a2) \o (a3 \o a4)) \o (a5 \o a4)
  <2> DEFINE S == Ops(b, "four")
  <2>1. a1 \in Seq(S) /\ a2 \in Seq(S) /\ a3 \in Seq(S) /\ a4 \in Seq(S) /\ a5 \in Seq(S)
    BY <1>2, <1>3, <1>6, <1>8 DEF Long, Script
  <2> HIDE DEF S
  <2>3. a1 \o a2 \in Seq(S) /\ (a1 \o a2) \o (a3 \o a4) \in Seq(S)
    BY <2>1
  <2>2. \A x, y, z \in Seq(S) : (x \o y) \o z = x \o (y \o z)
    BY ConcatConcat, SMTT(30)
  <2>4. ((a1 \o a2) \o a3) \o a4 = (a1 \o a2) \o (a3 \o a4)
    <3> DEFINE x == a1 \o a2
    <3>1. x \in Seq(S)
      BY <2>3
    <3> HIDE DEF x
    <3>2. (x \o a3) \o a4 = x \o (a3 \o a4)
      BY <2>1, <2>2, <3>1, Zenon
    <3> QED BY <3>2 DEF x
  <2>5. (((a1 \o a2) \o (a3 \o a4)) \o a5) \o a4 = ((a1 \o a2) \o (a3 \o a4)) \o (a5 \o a4)
    <3> DEFINE x == (a1 \o a2) \o (a3 \o a4)
    <3>1. x \in Seq(S)
      BY <2>3
    <3> HIDE DEF x
    <3>2. (x \o a5) \o a4 = x \o (a5 \o a4)
      BY <2>1, <2>2, <3>1, Zenon
    <3> QED BY <3>2 DEF x
  <2> QED BY <2>4, <2>5
<1>10. Long(b, "four", a1 \o a2)
  BY <1>2, <1>3, LongConcat
<1>11. Long(b, "four", (a1 \o a2) \o (a3 \o a4))
  BY <1>4, <1>10, LongConcat
<1>12. Long(b, "four", ((a1 \o a2) \o (a3 \o a4)) \o (a5 \o a4))
  BY <1>5, <1>11, LongConcat
<1> QED BY <1>7, <1>9, <1>12

\* The memory test reports success only after its last part.
LEMMA ScriptThenPassed ==
  ASSUME NEW b, NEW lines, NEW s, Long(b, lines, s), s[Len(s)].do = "bytes"
  PROVE  Long(b, lines, s \o Op("passed", ""))
<1> DEFINE S == Ops(b, lines)
           o == [do |-> "passed", arg |-> ""]
           t == s \o <<o>>
<1>0. o \in S
  BY DEF Ops, Plain
<1>1. o.do = "passed" /\ Op("passed", "") = <<o>>
  BY DEF Op
<1>2. s \in Seq(S) /\ Len(s) \in Nat \ {0} /\ \A j \in 1 .. Len(s) : Placed(b, s, j)
  BY DEF Long, Script
<1> HIDE DEF S, o
<1>3. t \in Seq(S)
  BY <1>0, <1>2
<1>4. Joined(t, s, <<o>>)
  <2>1. <<o>> \in Seq(S)
    BY <1>0
  <2> QED BY <1>2, <2>1, ConcatPlaces
<1> HIDE DEF t
<1>5. Len(t) = Len(s) + 1 /\ (\A j \in 1 .. Len(s) : t[j] = s[j]) /\ t[Len(s) + 1] = o
  BY <1>2, <1>4 DEF Joined
<1>6. Piece(s, t, 0)
  BY <1>2, <1>5 DEF Piece
<1>7. \A j \in 1 .. Len(s) : Placed(b, t, j)
  <2> SUFFICES ASSUME NEW j \in 1 .. Len(s) PROVE Placed(b, t, j)
    OBVIOUS
  <2>1. Placed(b, s, j) /\ 0 + j = j
    BY <1>2
  <2>2. Placed(b, t, 0 + j)
    BY <1>2, <1>3, <1>6, <2>1, PlacedInPiece
  <2> QED BY <2>1, <2>2
<1>8. Placed(b, t, Len(s) + 1)
  <2> DEFINE j == Len(s) + 1
  <2>0. j > 1 /\ j - 1 = Len(s) /\ t[j] = o
    BY <1>2, <1>5
  <2>1. j > 1 /\ t[j].do = "passed" /\ t[j-1].do = "bytes"
    <3>1. Len(s) \in 1 .. Len(s) /\ t[Len(s)] = s[Len(s)]
      BY <1>2, <1>5
    <3> QED BY <1>1, <2>0, <3>1
  <2> HIDE DEF j
  <2>2. Placed(b, t, j)
    BY <2>1 DEF Placed, WritesLatency, SetsLatency, ReadsAny, SetsCont
  <2> QED BY <2>2 DEF j
<1>9. \A j \in 1 .. Len(t) : j \in 1 .. Len(s) \/ j = Len(s) + 1
  BY <1>2, <1>5
<1>10. Script(b, lines, t)
  BY <1>3, <1>7, <1>8, <1>9 DEF Script, S
<1>11. Len(t) \in Nat \ {0}
  BY <1>2, <1>5
<1> QED BY <1>1, <1>10, <1>11 DEF Long, t

LEMMA LongMemtest ==
  ASSUME NEW b, NEW lines
  PROVE  Long(b, lines, cmd_memtest)
<1> DEFINE f == [i \in 1 .. CYC_COUNT |-> Op("words", i)]
           x == Show \o Rounds(f)
           s == x \o Op("bytes", "")
<1>1. \A i \in 1 .. CYC_COUNT : Script(b, lines, f[i]) /\ Len(f[i]) = 1
  <2> SUFFICES ASSUME NEW i \in 1 .. CYC_COUNT
               PROVE  Script(b, lines, Op("words", i)) /\ Len(Op("words", i)) = 1
    OBVIOUS
  <2> DEFINE o == [do |-> "words", arg |-> i]
  <2>1. o \in Ops(b, lines) /\ Free(b, o)
    BY CountAssumption DEF Ops, Plain, Free, SetsLatency, SetsCont
  <2>2. Script(b, lines, <<o>>) /\ Len(<<o>>) = 1
    BY <2>1, ScriptOne
  <2> QED BY <2>2 DEF Op
<1>2. f = [i \in 1 .. CYC_COUNT |-> f[i]]
  OBVIOUS
<1>3. Long(b, lines, Rounds(f))
  <2> DEFINE L == 1
  <2>1. CYC_COUNT \in Nat \ {0} /\ L \in Nat \ {0}
    BY CountAssumption
  <2>2. \A i \in 1 .. CYC_COUNT : Script(b, lines, f[i]) /\ Len(f[i]) = L
    BY <1>1
  <2> HIDE DEF f, L
  <2>3. Script(b, lines, Rounds(f)) /\ Len(Rounds(f)) = CYC_COUNT * L
    BY <1>2, <2>1, <2>2, ScriptRounds
  <2>4. CYC_COUNT * L \in Nat \ {0}
    BY <2>1
  <2> QED BY <2>3, <2>4 DEF Long
<1> HIDE DEF f
<1>4. Long(b, lines, x)
  BY <1>3, LongPieces, LongConcat
<1>5. Long(b, lines, s)
  BY <1>4, LongPieces, LongConcat
<1>6. s[Len(s)].do = "bytes"
  <2> DEFINE o == [do |-> "bytes", arg |-> ""]
             S == Ops(b, lines)
  <2>0. o \in S
    BY DEF Ops, Plain
  <2>1. Op("bytes", "") = <<o>>
    BY DEF Op
  <2>2. x \in Seq(S)
    BY <1>4 DEF Long, Script
  <2> HIDE DEF x, S, o
  <2>3. Joined(x \o <<o>>, x, <<o>>)
    <3>1. <<o>> \in Seq(S)
      BY <2>0
    <3> QED BY <2>2, <3>1, ConcatPlaces
  <2>4. s = x \o <<o>>
    BY <2>1
  <2> HIDE DEF s
  <2>5. Joined(s, x, <<o>>)
    BY <2>3, <2>4
  <2>6. Len(s) = Len(x) + 1 /\ s[Len(x) + 1] = o /\ Len(x) \in Nat
    BY <2>2, <2>5 DEF Joined
  <2>7. s[Len(s)] = o /\ o.do = "bytes"
    BY <2>6 DEF o
  <2> QED BY <2>7
<1>7. cmd_memtest = s \o Op("passed", "")
  BY DEF cmd_memtest, f
<1> HIDE DEF s
<1> QED BY <1>5, <1>6, <1>7, ScriptThenPassed

\* The registers of the larger board, at the latency that reading them counts on.
LEMMA LongRegisters == Long("hx8k", "four", cmd_read_flash_regs_hx8k)
<1> DEFINE b == "hx8k"
           S == Ops(b, "four")
           l == set_flash_latency(LATENCY)
           a == [do |-> "flashio", arg |-> [kind |-> "any", n |-> 6, effect |-> <<>>]]
           t == l \o <<a>>
<1>1. LATENCY \in 1 .. 15
  BY CountAssumption
<1>2. Script(b, "four", l) /\ Len(l) = 2
  BY <1>1, ScriptLatency
<1>3. l[2] = [do |-> "flashio", arg |-> [kind |-> "write", n |-> 5, effect |-> [latency |-> LATENCY]]]
  BY DEF set_flash_latency, Set, flashio, Op
<1>4. WritesLatency(l[2]) /\ l[2].arg.effect.latency = LATENCY
  BY <1>3 DEF WritesLatency
<1>5. a \in S /\ flashio("any", 6, Nothing) = <<a>>
  BY DEF Ops, Reads, flashio, Op, Nothing
<1>6. a.do = "flashio" /\ ReadsAny(a) /\ ~WritesLatency(a)
  BY DEF ReadsAny, WritesLatency
<1> HIDE DEF S, l, a
<1>7. l \in Seq(S) /\ <<a>> \in Seq(S) /\ \A j \in 1 .. Len(l) : Placed(b, l, j)
  BY <1>2, <1>5 DEF Script, S
<1>8. t \in Seq(S)
  BY <1>7
<1>9. Joined(t, l, <<a>>)
  BY <1>7, ConcatPlaces
<1> HIDE DEF t
<1>10. Len(t) = 3 /\ t[1] = l[1] /\ t[2] = l[2] /\ t[3] = a
  <2>1. Len(t) = 2 + 1 /\ (\A j \in 1 .. 2 : t[j] = l[j]) /\ \A j \in 1 .. 1 : t[2 + j] = <<a>>[j]
    BY <1>2, <1>9 DEF Joined
  <2> QED BY <2>1
<1>11. Piece(l, t, 0)
  BY <1>2, <1>10 DEF Piece
<1>12. Placed(b, t, 1) /\ Placed(b, t, 2)
  <2>1. Placed(b, l, 1) /\ Placed(b, l, 2) /\ 1 \in 1 .. Len(l) /\ 2 \in 1 .. Len(l)
    BY <1>2, <1>7
  <2>2. Placed(b, t, 0 + 1)
    BY <1>7, <1>8, <1>11, <2>1, PlacedInPiece
  <2>3. Placed(b, t, 0 + 2)
    BY <1>7, <1>8, <1>11, <2>1, PlacedInPiece
  <2> QED BY <2>2, <2>3
<1>13. Placed(b, t, 3)
  <2>1. 3 > 1 /\ 3 - 1 = 2
    OBVIOUS
  <2> QED BY <1>4, <1>6, <1>10, <2>1 DEF Placed, SetsLatency, SetsCont
<1>14. Long(b, "four", t)
  <2>1. \A j \in 1 .. Len(t) : Placed(b, t, j)
    BY <1>10, <1>12, <1>13
  <2>2. Script(b, "four", t)
    BY <1>8, <2>1 DEF Script, S
  <2>3. Len(t) \in Nat \ {0}
    BY <1>10
  <2> QED BY <2>2, <2>3 DEF Long
<1>15. Long(b, "four", t \o Hex(2))
  BY <1>14, LongPieces, LongConcat
<1>16. cmd_read_flash_regs_print = t \o Hex(2)
  BY <1>5 DEF cmd_read_flash_regs_print, l, t
<1>17. Long(b, "four", Repeat(cmd_read_flash_regs_print, 6))
  <2>1. 6 \in Nat \ {0}
    OBVIOUS
  <2> QED BY <1>15, <1>16, <2>1, LongRepeat
<1>18. Long(b, "four", Show)
  BY LongPieces
<1> QED BY <1>17, <1>18, LongConcat DEF cmd_read_flash_regs_hx8k

LEMMA LongState ==
  ASSUME NEW b, NEW lines
  PROVE  Long(b, lines, cmd_print_spi_state) /\ Long(b, lines, cmd_echo) /\ Long(b, lines, menu)
<1>1. /\ Long(b, lines, Show) /\ Long(b, lines, Op("latency", ""))
      /\ Long(b, lines, Op("echo", "")) /\ Long(b, lines, Op("prompt", ""))
      /\ Long(b, lines, Op("flag", "ddr")) /\ Long(b, lines, Op("flag", "qspi"))
      /\ Long(b, lines, Op("flag", "cont"))
  BY LongPieces
<1>2. Long(b, lines, Show \o Op("latency", ""))
  BY <1>1, LongConcat
<1>3. Long(b, lines, Show \o Op("latency", "") \o Op("flag", "ddr"))
  BY <1>1, <1>2, LongConcat
<1>4. Long(b, lines, Show \o Op("latency", "") \o Op("flag", "ddr") \o Op("flag", "qspi"))
  BY <1>1, <1>3, LongConcat
<1>5. Long(b, lines, cmd_print_spi_state)
  BY <1>1, <1>4, LongConcat DEF cmd_print_spi_state
<1>6. Long(b, lines, cmd_echo)
  BY <1>1, LongConcat DEF cmd_echo
<1>7. Long(b, lines, menu)
  BY <1>1, LongConcat DEF menu
<1> QED BY <1>5, <1>6, <1>7

LEMMA LongBenchmark ==
  ASSUME NEW b, NEW lines
  PROVE  Long(b, lines, cmd_benchmark(TRUE))
<1>1. Long(b, lines, Repeat(Show, LOOPS))
  <2>1. Long(b, lines, Show) /\ LOOPS \in Nat \ {0}
    BY LongPieces, CountAssumption
  <2> QED BY <2>1, LongRepeat
<1>2. Long(b, lines, Repeat(Hex(8), 3))
  <2>0. 8 \in {2, 8} /\ 3 \in Nat \ {0}
    OBVIOUS
  <2>1. Long(b, lines, Hex(8)) /\ 3 \in Nat \ {0}
    BY <2>0, LongPieces
  <2> QED BY <2>1, LongRepeat
<1>3. cmd_benchmark(TRUE) = Repeat(Show, LOOPS) \o Repeat(Hex(8), 3)
  BY DEF cmd_benchmark
<1> QED BY <1>1, <1>2, <1>3, LongConcat

LEMMA LongMode ==
  ASSUME NEW b \in {"hx8k", "ice"}
  PROVE  /\ Long(b, "four", set_flash_mode_spi(b)) /\ Long(b, "four", set_flash_mode_dual(b))
         /\ Long(b, "four", set_flash_mode_quad(b)) /\ Long(b, "four", set_flash_mode_qddr(b))
<1>1. ASSUME NEW ddr \in BOOLEAN, NEW qspi \in BOOLEAN
      PROVE  Long(b, "four", set_flash_mode(b, ddr, qspi))
  <2>1. CASE b = "hx8k"
    <3> DEFINE m == Mode(ddr, qspi, FALSE)
    <3>1. m \in Modes("four")
      BY DEF Mode, Modes
    <3>2. set_flash_mode(b, ddr, qspi) = Set(m)
      BY <2>1 DEF set_flash_mode
    <3> HIDE DEF m
    <3>3. Script("hx8k", "four", Set(m)) /\ Len(Set(m)) = 1
      BY <3>1, ScriptMode
    <3> QED BY <2>1, <3>2, <3>3 DEF Long
  <2>2. CASE b = "ice"
    <3> DEFINE s == set_flash_mode("ice", ddr, qspi)
    <3>1. Script("ice", "four", s) /\ Len(s) = 1
      BY ScriptIceMode
    <3> HIDE DEF s
    <3>2. Long("ice", "four", s)
      BY <3>1 DEF Long
    <3> QED BY <2>2, <3>2 DEF s
  <2> QED BY <2>1, <2>2
<1> QED BY <1>1 DEF set_flash_mode_spi, set_flash_mode_dual, set_flash_mode_quad, set_flash_mode_qddr

-------------------------------------------------------------------------------
(* The programs: commands that are sent by hand while nothing reads continuously *)

Calm == {o \in Plain : o.do \notin {"passed", "prompt", "echo", "words", "bytes"}}
ReadRegs == [do : {"flashio"}, arg : [kind : {"read"}, n : Nat, effect : {Nothing}]]
SetsQuadFlag == [do : {"flashio"}, arg : [kind : {"write"}, n : Nat, effect : {[qe |-> TRUE]}]]
BootOps == Calm \cup Reads \cup SetsQuadFlag

Made(S, s) == s \in Seq(S) /\ Len(s) \in Nat \ {0}
\* Booting sets the quad flag with its sixth operation.
Sixth(S, s, o) == s \in Seq(S) /\ Len(s) \in Nat /\ Len(s) >= 6 /\ s[6] = o

LEMMA MadeOne ==
  ASSUME NEW S, NEW o \in S
  PROVE  Made(S, <<o>>)
BY DEF Made

LEMMA MadeConcat ==
  ASSUME NEW S, NEW s, NEW t, Made(S, s), Made(S, t)
  PROVE  Made(S, s \o t)
BY DEF Made

LEMMA SixthConcat ==
  ASSUME NEW S, NEW s, NEW t, NEW o, Sixth(S, s, o), Made(S, t)
  PROVE  Sixth(S, s \o t, o)
<1>1. s \in Seq(S) /\ Len(s) \in Nat /\ Len(s) >= 6 /\ s[6] = o /\ t \in Seq(S)
  BY DEF Sixth, Made
<1>2. 6 \in 1 .. Len(s)
  BY <1>1
<1>3. Joined(s \o t, s, t)
  BY <1>1, ConcatPlaces
<1>4. s \o t \in Seq(S)
  BY <1>1
<1> DEFINE u == s \o t
<1>5. u \in Seq(S) /\ Joined(u, s, t)
  BY <1>3, <1>4
<1> HIDE DEF u
<1>6. u \in Seq(S) /\ Len(u) = Len(s) + Len(t) /\ u[6] = s[6] /\ Len(t) \in Nat
  BY <1>1, <1>2, <1>5 DEF Joined
<1>7. Sixth(S, u, o)
  BY <1>1, <1>6 DEF Sixth
<1> QED BY <1>7 DEF u

LEMMA MadeRepeat ==
  ASSUME NEW S, NEW o \in S, NEW n \in Nat \ {0}
  PROVE  Made(S, Repeat(<<o>>, n)) /\ Len(Repeat(<<o>>, n)) = n
<1> DEFINE f == [i \in 1 .. n |-> <<o>>]
           L == 1
<1>1. f \in [1 .. n -> Seq(S)] /\ L \in Nat \ {0} /\ \A i \in 1 .. n : Len(f[i]) = L
  OBVIOUS
<1> HIDE DEF f, L
<1>2. Rounds(f) \in Seq(S) /\ Len(Rounds(f)) = n * L
  BY <1>1, RoundsPieces, SMTT(30)
<1>3. n * L = n
  BY DEF L
<1>4. Repeat(<<o>>, n) = Rounds(f)
  BY DEF Repeat, f
<1> DEFINE r == Repeat(<<o>>, n)
<1>5. r \in Seq(S) /\ Len(r) = n
  BY <1>2, <1>3, <1>4
<1> HIDE DEF r
<1>6. Made(S, r) /\ Len(r) = n
  BY <1>5 DEF Made
<1> QED BY <1>6 DEF r

LEMMA CalmPieces ==
  /\ ShowOp \in Calm /\ Show = <<ShowOp>>
  /\ \A v \in 0 .. 99 \cup {128} : [do |-> "dec", arg |-> v] \in Calm
  /\ \A d \in {2, 8} : [do |-> "hex", arg |-> d] \in Calm
  /\ \A what \in {"latency", "enter"} : [do |-> what, arg |-> ""] \in Calm
  /\ \A flag \in {"ddr", "qspi", "cont"} : [do |-> "flag", arg |-> flag] \in Calm
BY DEF Calm, Plain, ShowOp, Show, Op

LEMMA MadeState ==
  ASSUME NEW S, Calm \subseteq S
  PROVE  Made(S, cmd_print_spi_state)
<1> DEFINE l == [do |-> "latency", arg |-> ""]
           d == [do |-> "flag", arg |-> "ddr"]
           q == [do |-> "flag", arg |-> "qspi"]
           c == [do |-> "flag", arg |-> "cont"]
<1>1. ShowOp \in S /\ l \in S /\ d \in S /\ q \in S /\ c \in S
  BY CalmPieces
<1>2. cmd_print_spi_state = <<ShowOp>> \o <<l>> \o <<d>> \o <<q>> \o <<c>>
  BY DEF cmd_print_spi_state, Show, Op, ShowOp
<1> HIDE DEF l, d, q, c, ShowOp
<1>3. Made(S, <<ShowOp>>) /\ Made(S, <<l>>) /\ Made(S, <<d>>) /\ Made(S, <<q>>) /\ Made(S, <<c>>)
  BY <1>1, MadeOne
<1>4. Made(S, <<ShowOp>> \o <<l>>)
  BY <1>3, MadeConcat
<1>5. Made(S, <<ShowOp>> \o <<l>> \o <<d>>)
  BY <1>3, <1>4, MadeConcat
<1>6. Made(S, <<ShowOp>> \o <<l>> \o <<d>> \o <<q>>)
  BY <1>3, <1>5, MadeConcat
<1>7. Made(S, <<ShowOp>> \o <<l>> \o <<d>> \o <<q>> \o <<c>>)
  BY <1>3, <1>6, MadeConcat
<1> QED BY <1>2, <1>7

LEMMA MadeFlashId == Made(Calm \cup ReadRegs, cmd_read_flash_id)
<1> DEFINE S == Calm \cup ReadRegs
           r == [do |-> "flashio", arg |-> [kind |-> "read", n |-> 17, effect |-> <<>>]]
           h == [do |-> "hex", arg |-> 2]
<1>1. r \in S /\ h \in S /\ ShowOp \in S
  BY CalmPieces DEF ReadRegs, Nothing
<1>2. cmd_read_flash_id = <<r>> \o Repeat(<<h>>, 2) \o <<ShowOp>>
  BY DEF cmd_read_flash_id, flashio, Nothing, Hex, Show, Op, ShowOp
<1> HIDE DEF S, r, h, ShowOp
<1>3. Made(S, <<r>>) /\ Made(S, <<ShowOp>>)
  BY <1>1, MadeOne
<1>4. Made(S, Repeat(<<h>>, 2))
  <2>1. 2 \in Nat \ {0}
    OBVIOUS
  <2> QED BY <1>1, <2>1, MadeRepeat
<1>5. Made(S, <<r>> \o Repeat(<<h>>, 2))
  BY <1>3, <1>4, MadeConcat
<1>6. Made(S, <<r>> \o Repeat(<<h>>, 2) \o <<ShowOp>>)
  BY <1>3, <1>5, MadeConcat
<1> QED BY <1>2, <1>6 DEF S

LEMMA MadeRegisters == Made(Calm \cup ReadRegs, cmd_read_flash_regs_ice)
<1> DEFINE S == Calm \cup ReadRegs
           r == [do |-> "flashio", arg |-> [kind |-> "read", n |-> 2, effect |-> <<>>]]
<1>1. r \in S /\ ShowOp \in S
  BY CalmPieces DEF ReadRegs, Nothing
<1>2. cmd_read_flash_regs_ice = <<ShowOp>> \o Repeat(<<r>>, 3) \o Repeat(<<ShowOp>>, 3)
  BY DEF cmd_read_flash_regs_ice, cmd_read_flash_reg, print_reg_bit, flashio, Nothing, Show, Op, ShowOp
<1> HIDE DEF S, r, ShowOp
<1>3. Made(S, <<ShowOp>>)
  BY <1>1, MadeOne
<1>4. Made(S, Repeat(<<r>>, 3)) /\ Made(S, Repeat(<<ShowOp>>, 3))
  <2>1. 3 \in Nat \ {0}
    OBVIOUS
  <2>2. Made(S, Repeat(<<r>>, 3))
    BY <1>1, <2>1, MadeRepeat
  <2>3. Made(S, Repeat(<<ShowOp>>, 3))
    BY <1>1, <2>1, MadeRepeat
  <2> QED BY <2>2, <2>3
<1>5. Made(S, <<ShowOp>> \o Repeat(<<r>>, 3))
  BY <1>3, <1>4, MadeConcat
<1>6. Made(S, <<ShowOp>> \o Repeat(<<r>>, 3) \o Repeat(<<ShowOp>>, 3))
  BY <1>4, <1>5, MadeConcat
<1> QED BY <1>2, <1>6 DEF S

LEMMA Booting ==
  ASSUME NEW b \in {"hx8k", "ice"}
  PROVE  \E w \in SetsQuadFlag : Sixth(BootOps, boot(b), w)
<1> DEFINE S == BootOps
           r == IF b = "hx8k"
                THEN [do |-> "flashio", arg |-> [kind |-> "any", n |-> 6, effect |-> <<>>]]
                ELSE [do |-> "flashio", arg |-> [kind |-> "read", n |-> 2, effect |-> <<>>]]
           w == IF b = "hx8k"
                THEN [do |-> "flashio", arg |-> [kind |-> "write", n |-> 5, effect |-> [qe |-> TRUE]]]
                ELSE [do |-> "flashio", arg |-> [kind |-> "write", n |-> 2, effect |-> [qe |-> TRUE]]]
           e == [do |-> "enter", arg |-> ""]
           d == [do |-> "dec", arg |-> MEM_TOTAL[b] \div 1024]
           sh == Repeat(<<ShowOp>>, 4)
<1>1. r \in S /\ w \in S /\ w \in SetsQuadFlag
  BY DEF BootOps, Reads, SetsQuadFlag, Nothing
<1>2. ShowOp \in S /\ e \in S /\ Calm \subseteq S
  BY CalmPieces DEF BootOps
<1>3. d \in S
  <2>1. MEM_TOTAL[b] \div 1024 \in {0, 128}
    <3>1. 512 \div 1024 = 0 /\ 131072 \div 1024 = 128
      OBVIOUS
    <3>2. MEM_TOTAL["hx8k"] = 512 /\ MEM_TOTAL["ice"] = 131072
      BY DEF MEM_TOTAL
    <3> QED BY <3>1, <3>2
  <2>2. d \in Calm
    <3> DEFINE v == MEM_TOTAL[b] \div 1024
    <3>1. v \in 0 .. 99 \cup {128}
      BY <2>1
    <3> HIDE DEF v
    <3>2. [do |-> "dec", arg |-> v] \in Calm
      BY <3>1, CalmPieces
    <3> QED BY <3>2 DEF v
  <2> QED BY <1>2, <2>2, ZenonT(30)
<1>4. boot(b) = sh \o (<<r>> \o <<w>>) \o <<ShowOp>> \o <<e>> \o <<ShowOp>> \o <<d>> \o <<ShowOp>>
                \o cmd_print_spi_state
  <2>1. /\ b = "hx8k" => set_flash_qspi_flag_hx8k = <<r>> \o <<w>>
        /\ b = "ice" => set_flash_qspi_flag_ice = <<r>> \o <<w>>
    BY DEF set_flash_qspi_flag_hx8k, set_flash_qspi_flag_ice, flashio, Op, Nothing
  <2>2. Show = <<ShowOp>> /\ Op("enter", "") = <<e>>
    BY DEF Show, Op, ShowOp
  <2>3. Dec(MEM_TOTAL[b] \div 1024) = <<d>>
    BY DEF Dec, Op
  <2> HIDE DEF r, w, e, d
  <2>4. CASE b = "hx8k"
    BY <2>1, <2>2, <2>3, <2>4, ZenonT(30) DEF boot
  <2>5. CASE b = "ice"
    BY <2>1, <2>2, <2>3, <2>5, ZenonT(30) DEF boot
  <2> QED BY <2>4, <2>5
<1> HIDE DEF S, r, w, e, d, ShowOp
<1>5. sh \in Seq(S) /\ Len(sh) = 4
  <2>1. 4 \in Nat \ {0}
    OBVIOUS
  <2>2. Made(S, sh) /\ Len(sh) = 4
    BY <1>2, <2>1, MadeRepeat
  <2> HIDE DEF sh
  <2> QED BY <2>2 DEF Made
<1> HIDE DEF sh
<1>6. Sixth(S, sh \o (<<r>> \o <<w>>), w)
  <2> DEFINE t == <<r>> \o <<w>>
             u == sh \o t
  <2>1. t \in Seq(S) /\ Len(t) = 2 /\ t[2] = w
    BY <1>1
  <2> HIDE DEF t
  <2>2. u \in Seq(S)
    BY <1>5, <2>1
  <2>3. Joined(u, sh, t)
    BY <1>5, <2>1, ConcatPlaces
  <2> HIDE DEF u
  <2>4. Len(u) = 6 /\ u[6] = w
    <3>1. Len(u) = 4 + 2 /\ \A j \in 1 .. 2 : u[4 + j] = t[j]
      BY <1>5, <2>1, <2>3 DEF Joined
    <3> QED BY <2>1, <3>1
  <2>5. Sixth(S, u, w)
    BY <2>2, <2>4 DEF Sixth
  <2> QED BY <2>5 DEF u, t
<1> DEFINE x == sh \o (<<r>> \o <<w>>)
<1>7. Made(S, <<ShowOp>>) /\ Made(S, <<e>>) /\ Made(S, <<d>>)
  BY <1>2, <1>3, MadeOne
<1>8. Made(S, cmd_print_spi_state)
  BY <1>2, MadeState
<1>9. Sixth(S, x, w)
  BY <1>6
<1> HIDE DEF x
<1>10. Sixth(S, x \o <<ShowOp>>, w)
  BY <1>7, <1>9, SixthConcat
<1>11. Sixth(S, x \o <<ShowOp>> \o <<e>>, w)
  BY <1>7, <1>10, SixthConcat
<1>12. Sixth(S, x \o <<ShowOp>> \o <<e>> \o <<ShowOp>>, w)
  BY <1>7, <1>11, SixthConcat
<1>13. Sixth(S, x \o <<ShowOp>> \o <<e>> \o <<ShowOp>> \o <<d>>, w)
  BY <1>7, <1>12, SixthConcat
<1>14. Sixth(S, x \o <<ShowOp>> \o <<e>> \o <<ShowOp>> \o <<d>> \o <<ShowOp>>, w)
  BY <1>7, <1>13, SixthConcat
<1>15. Sixth(S, x \o <<ShowOp>> \o <<e>> \o <<ShowOp>> \o <<d>> \o <<ShowOp>> \o cmd_print_spi_state, w)
  BY <1>8, <1>14, SixthConcat
<1>16. Sixth(S, boot(b), w)
  BY <1>4, <1>15 DEF x
<1> QED BY <1>1, <1>16 DEF S

\* All programs.
Toggle == [do |-> "toggle", arg |-> ""]
Lines(b, c) == IF b = "hx8k" /\ c = "0" THEN "two" ELSE "four"
HandSent(b) == {"1"} \cup (IF b = "ice" THEN {"2"} ELSE {})
Written == ({"menu"} \cup Commands) \ {"7"}
LEMMA Programs ==
  ASSUME NEW b \in {"hx8k", "ice"}
  PROVE  /\ \E w \in SetsQuadFlag : Sixth(BootOps, Program[b]["boot"], w)
         /\ \A c \in HandSent(b) : Made(Calm \cup ReadRegs, Program[b][c])
         /\ \A c \in Written \ HandSent(b) : Long(b, Lines(b, c), Program[b][c])
         /\ Program[b]["7"] = <<Toggle>>
<1> DEFINE P == Program[b]
<1>1. /\ P["boot"] = boot(b) /\ P["menu"] = menu /\ P["1"] = cmd_read_flash_id
      /\ P["2"] = IF b = "hx8k" THEN cmd_read_flash_regs_hx8k ELSE cmd_read_flash_regs_ice
      /\ P["3"] = set_flash_mode_spi(b) /\ P["4"] = set_flash_mode_dual(b)
  BY DEF Program, Commands
<1>2. /\ P["5"] = set_flash_mode_quad(b) /\ P["6"] = set_flash_mode_qddr(b)
      /\ P["7"] = <<Toggle>> /\ P["9"] = cmd_benchmark(TRUE)
      /\ P["0"] = IF b = "hx8k" THEN cmd_benchmark_all_hx8k ELSE cmd_benchmark_all_ice
      /\ P["M"] = cmd_memtest /\ P["S"] = cmd_print_spi_state /\ P["e"] = cmd_echo
  BY DEF Program, Commands, Op, Toggle
<1> HIDE DEF P
<1>3. \E w \in SetsQuadFlag : Sixth(BootOps, P["boot"], w)
  BY <1>1, Booting
<1>4. ASSUME NEW c \in HandSent(b) PROVE Made(Calm \cup ReadRegs, P[c])
  <2>1. c = "1" \/ (c = "2" /\ b # "hx8k")
    BY DEF HandSent
  <2> QED BY <1>1, <2>1, MadeFlashId, MadeRegisters
<1>5. ASSUME NEW c \in Written \ HandSent(b) PROVE Long(b, Lines(b, c), P[c])
  <2>1. \/ c \in {"menu", "M", "S", "e", "9"}
        \/ c \in {"3", "4", "5", "6"}
        \/ c = "0"
        \/ c = "2" /\ b = "hx8k"
    <3>1. CASE b = "hx8k"
      BY <3>1 DEF Written, HandSent, Commands
    <3>2. CASE b = "ice"
      BY <3>2 DEF Written, HandSent, Commands
    <3> QED BY <3>1, <3>2
  <2>2. CASE c \in {"menu", "M", "S", "e", "9"}
    BY <1>1, <1>2, <2>2, LongState, LongMemtest, LongBenchmark
  <2>3. CASE c \in {"3", "4", "5", "6"}
    <3>1. Lines(b, c) = "four"
      BY <2>3 DEF Lines
    <3> QED BY <1>1, <1>2, <2>3, <3>1, LongMode
  <2>4. CASE c = "0"
    BY <1>2, <2>4, LongHx8kBenchmark, LongIceBenchmark DEF Lines
  <2>5. CASE c = "2" /\ b = "hx8k"
    BY <1>1, <2>5, LongRegisters DEF Lines
  <2> QED BY <2>1, <2>2, <2>3, <2>4, <2>5
<1> QED BY <1>2, <1>3, <1>4, <1>5 DEF P

-------------------------------------------------------------------------------
(* The inductive invariant: controller and chip *)

Text == Program[board][doing]

FlashType ==
  [powered : BOOLEAN, xip : {"none", "BB", "EB", "ED"}, qe : BOOLEAN,
   latency : 0 .. 15, wel : BOOLEAN,
   cmd : {"closed", "junk", "03", "BB", "EB", "ED"}, next : 0 .. Junk]
ChipType == flash \in FlashType /\ dual_ends \in BOOLEAN

\* A chip reads continuously only as the controller will, or when the controller is
\* about to end it.
ChipMode == IF cfg.cont THEN ReadCommand ELSE "none"
WakeInv ==
  /\ flash.xip = "BB" => dual_ends
  /\ state \in {"release", "command"} => flash.xip = "none"
  /\ state \in {"command", "address", "data"} => flash.powered
\* Continuous reading is set with two or four lines only, and with two only if the
\* chip can be taken out of it.
ContInv == cfg.cont => ReadCommand # "03" /\ (ReadCommand = "BB" => dual_ends)
\* The chip understands what the controller is doing.
BurstInv ==
  /\ state = "address" =>
       /\ ~rd_inc
       /\ \/ flash.cmd = ReadCommand /\ flash.xip = "none"
          \/ flash.cmd = "closed" /\ cfg.cont /\ flash.xip = ReadCommand
  /\ state = "data" => flash.xip = ChipMode
  /\ state # "data" => ~rd_valid
\* The word on its way and the words read are those at their addresses.
WordsInv ==
  state = "data" =>
    IF rd_inc THEN rd_valid /\ rdata = rd_addr /\ flash.next = Plus4(rd_addr)
    ELSE ~rd_valid /\ valid # None /\ flash.next = valid

\* Dummy clocks are the same at both ends, but between the two writes that change them.
Pending == worker # "give back" /\ WritesLatency(op)
DummyInv ==
  /\ board = "hx8k" /\ ~Pending => flash.latency = cfg.dummy
  /\ board = "ice" /\ ReadCommand # "03" => Latency(ReadCommand) = cfg.dummy

-------------------------------------------------------------------------------
(* The inductive invariant: the firmware *)

FirmwareType ==
  /\ doing \in {"boot", "menu"} \cup Commands /\ pc \in 1 .. Len(Text) /\ rep \in 1 .. REPS
  /\ worker \in {"off", "take", "wren", "transfer", "give back"}
  /\ reply \in {"none", "read"}
  /\ bad_ram \in {"none", "zeros", "address", "words"}

\* While the worker has the flash, nothing is asked of it, and it listens.
WorkerInv ==
  /\ cfg.en <=> worker \in {"off", "take"}
  /\ worker # "off" => op.do = "flashio" /\ valid = None
  /\ worker = "take" => state = "data"
  /\ worker \in {"wren", "transfer", "give back"} =>
       state = "wake" /\ flash.xip = "none" /\ flash.powered
  /\ worker = "transfer" /\ op.arg.kind = "write" => flash.wel

\* Before the menu the controller is as it was after reset, and then the chip has its
\* quad flag.
BootInv ==
  /\ doing = "boot" => /\ flash.latency = LATENCY /\ ReadCommand = "03" /\ ~cfg.cont
                       /\ pc > 6 \/ (pc = 6 /\ worker = "give back") => flash.qe
  /\ doing # "boot" => flash.qe

\* Commands by hand are sent while nothing reads continuously, and those that read
\* registers at the latency they count on.
HandInv ==
  /\ doing \in {"boot"} \cup HandSent(board) => ~cfg.cont
  /\ op.do = "flashio" => ~cfg.cont
  /\ WritesLatency(op) => ReadCommand = "03" /\ cfg.dummy = op.arg.effect.latency
  /\ ReadsAny(op) => flash.latency = LATENCY

\* The last width that a command has set is the width there is; and only a width that
\* can be read continuously is found by a command that turns that on.
WidthInv ==
  /\ \A i \in 1 .. pc - 1 :
       SetsWidth(Text[i]) /\ (\A m \in i + 1 .. pc - 1 : Text[m].do # "set") =>
         cfg.qspi = Text[i].arg.qspi
  /\ doing = "0" /\ board = "hx8k" => dual_ends
  /\ op.do = "toggle" => cfg.qspi \/ (cfg.ddr /\ dual_ends)

PassedInv == op.do = "passed" => bad_ram = "none"

MemoryInv == MemTypeOK /\ ChipType /\ WakeInv /\ ContInv /\ BurstInv /\ WordsInv
CommandInv == BootInv /\ HandInv /\ WidthInv /\ PassedInv
PicoInv == MemoryInv /\ DummyInv /\ FirmwareType /\ WorkerInv /\ CommandInv

-------------------------------------------------------------------------------
(* The operation that runs, and the one after it *)

Boards == {"hx8k", "ice"}
Names == {"boot", "menu"} \cup Commands

\* What an operation is, by the command it belongs to.
LEMMA OpKinds ==
  ASSUME NEW b \in Boards, NEW c \in Names, NEW p \in 1 .. Len(Program[b][c])
  PROVE  LET o == Program[b][c][p]
         IN  \/ c = "boot" /\ o \in BootOps /\ (p = 6 => o \in SetsQuadFlag) /\ Len(Program[b][c]) >= 6
             \/ c \in HandSent(b) /\ o \in Calm \cup ReadRegs
             \/ c = "7" /\ o = Toggle /\ p = 1
             \/ /\ c \in Written \ HandSent(b) /\ o \in Ops(b, Lines(b, c))
                /\ Placed(b, Program[b][c], p)
<1> DEFINE s == Program[b][c]
<1> b \in {"hx8k", "ice"}
  BY DEF Boards
<1>1. CASE c = "boot"
  <2>1. PICK w \in SetsQuadFlag : Sixth(BootOps, s, w)
    BY <1>1, Programs
  <2> HIDE DEF s
  <2>2. s \in Seq(BootOps) /\ Len(s) >= 6 /\ s[6] = w
    BY <2>1 DEF Sixth
  <2>3. p \in 1 .. Len(s)
    BY DEF s
  <2>4. s[p] \in BootOps
    BY <2>2, <2>3
  <2> QED BY <1>1, <2>1, <2>2, <2>4 DEF s
<1>2. CASE c \in HandSent(b)
  <2>1. Made(Calm \cup ReadRegs, s)
    BY <1>2, Programs
  <2>2. p \in 1 .. Len(s)
    OBVIOUS
  <2> HIDE DEF s
  <2>3. s[p] \in Calm \cup ReadRegs
    BY <2>1, <2>2 DEF Made
  <2> QED BY <1>2, <2>3 DEF s
<1>3. CASE c = "7"
  <2>1. s = <<Toggle>>
    BY <1>3, Programs
  <2>2. p \in 1 .. Len(s)
    OBVIOUS
  <2> HIDE DEF s, Toggle
  <2>3. p = 1 /\ s[p] = Toggle
    BY <2>1, <2>2
  <2> QED BY <1>3, <2>3 DEF s
<1>4. CASE c \in Written \ HandSent(b)
  <2>1. Long(b, Lines(b, c), s)
    BY <1>4, Programs
  <2>2. p \in 1 .. Len(s)
    OBVIOUS
  <2> HIDE DEF s
  <2>3. s \in Seq(Ops(b, Lines(b, c))) /\ \A j \in 1 .. Len(s) : Placed(b, s, j)
    BY <2>1 DEF Long, Script
  <2>4. s[p] \in Ops(b, Lines(b, c)) /\ Placed(b, s, p)
    BY <2>2, <2>3
  <2> QED BY <1>4, <2>4 DEF s
<1>5. c = "boot" \/ c \in HandSent(b) \/ c = "7" \/ c \in Written \ HandSent(b)
  BY DEF Names, Written
<1> QED BY <1>1, <1>2, <1>3, <1>4, <1>5

LEMMA ProgramLength ==
  ASSUME NEW b \in Boards, NEW c \in Names
  PROVE  Len(Program[b][c]) \in Nat \ {0}
<1> DEFINE s == Program[b][c]
<1> b \in {"hx8k", "ice"}
  BY DEF Boards
<1>1. CASE c = "boot"
  <2>1. \E w : Sixth(BootOps, s, w)
    BY <1>1, Programs
  <2> QED BY <2>1 DEF Sixth
<1>2. CASE c \in HandSent(b)
  BY <1>2, Programs DEF Made
<1>3. CASE c = "7"
  BY <1>3, Programs
<1>4. CASE c \in Written \ HandSent(b)
  BY <1>4, Programs DEF Long
<1>5. c = "boot" \/ c \in HandSent(b) \/ c = "7" \/ c \in Written \ HandSent(b)
  BY DEF Names, Written
<1> QED BY <1>1, <1>2, <1>3, <1>4, <1>5

\* What kind an operation is of, by the name of it.
LEMMA KindsOfOps ==
  /\ \A o \in Calm : o.do \notin {"flashio", "set", "toggle", "prompt", "passed", "words", "bytes", "echo"}
  /\ \A o \in Plain : o.do \notin {"flashio", "set", "toggle"}
  /\ \A o \in Reads : o.do = "flashio" /\ ~WritesLatency(o) /\ o.arg.effect = <<>> /\ o.arg.kind # "write"
  /\ \A o \in ReadRegs : o.do = "flashio" /\ ~WritesLatency(o) /\ ~ReadsAny(o)
                         /\ o.arg.effect = <<>> /\ o.arg.kind # "write"
  /\ \A o \in SetsQuadFlag : o.do = "flashio" /\ ~WritesLatency(o) /\ ~ReadsAny(o)
                             /\ o.arg.effect = [qe |-> TRUE] /\ o.arg.kind = "write"
  /\ \A o \in Writes : o.do = "flashio" /\ ~ReadsAny(o) /\ o.arg.kind = "write"
  /\ \A o \in Writes : WritesLatency(o) => \E v \in 1 .. 15 : o.arg.effect = [latency |-> v]
  /\ \A o \in Writes : ~WritesLatency(o) => o.arg.effect = [qe |-> TRUE]
<1>1. \A o \in Calm : o.do \notin {"flashio", "set", "toggle", "prompt", "passed", "words", "bytes", "echo"}
  BY DEF Calm, Plain
<1>2. \A o \in Plain : o.do \notin {"flashio", "set", "toggle"}
  BY DEF Plain
<1>3. \A o \in Reads : o.do = "flashio" /\ ~WritesLatency(o) /\ o.arg.effect = <<>> /\ o.arg.kind # "write"
  BY DEF Reads, Nothing, WritesLatency
<1>4. \A o \in ReadRegs : o.do = "flashio" /\ ~WritesLatency(o) /\ ~ReadsAny(o)
                          /\ o.arg.effect = <<>> /\ o.arg.kind # "write"
  BY DEF ReadRegs, Nothing, WritesLatency, ReadsAny
<1>5. \A o \in SetsQuadFlag : o.do = "flashio" /\ ~WritesLatency(o) /\ ~ReadsAny(o)
                              /\ o.arg.effect = [qe |-> TRUE] /\ o.arg.kind = "write"
  BY DEF SetsQuadFlag, WritesLatency, ReadsAny
<1>6. \A o \in Writes : o.do = "flashio" /\ ~ReadsAny(o) /\ o.arg.kind = "write"
  BY DEF Writes, ReadsAny
<1>7. \A o \in Writes : WritesLatency(o) => \E v \in 1 .. 15 : o.arg.effect = [latency |-> v]
  BY DEF Writes, WritesLatency
<1>8. \A o \in Writes : ~WritesLatency(o) => o.arg.effect = [qe |-> TRUE]
  <2> SUFFICES ASSUME NEW o \in Writes, ~WritesLatency(o)
               PROVE  o.arg.effect = [qe |-> TRUE]
    OBVIOUS
  <2>1. o.do = "flashio" /\ (o.arg.effect = [qe |-> TRUE] \/ \E v \in 1 .. 15 : o.arg.effect = [latency |-> v])
    BY DEF Writes
  <2>2. \A v \in 1 .. 15 : DOMAIN [latency |-> v] = {"latency"}
    OBVIOUS
  <2> QED BY <2>1, <2>2 DEF WritesLatency
<1> QED BY <1>1, <1>2, <1>3, <1>4, <1>5, <1>6, <1>7, <1>8

\* What runs where.
LEMMA OpFacts ==
  ASSUME NEW b \in Boards, NEW c \in Names, NEW p \in 1 .. Len(Program[b][c])
  PROVE  LET o == Program[b][c][p]
         IN  /\ o.do = "toggle" => c = "7" /\ p = 1
             /\ c = "7" => o.do = "toggle"
             /\ o.do = "set" => c \in Written \ HandSent(b) /\ o \in Settings(b, Lines(b, c))
             /\ o.do = "flashio" => o \in Reads \cup Writes
             /\ o.do \in {"prompt", "words", "bytes", "passed", "toggle"} => c # "boot"
             /\ WritesLatency(o) => c # "boot"
             /\ c = "boot" /\ p = 6 => o \in SetsQuadFlag
             /\ c = "boot" => Len(Program[b][c]) >= 6
<1> DEFINE o == Program[b][c][p]
<1>1. /\ c = "boot" => c \notin HandSent(b) /\ c # "7" /\ c \notin Written
      /\ Toggle.do = "toggle"
  BY DEF HandSent, Toggle, Written, Commands
<1>7. "7" \notin HandSent(b) /\ "7" \notin Written
  BY DEF HandSent, Written
<1>2. CASE c = "boot" /\ o \in BootOps /\ (p = 6 => o \in SetsQuadFlag) /\ Len(Program[b][c]) >= 6
  <2>1. o \in Calm \/ o \in Reads \/ o \in SetsQuadFlag
    BY <1>2 DEF BootOps
  <2>2. SetsQuadFlag \subseteq Writes
    BY DEF SetsQuadFlag, Writes
  <2> HIDE DEF o
  <2>3. o.do \notin {"toggle", "set", "prompt", "words", "bytes", "passed"} /\ ~WritesLatency(o)
    BY <2>1, KindsOfOps DEF WritesLatency
  <2>4. o.do = "flashio" => o \in Reads \cup Writes
    BY <2>1, <2>2, KindsOfOps
  <2> QED BY <1>2, <2>3, <2>4 DEF o
<1>3. CASE c \in HandSent(b) /\ o \in Calm \cup ReadRegs
  <2>1. ReadRegs \subseteq Reads
    BY DEF ReadRegs, Reads
  <2> HIDE DEF o
  <2>2. o.do \notin {"toggle", "set"} /\ ~WritesLatency(o) /\ (o.do = "flashio" => o \in Reads)
    BY <1>3, <2>1, KindsOfOps DEF WritesLatency
  <2> QED BY <1>1, <1>3, <1>7, <2>2 DEF o
<1>4. CASE c = "7" /\ o = Toggle /\ p = 1
  <2> HIDE DEF o
  <2>1. o.do = "toggle"
    BY <1>1, <1>4
  <2> QED BY <1>1, <1>4, <2>1 DEF o, WritesLatency
<1>5. CASE /\ c \in Written \ HandSent(b) /\ o \in Ops(b, Lines(b, c))
           /\ Placed(b, Program[b][c], p)
  <2>1. o \in Plain \/ o \in Settings(b, Lines(b, c)) \/ o \in Reads \/ o \in Writes
    BY <1>5 DEF Ops
  <2>2. o \in Settings(b, Lines(b, c)) => o.do = "set"
    <3> HIDE DEF o
    <3> QED BY DEF Settings
  <2> HIDE DEF o
  <2>3. o.do # "toggle" /\ (o.do = "set" => o \in Settings(b, Lines(b, c)))
        /\ (o.do = "flashio" => o \in Reads \cup Writes)
    BY <2>1, <2>2, KindsOfOps
  <2> QED BY <1>1, <1>5, <1>7, <2>3 DEF o
<1> HIDE DEF o
<1>6. \/ c = "boot" /\ o \in BootOps /\ (p = 6 => o \in SetsQuadFlag) /\ Len(Program[b][c]) >= 6
      \/ c \in HandSent(b) /\ o \in Calm \cup ReadRegs
      \/ c = "7" /\ o = Toggle /\ p = 1
      \/ /\ c \in Written \ HandSent(b) /\ o \in Ops(b, Lines(b, c))
         /\ Placed(b, Program[b][c], p)
  BY OpKinds DEF o
<1> QED BY <1>2, <1>3, <1>4, <1>5, <1>6 DEF o

\* An operation by hand is one of a command that is only sent while nothing reads
\* continuously, or follows what makes it work.
LEMMA PlacedFacts ==
  ASSUME NEW b \in Boards, NEW c \in Names, NEW p \in 1 .. Len(Program[b][c])
  PROVE  LET s == Program[b][c]
             hand == c \in {"boot"} \cup HandSent(b)
         IN  /\ s[p].do = "flashio" => hand \/ WritesLatency(s[p]) \/ ReadsAny(s[p])
             /\ WritesLatency(s[p]) => /\ ~hand /\ b = "hx8k"
                                       /\ p > 1 /\ SetsLatency(b, s[p-1])
                                       /\ s[p-1].arg.dummy = s[p].arg.effect.latency
             /\ SetsLatency(b, s[p]) => p < Len(s) /\ WritesLatency(s[p+1])
             /\ ReadsAny(s[p]) => c = "boot" \/ /\ ~hand /\ p > 1 /\ WritesLatency(s[p-1])
                                                /\ s[p-1].arg.effect.latency = LATENCY
             /\ SetsCont(s[p]) =>
                  \E i \in 1 .. p - 1 : /\ SetsWidth(s[i]) /\ s[i].arg.qspi
                                        /\ \A m \in i + 1 .. p - 1 : s[m].do # "set"
             /\ s[p].do = "passed" => p > 1 /\ s[p-1].do = "bytes"
<1> DEFINE s == Program[b][c]
           o == s[p]
<1>0. "boot" \notin Written
  BY DEF Written, Commands
<1>1. CASE c = "boot" /\ o \in BootOps
  <2>1. o \in Calm \/ o \in Reads \/ o \in SetsQuadFlag
    BY <1>1 DEF BootOps
  <2> HIDE DEF o
  <2>2. ~WritesLatency(o) /\ o.do \notin {"set", "passed"}
    BY <2>1, KindsOfOps DEF WritesLatency
  <2> QED BY <1>1, <2>2 DEF o, SetsLatency, SetsCont
<1>2. CASE c \in HandSent(b) /\ o \in Calm \cup ReadRegs
  <2> HIDE DEF o
  <2>2. ~WritesLatency(o) /\ ~ReadsAny(o) /\ o.do \notin {"set", "passed"}
    BY <1>2, KindsOfOps DEF WritesLatency, ReadsAny
  <2> QED BY <1>2, <2>2 DEF o, SetsLatency, SetsCont
<1>3. CASE c = "7" /\ o = Toggle
  <2>0. Toggle.do = "toggle"
    BY DEF Toggle
  <2> HIDE DEF o
  <2>1. o.do = "toggle"
    BY <1>3, <2>0
  <2> QED BY <2>1 DEF o, SetsLatency, SetsCont, WritesLatency, ReadsAny
<1>4. CASE c \in Written \ HandSent(b) /\ Placed(b, s, p)
  <2>1. c \notin {"boot"} \cup HandSent(b)
    BY <1>0, <1>4
  <2> HIDE DEF s
  <2>2. SetsLatency(b, s[p-1]) => b = "hx8k"
    BY DEF SetsLatency
  <2> QED BY <1>4, <2>1, <2>2 DEF Placed, s
<1> HIDE DEF o
<1>5. \/ c = "boot" /\ o \in BootOps
      \/ c \in HandSent(b) /\ o \in Calm \cup ReadRegs
      \/ c = "7" /\ o = Toggle
      \/ c \in Written \ HandSent(b) /\ Placed(b, s, p)
  BY OpKinds DEF o
<1> QED BY <1>1, <1>2, <1>3, <1>4, <1>5 DEF o

-------------------------------------------------------------------------------
(* Steps of the controller *)

LEMMA Plus4Type ==
  ASSUME NEW a \in 0 .. Words - 1
  PROVE  Plus4(a) \in 0 .. Words - 1
BY WordsAssumption DEF Plus4

LEMMA Widths ==
  ReadCommand \in {"03", "BB", "EB", "ED"}
BY DEF ReadCommand

\* The widths stand as long as the configuration of them does.
LEMMA WidthStands ==
  ASSUME MemoryInv, WidthInv, UNCHANGED <<board, dual_ends, doing, pc>>,
         cfg'.ddr = cfg.ddr, cfg'.qspi = cfg.qspi
  PROVE  WidthInv'
<1>a. board' = board /\ dual_ends' = dual_ends /\ doing' = doing /\ pc' = pc
  OBVIOUS
<1>b. op' = op /\ Text' = Text
  BY <1>a DEF op, Text
<1>1. ASSUME NEW i \in 1 .. pc - 1, SetsWidth(Text[i]), \A m \in i + 1 .. pc - 1 : Text[m].do # "set"
      PROVE  cfg.qspi = Text[i].arg.qspi
  BY <1>1 DEF WidthInv
<1>2. \A i : SetsWidth(Text[i])' <=> SetsWidth(Text[i])
  BY <1>b DEF SetsWidth
<1>3. /\ doing' = "0" /\ board' = "hx8k" => dual_ends'
      /\ op'.do = "toggle" => cfg'.qspi \/ (cfg'.ddr /\ dual_ends')
  <2>1. /\ doing = "0" /\ board = "hx8k" => dual_ends
        /\ op.do = "toggle" => cfg.qspi \/ (cfg.ddr /\ dual_ends)
    BY DEF WidthInv
  <2>2. cfg.qspi \in BOOLEAN /\ cfg.ddr \in BOOLEAN /\ dual_ends \in BOOLEAN
    BY DEF MemoryInv, MemTypeOK, ChipType
  <2>3. op'.do = op.do
    BY <1>b
  <2>4. dual_ends' = dual_ends
    BY <1>a, Zenon
  <2>5. doing' = doing /\ board' = board
    BY <1>a
  <2>6. CASE dual_ends = TRUE
    <3>1. dual_ends' = TRUE
      BY <2>4, <2>6, Zenon
    <3>2. op'.do = "toggle" => cfg'.qspi \/ cfg'.ddr
      BY <2>1, <2>2, <2>3
    <3> QED BY <3>1, <3>2
  <2>7. CASE dual_ends = FALSE
    <3>1. ~(doing = "0" /\ board = "hx8k")
      BY <2>1, <2>7
    <3>2. op'.do = "toggle" => cfg'.qspi
      BY <2>1, <2>2, <2>3, <2>7
    <3> QED BY <2>5, <3>1, <3>2
  <2> QED BY <2>2, <2>6, <2>7
<1> QED BY <1>a, <1>b, <1>1, <1>2, <1>3 DEF WidthInv

\* While the same operation runs, what the firmware counts on depends only on the
\* configuration and on the registers of the chip.
LEMMA SameOperation ==
  ASSUME MemoryInv, DummyInv, FirmwareType, CommandInv,
         UNCHANGED <<board, dual_ends, doing, pc, bad_ram>>,
         cfg'.ddr = cfg.ddr, cfg'.qspi = cfg.qspi, cfg'.cont = cfg.cont, cfg'.dummy = cfg.dummy,
         worker # "give back", worker' \in {"off", "take", "wren", "transfer"},
         rep' \in 1 .. REPS, reply' \in {"none", "read"},
         flash'.latency = flash.latency, flash'.qe = flash.qe
  PROVE  DummyInv' /\ FirmwareType' /\ CommandInv'
<1>1. /\ board' = board /\ dual_ends' = dual_ends /\ doing' = doing /\ pc' = pc
      /\ bad_ram' = bad_ram /\ worker # "give back" /\ worker' # "give back"
  OBVIOUS
<1>2. op' = op /\ Text' = Text /\ ReadCommand' = ReadCommand
  BY <1>1 DEF op, Text, ReadCommand
<1>3. DummyInv'
  <2>1. Latency(ReadCommand)' = Latency(ReadCommand)
    BY <1>1, <1>2 DEF Latency
  <2> QED BY <1>1, <1>2, <2>1 DEF DummyInv, Pending, WritesLatency
<1>4. FirmwareType'
  BY <1>1, <1>2 DEF FirmwareType
<1>5. BootInv' /\ HandInv'
  BY <1>1, <1>2 DEF CommandInv, BootInv, HandInv, WritesLatency, ReadsAny
<1>6. WidthInv'
  BY <1>1, WidthStands DEF CommandInv
<1>7. PassedInv'
  BY <1>1, <1>2 DEF CommandInv, PassedInv
<1> QED BY <1>3, <1>4, <1>5, <1>6, <1>7 DEF CommandInv

LEMMA FirmwareStands ==
  ASSUME MemoryInv, DummyInv, FirmwareType, WorkerInv, CommandInv, cfg.en,
         UNCHANGED <<cfg, board, dual_ends, fwVars>>,
         flash'.latency = flash.latency, flash'.qe = flash.qe
  PROVE  DummyInv' /\ FirmwareType' /\ CommandInv'
<1>1. worker \in {"off", "take"}
  BY DEF WorkerInv
<1> QED BY <1>1, SameOperation DEF fwVars, FirmwareType

\* While the firmware runs by hand the controller is off, or reads one word ahead.
LEMMA WorkerStands ==
  ASSUME WorkerInv, UNCHANGED <<cfg, board, valid, fwVars>>, cfg.en,
         state = "data" /\ valid = None => state' = "data"
  PROVE  WorkerInv'
<1>1. /\ cfg' = cfg /\ board' = board /\ doing' = doing /\ pc' = pc
      /\ worker' = worker /\ valid' = valid
  BY DEF fwVars
<1>2. op' = op
  BY <1>1 DEF op
<1>3. worker \in {"off", "take"}
  BY DEF WorkerInv
<1> QED BY <1>1, <1>2, <1>3 DEF WorkerInv

LEMMA WakeStep ==
  ASSUME PicoInv, Wake, UNCHANGED fwVars
  PROVE  PicoInv'
<1> USE DEF PicoInv
<1>1. /\ cfg.en /\ state = "wake" /\ state' = "release"
      /\ cfg' = cfg /\ valid' = valid /\ board' = board /\ dual_ends' = dual_ends
      /\ rd_valid' = rd_valid /\ rd_addr' = rd_addr /\ rd_wait' = rd_wait /\ rd_inc' = rd_inc
      /\ rdata' = rdata
  BY DEF Wake, readVars
<1>2. flash' = [flash EXCEPT !.xip = "none"]
  <2>1. flash.xip = "BB" => dual_ends
    BY DEF MemoryInv, WakeInv
  <2> QED BY <2>1 DEF Wake, XipAfter
<1>3. flash \in FlashType /\ dual_ends \in BOOLEAN
  BY DEF MemoryInv, ChipType
<1>4. /\ flash' \in FlashType /\ flash'.xip = "none" /\ flash'.latency = flash.latency
      /\ flash'.qe = flash.qe
  BY <1>2, <1>3 DEF FlashType
<1>5. MemTypeOK' /\ ChipType'
  <2>1. MemTypeOK /\ ChipType
    BY DEF MemoryInv
  <2> QED BY <1>1, <1>4, <2>1 DEF MemTypeOK, ChipType, FlashType
<1>6. WakeInv' /\ ContInv'
  <2>1. ReadCommand' = ReadCommand
    BY <1>1 DEF ReadCommand
  <2> QED BY <1>1, <1>4, <2>1 DEF MemoryInv, WakeInv, ContInv
<1>7. BurstInv' /\ WordsInv'
  BY <1>1 DEF MemoryInv, BurstInv, WordsInv
<1>8. DummyInv' /\ FirmwareType' /\ CommandInv'
  BY <1>1, <1>4, FirmwareStands
<1>9. WorkerInv'
  BY <1>1, WorkerStands
<1> QED BY <1>5, <1>6, <1>7, <1>8, <1>9 DEF MemoryInv

LEMMA ReleaseStep ==
  ASSUME PicoInv, Release, UNCHANGED fwVars
  PROVE  PicoInv'
<1> USE DEF PicoInv
<1>1. /\ cfg.en /\ state = "release" /\ state' = "command"
      /\ cfg' = cfg /\ valid' = valid /\ board' = board /\ dual_ends' = dual_ends
      /\ rd_valid' = rd_valid /\ rd_addr' = rd_addr /\ rd_wait' = rd_wait /\ rd_inc' = rd_inc
      /\ rdata' = rdata
  BY DEF Release, readVars
<1>2. flash.xip = "none" /\ flash' = [flash EXCEPT !.powered = TRUE]
  <2>1. flash.xip = "none"
    BY <1>1 DEF MemoryInv, WakeInv
  <2> QED BY <2>1 DEF Release
<1>3. flash \in FlashType /\ dual_ends \in BOOLEAN
  BY DEF MemoryInv, ChipType
<1>4. /\ flash' \in FlashType /\ flash'.xip = "none" /\ flash'.powered
      /\ flash'.latency = flash.latency /\ flash'.qe = flash.qe
  BY <1>2, <1>3 DEF FlashType
<1>5. MemTypeOK' /\ ChipType'
  <2>1. MemTypeOK /\ ChipType
    BY DEF MemoryInv
  <2> QED BY <1>1, <1>4, <2>1 DEF MemTypeOK, ChipType, FlashType
<1>6. WakeInv' /\ ContInv'
  <2>1. ReadCommand' = ReadCommand
    BY <1>1 DEF ReadCommand
  <2> QED BY <1>1, <1>4, <2>1 DEF MemoryInv, WakeInv, ContInv
<1>7. BurstInv' /\ WordsInv'
  BY <1>1 DEF MemoryInv, BurstInv, WordsInv
<1>8. DummyInv' /\ FirmwareType' /\ CommandInv'
  BY <1>1, <1>4, FirmwareStands
<1>9. WorkerInv'
  BY <1>1, WorkerStands
<1> QED BY <1>5, <1>6, <1>7, <1>8, <1>9 DEF MemoryInv

LEMMA CommandStep ==
  ASSUME PicoInv, Command, UNCHANGED fwVars
  PROVE  PicoInv'
<1> USE DEF PicoInv
<1>1. /\ cfg.en /\ state = "command" /\ state' = "address"
      /\ cfg' = cfg /\ valid' = valid /\ board' = board /\ dual_ends' = dual_ends
      /\ rd_valid' = rd_valid /\ rd_addr' = rd_addr /\ rd_wait' = rd_wait /\ rd_inc' = FALSE
      /\ rdata' = rdata
  BY DEF Command
<1>2. flash.xip = "none" /\ flash.powered
  BY <1>1 DEF MemoryInv, WakeInv
\* Quad reads are only configured once the chip has its quad flag.
<1>3. TakeCommand(ReadCommand) = ReadCommand
  <2>1. ReadCommand \in {"EB", "ED"} => flash.qe
    BY DEF CommandInv, BootInv
  <2> QED BY <1>2, <2>1 DEF TakeCommand, Heard
<1>4. flash' = [flash EXCEPT !.cmd = ReadCommand]
  BY <1>3 DEF Command
<1>5. flash \in FlashType /\ dual_ends \in BOOLEAN
  BY DEF MemoryInv, ChipType
<1>6. /\ flash' \in FlashType /\ flash'.xip = "none" /\ flash'.powered /\ flash'.cmd = ReadCommand
      /\ flash'.latency = flash.latency /\ flash'.qe = flash.qe
  BY <1>2, <1>4, <1>5, Widths DEF FlashType
<1>7. MemTypeOK' /\ ChipType'
  <2>1. MemTypeOK /\ ChipType
    BY DEF MemoryInv
  <2> QED BY <1>1, <1>6, <2>1 DEF MemTypeOK, ChipType, FlashType
<1>8. ReadCommand' = ReadCommand
  BY <1>1 DEF ReadCommand
<1>9. WakeInv' /\ ContInv'
  BY <1>1, <1>6, <1>8 DEF MemoryInv, WakeInv, ContInv
<1>10. BurstInv' /\ WordsInv'
  BY <1>1, <1>6, <1>8 DEF MemoryInv, BurstInv, WordsInv
<1>11. DummyInv' /\ FirmwareType' /\ CommandInv'
  BY <1>1, <1>6, FirmwareStands
<1>12. WorkerInv'
  BY <1>1, WorkerStands
<1> QED BY <1>7, <1>9, <1>10, <1>11, <1>12 DEF MemoryInv

LEMMA AddressStep ==
  ASSUME PicoInv, Address, UNCHANGED fwVars
  PROVE  PicoInv'
<1> USE DEF PicoInv
<1>1. /\ cfg.en /\ state = "address" /\ state' = "data" /\ valid # None
      /\ cfg' = cfg /\ valid' = valid /\ board' = board /\ dual_ends' = dual_ends
      /\ rd_valid' = rd_valid /\ rd_addr' = rd_addr /\ rd_wait' = rd_wait /\ rd_inc' = rd_inc
      /\ rdata' = rdata
  BY DEF Address, readVars
<1> DEFINE taken == IF flash.cmd # "closed" THEN flash.cmd
                    ELSE IF flash.xip # "none" THEN flash.xip ELSE "junk"
           agree == taken = ReadCommand /\ (taken # "03" => Latency(taken) = cfg.dummy)
\* Both ends are at the same command.
<1>2. taken = ReadCommand
  BY <1>1, Widths DEF MemoryInv, BurstInv
\* And at the same number of dummy clocks, since nothing reads with dummy clocks while
\* they are being changed.
<1>3. ReadCommand # "03" => Latency(ReadCommand) = cfg.dummy
  <2> SUFFICES ASSUME ReadCommand # "03"
               PROVE  Latency(ReadCommand) = cfg.dummy
    OBVIOUS
  <2>1. CASE board = "hx8k"
    <3>1. ~Pending
      BY DEF Pending, CommandInv, HandInv
    <3> QED BY <2>1, <3>1 DEF DummyInv, Latency
  <2>2. CASE board = "ice"
    BY <2>2 DEF DummyInv
  <2> QED BY <2>1, <2>2 DEF MemoryInv, MemTypeOK
<1>4. agree
  BY <1>2, <1>3
<1>5. (CASE taken # ReadCommand \/ taken = "03" -> flash.xip
         [] OTHER -> IF cfg.cont THEN taken ELSE "none") = ChipMode
  <2>1. CASE ReadCommand = "03"
    <3>1. ~cfg.cont
      BY <2>1 DEF MemoryInv, ContInv
    <3>2. flash.xip = "none"
      BY <1>1, <3>1 DEF MemoryInv, BurstInv
    <3> HIDE DEF taken
    <3> QED BY <1>2, <2>1, <3>1, <3>2 DEF ChipMode
  <2>2. CASE ReadCommand # "03"
    <3> HIDE DEF taken
    <3> QED BY <1>2, <2>2 DEF ChipMode
  <2> QED BY <2>1, <2>2
<1>6. flash' = [flash EXCEPT !.cmd = taken,
                             !.next = IF agree THEN valid ELSE Junk,
                             !.xip = CASE taken # ReadCommand \/ taken = "03" -> @
                                       [] OTHER -> IF cfg.cont THEN taken ELSE "none"]
  BY DEF Address
<1> HIDE DEF taken, agree
<1>7. flash \in FlashType /\ dual_ends \in BOOLEAN /\ ChipMode \in {"none", "BB", "EB", "ED"}
      /\ valid \in 0 .. Junk
  <2>1. ChipMode \in {"none", "BB", "EB", "ED"}
    BY Widths DEF ChipMode, MemoryInv, ContInv
  <2>2. valid \in 0 .. Junk
    BY <1>1, WordsAssumption DEF MemoryInv, MemTypeOK, Junk
  <2> QED BY <2>1, <2>2 DEF MemoryInv, ChipType
<1>8. flash' = [flash EXCEPT !.cmd = ReadCommand, !.next = valid, !.xip = ChipMode]
  BY <1>2, <1>4, <1>5, <1>6
<1>9. /\ flash' \in FlashType /\ flash'.xip = ChipMode /\ flash'.powered = flash.powered
      /\ flash'.next = valid /\ flash'.latency = flash.latency /\ flash'.qe = flash.qe
  BY <1>7, <1>8, Widths DEF FlashType
<1>10. MemTypeOK' /\ ChipType'
  <2>1. MemTypeOK /\ ChipType
    BY DEF MemoryInv
  <2> QED BY <1>1, <1>9, <2>1 DEF MemTypeOK, ChipType, FlashType
<1>11. ReadCommand' = ReadCommand /\ ChipMode' = ChipMode
  BY <1>1 DEF ReadCommand, ChipMode
<1>12. WakeInv' /\ ContInv'
  BY <1>1, <1>9, <1>11 DEF MemoryInv, WakeInv, ContInv, ChipMode
<1>13. BurstInv' /\ WordsInv'
  BY <1>1, <1>9, <1>11 DEF MemoryInv, BurstInv, WordsInv, None
<1>14. DummyInv' /\ FirmwareType' /\ CommandInv'
  BY <1>1, <1>9, FirmwareStands
<1>15. WorkerInv'
  BY <1>1, WorkerStands
<1> QED BY <1>10, <1>12, <1>13, <1>14, <1>15 DEF MemoryInv

LEMMA DataStep ==
  ASSUME PicoInv, Data, UNCHANGED fwVars
  PROVE  PicoInv'
<1> USE DEF PicoInv
<1>1. /\ cfg.en /\ state = "data" /\ state' = "data"
      /\ cfg' = cfg /\ valid' = valid /\ board' = board /\ dual_ends' = dual_ends
      /\ rdata' = flash.next /\ rd_valid' = TRUE
      /\ rd_addr' = (IF rd_inc THEN Plus4(rd_addr) ELSE valid)
      /\ rd_wait' = rd_inc /\ rd_inc' = TRUE
      /\ flash' = [flash EXCEPT !.next = IF @ = Junk THEN Junk ELSE Plus4(@)]
  BY DEF Data
<1>2. /\ flash \in FlashType /\ dual_ends \in BOOLEAN /\ rd_addr \in 0 .. Words - 1
      /\ valid \in (0 .. Words - 1) \cup {None} /\ rd_inc \in BOOLEAN
  BY DEF MemoryInv, ChipType, MemTypeOK
\* The word that comes is the one at the address it is filed under.
<1>3. rd_addr' \in 0 .. Words - 1 /\ flash.next = rd_addr'
  <2>1. CASE rd_inc
    BY <1>1, <1>2, <2>1, Plus4Type DEF MemoryInv, WordsInv
  <2>2. CASE ~rd_inc
    BY <1>1, <1>2, <2>2 DEF MemoryInv, WordsInv
  <2> QED BY <2>1, <2>2
<1>4. flash.next # Junk
  BY <1>3, WordsAssumption DEF Junk
<1>5. Plus4(flash.next) \in 0 .. Words - 1 /\ Plus4(flash.next) \in 0 .. Junk
  <2>1. Plus4(flash.next) \in 0 .. Words - 1
    BY <1>3, Plus4Type
  <2> QED BY <2>1, WordsAssumption DEF Junk
<1>6. flash' = [flash EXCEPT !.next = Plus4(flash.next)]
  BY <1>1, <1>4
<1>7. /\ flash' \in FlashType /\ flash'.next = Plus4(flash.next) /\ flash'.xip = flash.xip
      /\ flash'.powered = flash.powered /\ flash'.latency = flash.latency /\ flash'.qe = flash.qe
  BY <1>2, <1>5, <1>6 DEF FlashType
<1>8. MemTypeOK' /\ ChipType'
  <2>1. MemTypeOK /\ ChipType
    BY DEF MemoryInv
  <2>2. rdata' \in 0 .. Junk
    BY <1>1, <1>2 DEF FlashType
  <2> QED BY <1>1, <1>2, <1>3, <1>7, <2>1, <2>2 DEF MemTypeOK, ChipType, FlashType
<1>9. ReadCommand' = ReadCommand /\ ChipMode' = ChipMode
  BY <1>1 DEF ReadCommand, ChipMode
<1>10. WakeInv' /\ ContInv'
  BY <1>1, <1>7, <1>9 DEF MemoryInv, WakeInv, ContInv
<1>11. BurstInv' /\ WordsInv'
  <2>1. flash'.next = Plus4(rd_addr)' /\ rdata' = rd_addr'
    BY <1>1, <1>3, <1>7 DEF Plus4
  <2> QED BY <1>1, <1>7, <1>9, <2>1 DEF MemoryInv, BurstInv, WordsInv
<1>12. DummyInv' /\ FirmwareType' /\ CommandInv'
  BY <1>1, <1>7, FirmwareStands
<1>13. WorkerInv'
  BY <1>1, WorkerStands
<1> QED BY <1>8, <1>10, <1>11, <1>12, <1>13 DEF MemoryInv

\* The chip when a burst is closed, and with some of its registers changed.
LEMMA FlashUpdated ==
  ASSUME NEW old \in FlashType, NEW new, DOMAIN new \subseteq DOMAIN old
  PROVE  LET u == Updated(old, new)
         IN  /\ DOMAIN u = {"powered", "xip", "qe", "latency", "wel", "cmd", "next"}
             /\ u.powered = IF "powered" \in DOMAIN new THEN new.powered ELSE old.powered
             /\ u.xip = IF "xip" \in DOMAIN new THEN new.xip ELSE old.xip
             /\ u.qe = IF "qe" \in DOMAIN new THEN new.qe ELSE old.qe
             /\ u.latency = IF "latency" \in DOMAIN new THEN new.latency ELSE old.latency
             /\ u.wel = IF "wel" \in DOMAIN new THEN new.wel ELSE old.wel
             /\ u.cmd = IF "cmd" \in DOMAIN new THEN new.cmd ELSE old.cmd
             /\ u.next = IF "next" \in DOMAIN new THEN new.next ELSE old.next
             /\ u = [f \in DOMAIN u |-> u[f]]
<1>1. DOMAIN old = {"powered", "xip", "qe", "latency", "wel", "cmd", "next"}
  BY DEF FlashType
<1> QED BY <1>1 DEF Updated

LEMMA FlashClosed ==
  ASSUME flash \in FlashType
  PROVE  LET u == Updated(flash, Closed)
         IN  /\ u \in FlashType /\ u.cmd = "closed" /\ u.xip = flash.xip /\ u.powered = flash.powered
             /\ u.qe = flash.qe /\ u.latency = flash.latency /\ u.wel = flash.wel
<1> DEFINE u == Updated(flash, Closed)
<1>1. DOMAIN Closed = {"cmd", "next"} /\ Closed.cmd = "closed" /\ Closed.next = Junk
  BY DEF Closed
<1>2. DOMAIN Closed \subseteq DOMAIN flash
  BY <1>1 DEF FlashType
<1>3. /\ DOMAIN u = {"powered", "xip", "qe", "latency", "wel", "cmd", "next"}
      /\ u.powered = flash.powered /\ u.xip = flash.xip /\ u.qe = flash.qe
      /\ u.latency = flash.latency /\ u.wel = flash.wel /\ u.cmd = "closed" /\ u.next = Junk
      /\ u = [f \in DOMAIN u |-> u[f]]
  <2> HIDE DEF u
  <2> QED BY <1>1, <1>2, FlashUpdated DEF u
<1> HIDE DEF u
<1>4. Junk \in 0 .. Junk
  BY WordsAssumption DEF Junk
<1>5. u \in FlashType
  BY <1>3, <1>4 DEF FlashType
<1> QED BY <1>3, <1>5 DEF u

LEMMA JumpStep ==
  ASSUME PicoInv, JumpTo, UNCHANGED fwVars
  PROVE  PicoInv'
<1> USE DEF PicoInv
<1>1. /\ cfg.en /\ valid # None /\ rd_valid /\ state' = (IF cfg.cont THEN "address" ELSE "command")
      /\ cfg' = cfg /\ valid' = valid /\ board' = board /\ dual_ends' = dual_ends
      /\ rd_valid' = FALSE /\ rd_addr' = rd_addr /\ rd_wait' = rd_wait /\ rd_inc' = FALSE
      /\ rdata' = rdata
  BY DEF JumpTo, Jump
<1>2. state = "data" /\ flash.xip = ChipMode /\ flash.powered
  BY <1>1 DEF MemoryInv, BurstInv, WakeInv
<1>3. flash \in FlashType /\ dual_ends \in BOOLEAN
  BY DEF MemoryInv, ChipType
<1>4. flash' = Updated(flash, Closed)
  BY DEF JumpTo
<1>5. /\ flash' \in FlashType /\ flash'.xip = ChipMode /\ flash'.powered /\ flash'.cmd = "closed"
      /\ flash'.latency = flash.latency /\ flash'.qe = flash.qe
  BY <1>2, <1>3, <1>4, FlashClosed
<1>6. MemTypeOK' /\ ChipType'
  <2>1. MemTypeOK /\ ChipType
    BY DEF MemoryInv
  <2> QED BY <1>1, <1>5, <2>1 DEF MemTypeOK, ChipType, FlashType
<1>7. ReadCommand' = ReadCommand /\ ChipMode' = ChipMode
  BY <1>1 DEF ReadCommand, ChipMode
<1>8. WakeInv' /\ ContInv'
  BY <1>1, <1>2, <1>5, <1>7 DEF MemoryInv, WakeInv, ContInv, ChipMode
<1>9. BurstInv' /\ WordsInv'
  BY <1>1, <1>5, <1>7 DEF MemoryInv, BurstInv, WordsInv, ChipMode
<1>10. DummyInv' /\ FirmwareType' /\ CommandInv'
  BY <1>1, <1>5, FirmwareStands
<1>11. WorkerInv'
  BY <1>1, WorkerStands
<1> QED BY <1>6, <1>8, <1>9, <1>10, <1>11 DEF MemoryInv

LEMMA FetchStep ==
  ASSUME PicoInv, Fetch
  PROVE  PicoInv'
<1> USE DEF PicoInv
<1>1. /\ worker = "off" /\ valid = None /\ valid' \in 0 .. Words - 1 /\ rd_wait' = FALSE
      /\ cfg' = cfg /\ state' = state /\ rd_valid' = rd_valid /\ rd_addr' = rd_addr
      /\ rd_inc' = rd_inc /\ rdata' = rdata /\ flash' = flash /\ board' = board
      /\ dual_ends' = dual_ends /\ UNCHANGED fwVars
  BY DEF Fetch, Ask
<1>2. valid' # None
  BY <1>1, WordsAssumption DEF None
<1>3. ReadCommand' = ReadCommand /\ ChipMode' = ChipMode
  BY <1>1 DEF ReadCommand, ChipMode
<1>4. MemTypeOK' /\ ChipType'
  <2>0. MemTypeOK /\ ChipType
    BY DEF MemoryInv
  <2>1. ChipType'
    BY <1>1, <2>0 DEF ChipType, FlashType, Junk
  <2>2. MemTypeOK'
    <3>1. /\ valid' \in (0 .. Words - 1) \cup {None} /\ rd_wait' \in BOOLEAN
          /\ cfg' = cfg /\ state' = state /\ rd_valid' = rd_valid /\ rd_addr' = rd_addr
          /\ rd_inc' = rd_inc /\ rdata' = rdata /\ flash' = flash /\ board' = board
      BY <1>1
    <3> QED BY <2>0, <3>1 DEF MemTypeOK
  <2> QED BY <2>1, <2>2
<1>8. WakeInv' /\ ContInv' /\ BurstInv'
  BY <1>1, <1>3 DEF MemoryInv, WakeInv, ContInv, BurstInv
<1>5. WordsInv'
  <2>1. Plus4(rd_addr)' = Plus4(rd_addr) /\ None' = None
    BY <1>1 DEF Plus4, None
  <2> QED BY <1>1, <1>2, <2>1 DEF MemoryInv, WordsInv
<1>6. DummyInv' /\ FirmwareType' /\ CommandInv'
  <2>1. cfg.en
    BY <1>1 DEF WorkerInv
  <2> QED BY <1>1, <2>1, FirmwareStands
<1>7. WorkerInv'
  <2>1. worker' = worker
    BY <1>1 DEF fwVars
  <2> QED BY <1>1, <2>1 DEF WorkerInv
<1> QED BY <1>4, <1>5, <1>6, <1>7, <1>8 DEF MemoryInv

-------------------------------------------------------------------------------
(* From one operation to the next *)

LEMMA FirstOps ==
  ASSUME NEW b \in Boards, NEW c \in Names \ {"boot"}
  PROVE  LET o == Program[b][c][1]
         IN  /\ 1 \in 1 .. Len(Program[b][c])
             /\ o.do = "flashio" => c \in HandSent(b)
             /\ ~WritesLatency(o) /\ ~ReadsAny(o) /\ o.do # "passed"
             /\ o.do = "toggle" => c = "7"
<1>1. 1 \in 1 .. Len(Program[b][c])
  <2>1. Len(Program[b][c]) \in Nat \ {0}
    BY ProgramLength
  <2> QED BY <2>1
<1> DEFINE s == Program[b][c]
<1>2. /\ s[1].do = "flashio" => c \in {"boot"} \cup HandSent(b) \/ WritesLatency(s[1]) \/ ReadsAny(s[1])
      /\ ~WritesLatency(s[1]) /\ (ReadsAny(s[1]) => c = "boot") /\ s[1].do # "passed"
  BY <1>1, PlacedFacts
<1>3. s[1].do = "toggle" => c = "7"
  BY <1>1, OpFacts
<1> QED BY <1>1, <1>2, <1>3

\* Dummy clocks are the same at both ends.
Agreed ==
  /\ board = "hx8k" => flash.latency = cfg.dummy
  /\ board = "ice" /\ ReadCommand # "03" => Latency(ReadCommand) = cfg.dummy

\* A command begins.
LEMMA CommandBegins ==
  ASSUME board \in Boards, board' = board, NEW c \in Names \ {"boot"}, doing' = c, pc' = 1,
         rep' \in 1 .. REPS, reply' \in {"none", "read"}, worker' = "off",
         bad_ram' \in {"none", "zeros", "address", "words"}, flash'.qe, Agreed',
         c \in HandSent(board) => ~cfg'.cont,
         c = "0" /\ board = "hx8k" => dual_ends',
         c = "7" => cfg'.qspi \/ (cfg'.ddr /\ dual_ends')
  PROVE  DummyInv' /\ FirmwareType' /\ CommandInv'
<1> DEFINE o == Program[board][c][1]
<1>1. /\ 1 \in 1 .. Len(Program[board][c])
      /\ o.do = "flashio" => c \in HandSent(board)
      /\ ~WritesLatency(o) /\ ~ReadsAny(o) /\ o.do # "passed"
      /\ o.do = "toggle" => c = "7"
  BY FirstOps
<1>2. op' = o /\ Text' = Program[board][c]
  BY DEF op, Text
<1> HIDE DEF o
<1>3. ~WritesLatency(op)' /\ ~ReadsAny(op)'
  BY <1>1, <1>2 DEF WritesLatency, ReadsAny
<1>4. DummyInv'
  BY <1>3 DEF DummyInv, Agreed
<1>5. FirmwareType'
  BY <1>1, <1>2 DEF FirmwareType, Names
<1>6. BootInv'
  BY DEF BootInv
<1>7. HandInv'
  BY <1>1, <1>2, <1>3 DEF HandInv
<1>8. WidthInv'
  BY <1>1, <1>2 DEF WidthInv
<1>9. PassedInv'
  BY <1>1, <1>2 DEF PassedInv
<1> QED BY <1>4, <1>5, <1>6, <1>7, <1>8, <1>9 DEF CommandInv

\* What an operation leaves for the next one.
Left ==
  /\ bad_ram' = bad_ram /\ (op.do = "bytes" => bad_ram = "none")
  /\ doing = "boot" =>
       flash'.latency = LATENCY /\ ReadCommand' = "03" /\ ~cfg'.cont /\ (pc >= 6 => flash'.qe)
  /\ doing # "boot" => flash'.qe
  /\ doing \in HandSent(board) => ~cfg'.cont
  /\ SetsLatency(board, op) => ReadCommand' = "03" /\ ~cfg'.cont /\ cfg'.dummy = op.arg.dummy
  /\ WritesLatency(op) => ~cfg'.cont /\ flash'.latency = op.arg.effect.latency
  /\ ~SetsLatency(board, op) => Agreed'
  /\ SetsWidth(op) => cfg'.qspi = op.arg.qspi
  /\ op.do # "set" => cfg'.qspi = cfg.qspi

LEMMA AfterOperation ==
  ASSUME FirmwareType, WidthInv, board \in Boards, board' = board, dual_ends' = dual_ends,
         Advance, worker' = "off", Left
  PROVE  DummyInv' /\ FirmwareType' /\ CommandInv'
<1> doing \in Names /\ pc \in 1 .. Len(Text) /\ Len(Text) \in Nat \ {0}
  BY ProgramLength DEF FirmwareType, Names, Text
<1> bad_ram' \in {"none", "zeros", "address", "words"} /\ rep \in 1 .. REPS
  BY DEF Left, FirmwareType
<1>0. doing = "boot" => Len(Text) >= 6
  BY OpFacts DEF Text
<1>1. CASE pc < Len(Text)
  <2>1. pc' = pc + 1 /\ doing' = doing /\ rep' = rep /\ reply' = reply
    BY <1>1 DEF Advance, Text
  <2> DEFINE n == Text[pc+1]
  <2>2. pc + 1 \in 1 .. Len(Text)
    BY <1>1
  <2>3. op' = n /\ Text' = Text /\ op = Text[pc]
    BY <2>1 DEF op, Text
  <2>4. n.do # "toggle"
    <3>1. n.do = "toggle" => pc + 1 = 1
      BY <2>2, OpFacts DEF Text
    <3> QED BY <3>1
  <2> DEFINE hand == doing \in {"boot"} \cup HandSent(board)
  <2>5. (pc + 1) - 1 = pc /\ pc + 1 > 1
    OBVIOUS
  <2>6. /\ n.do = "flashio" => hand \/ WritesLatency(n) \/ ReadsAny(n)
        /\ WritesLatency(n) => /\ ~hand /\ SetsLatency(board, op)
                               /\ op.arg.dummy = n.arg.effect.latency
        /\ ReadsAny(n) => doing = "boot" \/ /\ ~hand /\ WritesLatency(op)
                                            /\ op.arg.effect.latency = LATENCY
        /\ n.do = "passed" => op.do = "bytes"
    <3>1. /\ n.do = "flashio" => hand \/ WritesLatency(n) \/ ReadsAny(n)
          /\ WritesLatency(n) => /\ ~hand /\ SetsLatency(board, Text[(pc + 1) - 1])
                                 /\ Text[(pc + 1) - 1].arg.dummy = n.arg.effect.latency
          /\ ReadsAny(n) => doing = "boot" \/ /\ ~hand /\ WritesLatency(Text[(pc + 1) - 1])
                                              /\ Text[(pc + 1) - 1].arg.effect.latency = LATENCY
          /\ n.do = "passed" => Text[(pc + 1) - 1].do = "bytes"
      BY <2>2, PlacedFacts, SMTT(30) DEF Text
    <3> HIDE DEF n, hand
    <3> QED BY <2>3, <2>5, <3>1
  <2>7. SetsLatency(board, op) => WritesLatency(n)
    BY <2>3, PlacedFacts DEF Text
  <2> HIDE DEF n
  <2>8. DummyInv'
    <3>1. ~Pending' => Agreed'
      <4>1. Pending' <=> WritesLatency(n)
        BY <2>3 DEF Pending, WritesLatency
      <4> QED BY <2>7, <4>1 DEF Left
    <3>2. board = "ice" => ~SetsLatency(board, op)
      BY DEF SetsLatency
    <3> QED BY <3>1, <3>2 DEF DummyInv, Agreed, Left
  <2>9. FirmwareType'
    BY <2>1, <2>2, <2>3 DEF FirmwareType
  <2>10. BootInv'
    BY <2>1 DEF BootInv, Left
  <2>11. HandInv'
    <3>1. hand => ~cfg'.cont
      BY DEF Left
    <3>2. op'.do = "flashio" => ~cfg'.cont
      BY <2>3, <2>6, <3>1 DEF Left
    <3>3. WritesLatency(op)' => ReadCommand' = "03" /\ cfg'.dummy = op'.arg.effect.latency
      <4>1. WritesLatency(op)' <=> WritesLatency(n)
        BY <2>3 DEF WritesLatency
      <4> QED BY <2>3, <2>6, <4>1 DEF Left
    <3>4. ReadsAny(op)' => flash'.latency = LATENCY
      <4>1. ReadsAny(op)' <=> ReadsAny(n)
        BY <2>3 DEF ReadsAny
      <4> QED BY <2>6, <4>1 DEF Left
    <3> QED BY <2>1, <3>1, <3>2, <3>3, <3>4 DEF HandInv
  <2>12. WidthInv'
    <3>1. ASSUME NEW i \in 1 .. pc, SetsWidth(Text[i]), \A m \in i + 1 .. pc : Text[m].do # "set"
          PROVE  cfg'.qspi = Text[i].arg.qspi
      <4>1. CASE i = pc
        BY <2>3, <3>1, <4>1 DEF Left
      <4>2. CASE i # pc
        <5>1. i \in 1 .. pc - 1 /\ pc \in i + 1 .. pc /\ \A m \in i + 1 .. pc - 1 : m \in i + 1 .. pc
          BY <4>2
        <5>2. op.do # "set" /\ \A m \in i + 1 .. pc - 1 : Text[m].do # "set"
          BY <2>3, <3>1, <5>1
        <5>3. cfg.qspi = Text[i].arg.qspi
          BY <3>1, <5>1, <5>2 DEF WidthInv
        <5> QED BY <5>2, <5>3 DEF Left
      <4> QED BY <4>1, <4>2
    <3>2. pc' - 1 = pc
      BY <2>1
    <3>3. doing' = "0" /\ board' = "hx8k" => dual_ends'
      BY <2>1 DEF WidthInv
    <3>4. op'.do # "toggle"
      BY <2>3, <2>4
    <3>5. \A i \in 1 .. pc' - 1 :
            SetsWidth(Text[i])' /\ (\A m \in i + 1 .. pc' - 1 : Text'[m].do # "set") =>
              cfg'.qspi = Text'[i].arg.qspi
      BY <2>3, <3>1, <3>2 DEF SetsWidth
    <3> QED BY <3>3, <3>4, <3>5 DEF WidthInv
  <2>13. PassedInv'
    BY <2>3, <2>6 DEF PassedInv, Left
  <2> QED BY <2>8, <2>9, <2>10, <2>11, <2>12, <2>13 DEF CommandInv
<1>2. CASE pc >= Len(Text)
  <2>1. doing' = "menu" /\ pc' = 1 /\ rep' = REPS /\ reply' = "none"
    BY <1>2 DEF Advance, Finish, Text
  <2>2. pc = Len(Text)
    BY <1>2
  <2>3. ~SetsLatency(board, op)
    <3>1. SetsLatency(board, Text[pc]) => pc < Len(Text)
      BY PlacedFacts DEF Text
    <3> QED BY <1>2, <3>1 DEF op, Text
  <2>4. flash'.qe /\ Agreed'
    BY <1>0, <2>2, <2>3 DEF Left
  <2>5. "menu" \in Names \ {"boot"} /\ "menu" \notin HandSent(board)
    BY DEF Names, HandSent
  <2>6. rep' \in 1 .. REPS
    BY <2>1, CountAssumption
  <2> QED BY <2>1, <2>4, <2>5, <2>6, CommandBegins
<1> QED BY <1>1, <1>2

-------------------------------------------------------------------------------
(* Steps of the firmware: operations that were just fetched *)

\* An instruction can be taken only when its word has come, in the middle of a burst.
LEMMA Taken ==
  ASSUME PicoInv, Ready
  PROVE  state = "data" /\ rd_inc /\ rdata = valid
<1>1. rd_valid /\ valid = rd_addr
  BY DEF Ready
<1>2. state = "data"
  BY <1>1 DEF PicoInv, MemoryInv, BurstInv
<1> QED BY <1>1, <1>2 DEF PicoInv, MemoryInv, WordsInv

LEMMA FetchedStep ==
  ASSUME PicoInv, Fetched
  PROVE  /\ MemoryInv' /\ state = "data" /\ state' = "data" /\ valid' = None
         /\ cfg' = cfg /\ flash' = flash /\ board' = board /\ dual_ends' = dual_ends
<1>1. /\ Ready /\ valid' = None /\ rd_wait' = FALSE
      /\ cfg' = cfg /\ state' = state /\ rd_valid' = rd_valid /\ rd_addr' = rd_addr
      /\ rd_inc' = rd_inc /\ rdata' = rdata /\ flash' = flash /\ board' = board
      /\ dual_ends' = dual_ends
  BY DEF Fetched, Take
<1>2. state = "data" /\ rd_inc
  BY <1>1, Taken
<1>3. ReadCommand' = ReadCommand /\ ChipMode' = ChipMode
  BY <1>1 DEF ReadCommand, ChipMode
<1>4. MemTypeOK' /\ ChipType'
  <2>0. MemTypeOK /\ ChipType
    BY DEF PicoInv, MemoryInv
  <2>1. ChipType'
    BY <1>1, <2>0 DEF ChipType, FlashType, Junk
  <2>2. MemTypeOK'
    <3>1. valid' \in (0 .. Words - 1) \cup {None} /\ rd_wait' \in BOOLEAN
      BY <1>1
    <3> QED BY <1>1, <2>0, <3>1 DEF MemTypeOK
  <2> QED BY <2>1, <2>2
<1>5. WakeInv' /\ ContInv' /\ BurstInv'
  BY <1>1, <1>3 DEF PicoInv, MemoryInv, WakeInv, ContInv, BurstInv
<1>6. WordsInv'
  <2>1. Plus4(rd_addr)' = Plus4(rd_addr)
    BY <1>1 DEF Plus4
  <2> QED BY <1>1, <1>2, <2>1 DEF PicoInv, MemoryInv, WordsInv
<1> QED BY <1>1, <1>2, <1>4, <1>5, <1>6 DEF MemoryInv

\* Operations that change neither the configuration nor the chip.
LEMMA LeftAlone ==
  ASSUME PicoInv, op.do \notin {"set", "toggle", "flashio"},
         flash' = flash, cfg' = cfg, board' = board, bad_ram' = bad_ram,
         op.do = "bytes" => bad_ram = "none"
  PROVE  Left
<1>1. ReadCommand' = ReadCommand
  BY DEF ReadCommand
<1>2. ~SetsLatency(board, op) /\ ~WritesLatency(op) /\ ~SetsWidth(op)
  BY DEF SetsLatency, WritesLatency, SetsWidth
<1>3. Agreed'
  <2>1. Latency(ReadCommand)' = Latency(ReadCommand)
    BY <1>1 DEF Latency
  <2>2. ~Pending
    BY <1>2 DEF Pending
  <2> QED BY <1>1, <2>1, <2>2 DEF PicoInv, DummyInv, Agreed
<1>4. doing = "boot" /\ pc >= 6 => flash.qe
  <2>1. doing = "boot" /\ pc = 6 => op.do = "flashio"
    <3>1. board \in Boards /\ doing \in Names /\ pc \in 1 .. Len(Program[board][doing])
      BY DEF PicoInv, MemoryInv, MemTypeOK, FirmwareType, Boards, Names, Text
    <3>2. doing = "boot" /\ pc = 6 => op \in SetsQuadFlag
      BY <3>1, OpFacts DEF op
    <3> QED BY <3>2, KindsOfOps
  <2>2. pc \in Int
    <3>1. pc \in 1 .. Len(Text)
      BY DEF PicoInv, FirmwareType
    <3> QED BY <3>1
  <2>3. doing = "boot" /\ pc > 6 => flash.qe
    BY DEF PicoInv, CommandInv, BootInv
  <2> QED BY <2>1, <2>2, <2>3
<1> QED BY <1>1, <1>2, <1>3, <1>4 DEF PicoInv, CommandInv, BootInv, HandInv, Left

LEMMA FetchedOperation ==
  ASSUME PicoInv, worker = "off", Fetched, op.do \notin {"set", "toggle", "flashio"},
         op.do = "bytes" => bad_ram = "none", Advance, UNCHANGED <<worker, bad_ram>>
  PROVE  PicoInv'
<1>1. /\ MemoryInv' /\ cfg' = cfg /\ flash' = flash /\ board' = board /\ dual_ends' = dual_ends
  BY FetchedStep
<1>2. Left
  BY <1>1, LeftAlone
<1>3. DummyInv' /\ FirmwareType' /\ CommandInv'
  <2>1. board \in Boards
    BY DEF PicoInv, MemoryInv, MemTypeOK, Boards
  <2> QED BY <1>1, <1>2, <2>1, AfterOperation DEF PicoInv, CommandInv
<1>4. WorkerInv'
  BY <1>1 DEF PicoInv, WorkerInv
<1> QED BY <1>1, <1>3, <1>4 DEF PicoInv

LEMMA ShowStep ==
  ASSUME PicoInv, ShowNext
  PROVE  PicoInv'
BY FetchedOperation DEF ShowNext, Doing

\* A command ends, or another one begins.
LEMMA FetchedCommand ==
  ASSUME PicoInv, worker = "off", Fetched, op.do \in {"prompt", "words", "bytes"},
         NEW c \in Names \ {"boot"}, doing' = c, pc' = 1, rep' \in 1 .. REPS,
         reply' \in {"none", "read"}, UNCHANGED <<worker, bad_ram>>,
         c \in HandSent(board) => ~cfg.cont, c = "0" /\ board = "hx8k" => dual_ends,
         c = "7" => cfg.qspi \/ (cfg.ddr /\ dual_ends)
  PROVE  PicoInv'
<1>1. /\ MemoryInv' /\ cfg' = cfg /\ flash' = flash /\ board' = board /\ dual_ends' = dual_ends
  BY FetchedStep
<1>3. flash'.qe /\ Agreed'
  <2>1. doing # "boot"
    <3>1. board \in Boards /\ doing \in Names /\ pc \in 1 .. Len(Program[board][doing])
      BY DEF PicoInv, MemoryInv, MemTypeOK, FirmwareType, Boards, Names, Text
    <3> QED BY <3>1, OpFacts DEF op
  <2>2. Agreed
    BY DEF PicoInv, DummyInv, Agreed, Pending, WritesLatency
  <2>3. ReadCommand' = ReadCommand
    BY <1>1 DEF ReadCommand
  <2>4. Latency(ReadCommand)' = Latency(ReadCommand)
    BY <1>1, <2>3 DEF Latency
  <2> QED BY <1>1, <2>1, <2>2, <2>3, <2>4 DEF PicoInv, CommandInv, BootInv, Agreed
<1>4. DummyInv' /\ FirmwareType' /\ CommandInv'
  <2>1. board \in Boards /\ bad_ram' \in {"none", "zeros", "address", "words"}
    BY DEF PicoInv, MemoryInv, MemTypeOK, Boards, FirmwareType
  <2> QED BY <1>1, <1>3, <2>1, CommandBegins
<1>5. WorkerInv'
  BY <1>1 DEF PicoInv, WorkerInv
<1> QED BY <1>1, <1>4, <1>5 DEF PicoInv

\* The byte test sees every fault.
LEMMA ByteTest ==
  ASSUME BytesPass, bad_ram \in {"none", "zeros", "address", "words"}
  PROVE  bad_ram = "none"
<1>1. ByteRead(0) = 0 /\ ByteRead(1) = 1
  BY DEF BytesPass
<1>2. (0 \div 4) * 4 + 3 = 3
  OBVIOUS
<1>3. CASE bad_ram = "zeros"
  BY <1>1, <1>3 DEF ByteRead
<1>4. CASE bad_ram = "address"
  BY <1>1, <1>4 DEF ByteRead
<1>5. CASE bad_ram = "words"
  BY <1>1, <1>2, <1>5 DEF ByteRead
<1> QED BY <1>3, <1>4, <1>5

LEMMA MemtestStep ==
  ASSUME PicoInv, Memtest
  PROVE  PicoInv'
<1>1. worker = "off" /\ Fetched /\ UNCHANGED <<worker, bad_ram>> /\ op.do \in {"words", "bytes", "passed"}
  BY DEF Memtest, Doing
<1>2. CASE Advance /\ (op.do = "bytes" => BytesPass)
  <2>1. op.do = "bytes" => bad_ram = "none"
    BY <1>2, ByteTest DEF PicoInv, FirmwareType
  <2> QED BY <1>1, <1>2, <2>1, FetchedOperation
<1>3. CASE Finish /\ op.do \in {"words", "bytes"}
  <2>1. "menu" \in Names \ {"boot"} /\ "menu" \notin HandSent(board) /\ rep' \in 1 .. REPS
        /\ doing' = "menu" /\ pc' = 1 /\ reply' = "none"
    BY <1>3, CountAssumption DEF Names, HandSent, Finish
  <2> QED BY <1>1, <1>3, <2>1, FetchedCommand
<1> QED BY <1>1, <1>2, <1>3 DEF Memtest

LEMMA GetcharStep ==
  ASSUME PicoInv, getchar, AdmittedKeys
  PROVE  PicoInv'
<1>1. worker = "off" /\ Fetched /\ UNCHANGED <<worker, bad_ram>> /\ op.do \in {"enter", "prompt", "echo"}
  BY DEF getchar, Doing
<1>2. /\ MemoryInv' /\ cfg' = cfg /\ flash' = flash /\ board' = board /\ dual_ends' = dual_ends
  BY <1>1, FetchedStep
<1>3. WorkerInv'
  BY <1>1, <1>2 DEF PicoInv, WorkerInv
<1>t. rep \in 1 .. REPS /\ reply \in {"none", "read"}
  BY DEF PicoInv, FirmwareType
\* Nothing yet, and perhaps the prompt again.
<1>4. CASE UNCHANGED <<doing, pc>> /\ rep' \in 1 .. REPS /\ reply' = reply
  <2>1. DummyInv' /\ FirmwareType' /\ CommandInv'
    BY <1>1, <1>2, <1>4, <1>t, SameOperation DEF PicoInv
  <2> QED BY <1>2, <1>3, <2>1 DEF PicoInv
<1>5. CASE Advance
  BY <1>1, <1>5, FetchedOperation
<1>6. CASE op.do = "prompt" /\ UNCHANGED <<doing, reply>> /\ pc' = 1 /\ rep' \in 1 .. REPS
  <2>1. doing \in Names \ {"boot"} /\ doing # "7"
    <3>1. board \in Boards /\ doing \in Names /\ pc \in 1 .. Len(Program[board][doing])
      BY DEF PicoInv, MemoryInv, MemTypeOK, FirmwareType, Boards, Names, Text
    <3> QED BY <1>6, <3>1, OpFacts DEF op
  <2>2. (doing \in HandSent(board) => ~cfg.cont) /\ (doing = "0" /\ board = "hx8k" => dual_ends)
    BY DEF PicoInv, CommandInv, HandInv, WidthInv
  <2> QED BY <1>1, <1>6, <1>t, <2>1, <2>2, FetchedCommand
\* A key.
<1>7. CASE /\ op.do = "prompt" /\ UNCHANGED <<reply, rep>>
           /\ \E c \in Commands : doing' = c /\ pc' = 1
  <2>0. PICK c \in Commands : doing' = c /\ pc' = 1
    BY <1>7
  <2>1. CASE doing = c
    BY <1>6, <1>7, <1>t, <2>0, <2>1
  <2>2. CASE doing # c
    <3>1. ~Avoided(c)
      BY <1>1, <1>7, <2>0, <2>2 DEF AdmittedKeys, Typed, Doing
    <3>2. c \in Names \ {"boot"}
      BY DEF Names, Commands
    <3>3. /\ c \in HandSent(board) => ~cfg.cont
          /\ c = "0" /\ board = "hx8k" => dual_ends
          /\ c = "7" => cfg.qspi \/ (cfg.ddr /\ dual_ends)
      BY <3>1 DEF Avoided, HandSent
    <3> QED BY <1>1, <1>7, <1>t, <2>0, <3>2, <3>3, FetchedCommand
  <2> QED BY <2>1, <2>2
<1>8. rep > 1 => rep - 1 \in 1 .. REPS
  BY <1>t, CountAssumption
<1>9. REPS \in 1 .. REPS
  BY CountAssumption
<1> QED BY <1>1, <1>4, <1>5, <1>6, <1>7, <1>8, <1>9, <1>t DEF getchar

-------------------------------------------------------------------------------
(* Steps of the firmware: writes of the configuration *)

CfgType == [en : BOOLEAN, ddr : BOOLEAN, qspi : BOOLEAN, cont : BOOLEAN, dummy : 0 .. 15]

LEMMA CfgUpdated ==
  ASSUME NEW old \in CfgType, NEW new, DOMAIN new \subseteq DOMAIN old
  PROVE  LET u == Updated(old, new)
         IN  /\ DOMAIN u = {"en", "ddr", "qspi", "cont", "dummy"}
             /\ u.en = IF "en" \in DOMAIN new THEN new.en ELSE old.en
             /\ u.ddr = IF "ddr" \in DOMAIN new THEN new.ddr ELSE old.ddr
             /\ u.qspi = IF "qspi" \in DOMAIN new THEN new.qspi ELSE old.qspi
             /\ u.cont = IF "cont" \in DOMAIN new THEN new.cont ELSE old.cont
             /\ u.dummy = IF "dummy" \in DOMAIN new THEN new.dummy ELSE old.dummy
             /\ u = [f \in DOMAIN u |-> u[f]]
<1>1. DOMAIN old = {"en", "ddr", "qspi", "cont", "dummy"}
  BY DEF CfgType
<1> QED BY <1>1 DEF Updated

\* A write of the configuration starts the controller over; a chip that reads
\* continuously goes on doing so until it is woken.
LEMMA ConfigureStep ==
  ASSUME MemoryInv, NEW fields, Configure(fields), cfg' \in CfgType, ContInv',
         valid' = valid \/ valid' = None, rd_wait' \in BOOLEAN
  PROVE  /\ MemoryInv' /\ state' = "wake" /\ board' = board /\ dual_ends' = dual_ends
         /\ flash'.latency = flash.latency /\ flash'.qe = flash.qe
         /\ flash'.xip = flash.xip /\ flash'.powered = flash.powered
<1>1. /\ flash' = Updated(flash, Closed) /\ state' = "wake" /\ rd_valid' = FALSE
      /\ rd_addr' = rd_addr /\ rd_inc' = rd_inc /\ rdata' = rdata
      /\ board' = board /\ dual_ends' = dual_ends
  BY DEF Configure, SoftReset
<1>2. flash \in FlashType /\ dual_ends \in BOOLEAN
  BY DEF MemoryInv, ChipType
<1>3. /\ flash' \in FlashType /\ flash'.xip = flash.xip /\ flash'.powered = flash.powered
      /\ flash'.latency = flash.latency /\ flash'.qe = flash.qe
  BY <1>1, <1>2, FlashClosed
<1>4. MemTypeOK' /\ ChipType'
  <2>1. MemTypeOK
    BY DEF MemoryInv
  <2>2. valid' \in (0 .. Words - 1) \cup {None}
    BY <2>1 DEF MemTypeOK
  <2>3. ChipType'
    BY <1>1, <1>2, <1>3 DEF ChipType, FlashType, Junk
  <2> QED BY <1>1, <1>3, <2>1, <2>2, <2>3 DEF MemTypeOK, CfgType, FlashType
<1>5. WakeInv'
  BY <1>1, <1>3 DEF MemoryInv, WakeInv
<1>6. BurstInv' /\ WordsInv'
  BY <1>1 DEF BurstInv, WordsInv
<1> QED BY <1>1, <1>3, <1>4, <1>5, <1>6 DEF MemoryInv

\* What a setting may be.
LEMMA SettingKinds ==
  ASSUME NEW b \in Boards, NEW lines, NEW o \in Settings(b, lines)
  PROVE  LET m == o.arg
         IN  \/ /\ b = "hx8k" /\ DOMAIN m = {"ddr", "qspi", "cont"}
                /\ m.ddr \in BOOLEAN /\ m.qspi \in BOOLEAN /\ m.cont \in BOOLEAN
                /\ m.cont => (m.ddr \/ m.qspi) /\ (m.qspi \/ lines = "two")
             \/ /\ b = "hx8k" /\ DOMAIN m = {"ddr", "qspi", "cont", "dummy"}
                /\ m.ddr \in BOOLEAN /\ m.qspi \in BOOLEAN /\ m.cont \in BOOLEAN
                /\ ~m.ddr /\ ~m.qspi /\ ~m.cont /\ m.dummy \in 1 .. 15
             \/ /\ b = "ice" /\ DOMAIN m = {"ddr", "qspi", "cont", "dummy"}
                /\ m.ddr \in BOOLEAN /\ m.qspi \in BOOLEAN /\ m.cont \in BOOLEAN /\ ~m.cont
                /\ m.dummy \in {0, 4, 7} /\ (m.qspi => m.dummy = IF m.ddr THEN 7 ELSE 4)
                /\ m.ddr /\ ~m.qspi => m.dummy = 0
             \/ b = "ice" /\ m = [cont |-> TRUE]
<1> DEFINE m == o.arg
<1>1. CASE b = "hx8k"
  <2>1. m \in Modes(lines) \cup Latencies
    BY <1>1 DEF Settings
  <2>2. CASE m \in Modes(lines)
    BY <1>1, <2>2 DEF Modes
  <2>3. CASE m \in Latencies
    BY <1>1, <2>3 DEF Latencies
  <2> QED BY <2>1, <2>2, <2>3
<1>2. CASE b = "ice"
  <2>1. m \in {x \in IceModes : x.ddr /\ ~x.qspi => x.dummy = 0} \cup [cont : {TRUE}]
    BY <1>2 DEF Settings
  <2>2. CASE m \in IceModes /\ (m.ddr /\ ~m.qspi => m.dummy = 0)
    BY <1>2, <2>2 DEF IceModes
  <2>3. CASE m \in [cont : {TRUE}]
    BY <1>2, <2>3
  <2> QED BY <2>1, <2>2, <2>3
<1> QED BY <1>1, <1>2 DEF Boards

\* What holds between operations when the controller has the flash.
LEMMA OperationAt ==
  ASSUME PicoInv
  PROVE  /\ board \in Boards /\ doing \in Names /\ pc \in 1 .. Len(Program[board][doing])
         /\ op = Program[board][doing][pc] /\ Text = Program[board][doing]
         /\ cfg \in CfgType /\ flash \in FlashType
         /\ dual_ends \in BOOLEAN
BY DEF PicoInv, MemoryInv, MemTypeOK, ChipType, FirmwareType, Boards, Names, Text, op, CfgType

\* An operation that writes the configuration, and what it leaves.
LEMMA Configured ==
  ASSUME PicoInv, worker = "off", op.do \in {"set", "toggle"}, Take, NEW fields,
         Configure(fields), cfg' \in CfgType, cfg'.en = TRUE, ContInv', Left, Advance,
         UNCHANGED <<worker, bad_ram>>
  PROVE  PicoInv'
<1>1. valid' = None /\ rd_wait' \in BOOLEAN
  BY DEF Take
<1>2. MemoryInv' /\ state' = "wake" /\ board' = board /\ dual_ends' = dual_ends
  BY <1>1, ConfigureStep DEF PicoInv
<1>3. DummyInv' /\ FirmwareType' /\ CommandInv'
  BY <1>2, OperationAt, AfterOperation DEF PicoInv, CommandInv
<1>4. WorkerInv'
  BY <1>1 DEF WorkerInv
<1> QED BY <1>2, <1>3, <1>4 DEF PicoInv

\* What a setting leaves depends on the configuration only.
LEMMA SettingLeft ==
  ASSUME PicoInv, worker = "off", op.do = "set", board' = board, bad_ram' = bad_ram,
         flash'.latency = flash.latency, flash'.qe = flash.qe,
         SetsLatency(board, op) => ReadCommand' = "03" /\ ~cfg'.cont /\ cfg'.dummy = op.arg.dummy,
         ~SetsLatency(board, op) => Agreed',
         SetsWidth(op) => cfg'.qspi = op.arg.qspi
  PROVE  Left
<1>1. doing # "boot" /\ doing \notin HandSent(board)
  BY OperationAt, OpFacts DEF Written, Commands
<1>2. ~WritesLatency(op)
  BY DEF WritesLatency
<1>3. flash.qe
  BY <1>1 DEF PicoInv, CommandInv, BootInv
<1> QED BY <1>1, <1>2, <1>3 DEF Left

\* Nothing is being changed while a setting is about to run.
LEMMA AgreedNow ==
  ASSUME PicoInv, ~WritesLatency(op) \/ worker = "give back"
  PROVE  Agreed
BY DEF PicoInv, DummyInv, Pending, Agreed

LEMMA SetStep ==
  ASSUME PicoInv, worker = "off", op.do = "set", Take, Configure(op.arg), Advance,
         UNCHANGED <<worker, bad_ram>>
  PROVE  PicoInv'
<1> DEFINE m == op.arg
<1>1. /\ board \in Boards /\ doing \in Names /\ pc \in 1 .. Len(Program[board][doing])
      /\ op = Program[board][doing][pc] /\ Text = Program[board][doing] /\ cfg \in CfgType
  BY OperationAt
<1>2. op \in Settings(board, Lines(board, doing))
  BY <1>1, OpFacts
<1>3. /\ cfg' = Updated(cfg, m) /\ flash' = Updated(flash, Closed) /\ board' = board
      /\ dual_ends' = dual_ends
  BY DEF Configure
<1>4. DOMAIN cfg = {"en", "ddr", "qspi", "cont", "dummy"} /\ cfg.en = TRUE
  BY <1>1 DEF CfgType, PicoInv, WorkerInv
<1>5. flash'.latency = flash.latency /\ flash'.qe = flash.qe
  BY <1>3, OperationAt, FlashClosed
<1>6. Agreed
  BY AgreedNow DEF WritesLatency
<1>7. \/ /\ board = "hx8k" /\ DOMAIN m = {"ddr", "qspi", "cont"}
         /\ m.ddr \in BOOLEAN /\ m.qspi \in BOOLEAN /\ m.cont \in BOOLEAN
         /\ m.cont => (m.ddr \/ m.qspi) /\ (m.qspi \/ Lines(board, doing) = "two")
      \/ /\ board = "hx8k" /\ DOMAIN m = {"ddr", "qspi", "cont", "dummy"}
         /\ m.ddr \in BOOLEAN /\ m.qspi \in BOOLEAN /\ m.cont \in BOOLEAN
         /\ ~m.ddr /\ ~m.qspi /\ ~m.cont /\ m.dummy \in 1 .. 15
      \/ /\ board = "ice" /\ DOMAIN m = {"ddr", "qspi", "cont", "dummy"}
         /\ m.ddr \in BOOLEAN /\ m.qspi \in BOOLEAN /\ m.cont \in BOOLEAN /\ ~m.cont
         /\ m.dummy \in {0, 4, 7} /\ (m.qspi => m.dummy = IF m.ddr THEN 7 ELSE 4)
         /\ m.ddr /\ ~m.qspi => m.dummy = 0
      \/ board = "ice" /\ m = [cont |-> TRUE]
  BY <1>1, <1>2, SettingKinds
<1> HIDE DEF m
<1>8. DOMAIN m \subseteq DOMAIN cfg
  BY <1>4, <1>7
<1>9. /\ DOMAIN cfg' = {"en", "ddr", "qspi", "cont", "dummy"}
      /\ cfg'.en = IF "en" \in DOMAIN m THEN m.en ELSE cfg.en
      /\ cfg'.ddr = IF "ddr" \in DOMAIN m THEN m.ddr ELSE cfg.ddr
      /\ cfg'.qspi = IF "qspi" \in DOMAIN m THEN m.qspi ELSE cfg.qspi
      /\ cfg'.cont = IF "cont" \in DOMAIN m THEN m.cont ELSE cfg.cont
      /\ cfg'.dummy = IF "dummy" \in DOMAIN m THEN m.dummy ELSE cfg.dummy
      /\ cfg' = [f \in DOMAIN cfg' |-> cfg'[f]]
  BY <1>1, <1>3, <1>8, CfgUpdated
<1>10. "en" \notin DOMAIN m
  BY <1>7
<1>11. cfg'.en = TRUE
  BY <1>4, <1>9, <1>10
<1>12. ASSUME cfg'.ddr \in BOOLEAN, cfg'.qspi \in BOOLEAN, cfg'.cont \in BOOLEAN,
              cfg'.dummy \in 0 .. 15, ContInv', Left
       PROVE  PicoInv'
  <2>1. cfg' \in CfgType
    BY <1>9, <1>11, <1>12 DEF CfgType
  <2> QED BY <1>11, <1>12, <2>1, Configured DEF m
<1>13. cfg.ddr \in BOOLEAN /\ cfg.qspi \in BOOLEAN /\ cfg.cont \in BOOLEAN /\ cfg.dummy \in 0 .. 15
  BY <1>1 DEF CfgType
\* The larger board: a width, and perhaps continuous reading.
<1>14. CASE /\ board = "hx8k" /\ DOMAIN m = {"ddr", "qspi", "cont"}
            /\ m.ddr \in BOOLEAN /\ m.qspi \in BOOLEAN /\ m.cont \in BOOLEAN
            /\ m.cont => (m.ddr \/ m.qspi) /\ (m.qspi \/ Lines(board, doing) = "two")
  <2>1. cfg'.ddr = m.ddr /\ cfg'.qspi = m.qspi /\ cfg'.cont = m.cont /\ cfg'.dummy = cfg.dummy
    BY <1>9, <1>14
  <2>2. ~SetsLatency(board, op)
    BY <1>14 DEF SetsLatency, m
  <2>3. Agreed'
    BY <1>3, <1>5, <1>6, <1>14, <2>1 DEF Agreed
  <2>4. Left
    BY <1>3, <1>5, <2>1, <2>2, <2>3, SettingLeft DEF m
  <2>5. Lines(board, doing) = "two" => dual_ends'
    <3>1. doing = "0" /\ board = "hx8k" => dual_ends
      BY DEF PicoInv, CommandInv, WidthInv
    <3>2. dual_ends => dual_ends'
      BY <1>3, Zenon
    <3> QED BY <3>1, <3>2 DEF Lines
  <2>6. ContInv'
    BY <1>14, <2>1, <2>5 DEF ContInv, ReadCommand
  <2> QED BY <1>12, <1>13, <1>14, <2>1, <2>4, <2>6
\* Its latency, with single reads.
<1>15. CASE /\ board = "hx8k" /\ DOMAIN m = {"ddr", "qspi", "cont", "dummy"}
            /\ m.ddr \in BOOLEAN /\ m.qspi \in BOOLEAN /\ m.cont \in BOOLEAN
            /\ ~m.ddr /\ ~m.qspi /\ ~m.cont /\ m.dummy \in 1 .. 15
  <2>1. cfg'.ddr = m.ddr /\ cfg'.qspi = m.qspi /\ cfg'.cont = m.cont /\ cfg'.dummy = m.dummy
    BY <1>9, <1>15
  <2>2. SetsLatency(board, op)
    BY <1>15 DEF SetsLatency, m
  <2>3. ReadCommand' = "03" /\ ~cfg'.cont
    BY <1>15, <2>1 DEF ReadCommand
  <2>4. cfg'.qspi = m.qspi
    BY <1>15, <2>1
  <2>5. Left
    BY <1>3, <1>5, <2>1, <2>2, <2>3, <2>4, SettingLeft DEF m
  <2>6. ContInv'
    BY <2>3 DEF ContInv
  <2>7. /\ cfg'.ddr \in BOOLEAN /\ cfg'.qspi \in BOOLEAN /\ cfg'.cont \in BOOLEAN
        /\ cfg'.dummy \in 0 .. 15
    BY <1>15, <2>1
  <2> QED BY <1>12, <2>5, <2>6, <2>7
\* The smaller board: a width, with the latency it needs.
<1>16. CASE /\ board = "ice" /\ DOMAIN m = {"ddr", "qspi", "cont", "dummy"}
            /\ m.ddr \in BOOLEAN /\ m.qspi \in BOOLEAN /\ m.cont \in BOOLEAN /\ ~m.cont
            /\ m.dummy \in {0, 4, 7} /\ (m.qspi => m.dummy = IF m.ddr THEN 7 ELSE 4)
            /\ m.ddr /\ ~m.qspi => m.dummy = 0
  <2>1. cfg'.ddr = m.ddr /\ cfg'.qspi = m.qspi /\ cfg'.cont = m.cont /\ cfg'.dummy = m.dummy
    BY <1>9, <1>16
  <2>2. ~SetsLatency(board, op)
    BY <1>16 DEF SetsLatency
  <2>3. Agreed'
    BY <1>3, <1>16, <2>1 DEF Agreed, ReadCommand, Latency
  <2>4. Left
    BY <1>3, <1>5, <2>1, <2>2, <2>3, SettingLeft DEF m
  <2>5. ContInv'
    BY <1>16, <2>1 DEF ContInv
  <2>6. /\ cfg'.ddr \in BOOLEAN /\ cfg'.qspi \in BOOLEAN /\ cfg'.cont \in BOOLEAN
        /\ cfg'.dummy \in 0 .. 15
    BY <1>16, <2>1
  <2> QED BY <1>12, <2>4, <2>5, <2>6
\* And continuous reading, once there are four lines.
<1>17. CASE board = "ice" /\ m = [cont |-> TRUE]
  <2>1. DOMAIN m = {"cont"} /\ m.cont = TRUE
    BY <1>17
  <2>2. cfg'.ddr = cfg.ddr /\ cfg'.qspi = cfg.qspi /\ cfg'.cont = TRUE /\ cfg'.dummy = cfg.dummy
    BY <1>9, <2>1
  <2>3. ~SetsLatency(board, op) /\ ~SetsWidth(op) /\ SetsCont(op)
    BY <1>17, <2>1 DEF SetsLatency, SetsWidth, SetsCont, m
  <2>4. ReadCommand' = ReadCommand
    BY <2>2 DEF ReadCommand
  <2>5. Agreed'
    <3>1. Latency(ReadCommand)' = Latency(ReadCommand)
      BY <1>3, <1>5, <2>4 DEF Latency
    <3> QED BY <1>3, <1>5, <1>6, <2>2, <2>4, <3>1 DEF Agreed
  <2>6. Left
    BY <1>3, <1>5, <2>3, <2>5, SettingLeft
  <2>7. cfg.qspi
    <3>1. PICK i \in 1 .. pc - 1 : /\ SetsWidth(Text[i]) /\ Text[i].arg.qspi
                                   /\ \A n \in i + 1 .. pc - 1 : Text[n].do # "set"
      BY <1>1, <2>3, PlacedFacts
    <3> QED BY <3>1 DEF PicoInv, CommandInv, WidthInv
  <2>8. ContInv'
    BY <2>2, <2>7 DEF ContInv, ReadCommand
  <2> QED BY <1>12, <1>13, <2>2, <2>6, <2>8
<1> QED BY <1>7, <1>14, <1>15, <1>16, <1>17

\* Continuous reading is toggled by hand: on with two or four lines only.
LEMMA ToggleStep ==
  ASSUME PicoInv, worker = "off", op.do = "toggle", Take, Configure([cont |-> ~cfg.cont]), Advance,
         UNCHANGED <<worker, bad_ram>>
  PROVE  PicoInv'
<1> DEFINE m == [cont |-> ~cfg.cont]
<1>1. /\ board \in Boards /\ doing \in Names /\ pc \in 1 .. Len(Program[board][doing])
      /\ op = Program[board][doing][pc] /\ Text = Program[board][doing] /\ cfg \in CfgType
  BY OperationAt
<1>2. doing = "7"
  BY <1>1, OpFacts
<1>3. /\ cfg' = Updated(cfg, m) /\ flash' = Updated(flash, Closed) /\ board' = board
      /\ dual_ends' = dual_ends
  BY DEF Configure
<1>4. /\ DOMAIN cfg = {"en", "ddr", "qspi", "cont", "dummy"} /\ cfg.en = TRUE
      /\ cfg.ddr \in BOOLEAN /\ cfg.qspi \in BOOLEAN /\ cfg.dummy \in 0 .. 15
  BY <1>1 DEF CfgType, PicoInv, WorkerInv
<1>5. flash'.latency = flash.latency /\ flash'.qe = flash.qe
  BY <1>3, OperationAt, FlashClosed
<1>6. Agreed
  BY AgreedNow DEF WritesLatency
<1>7. DOMAIN m = {"cont"} /\ m.cont \in BOOLEAN
  OBVIOUS
<1> HIDE DEF m
<1>8. /\ DOMAIN cfg' = {"en", "ddr", "qspi", "cont", "dummy"}
      /\ cfg'.en = IF "en" \in DOMAIN m THEN m.en ELSE cfg.en
      /\ cfg'.ddr = IF "ddr" \in DOMAIN m THEN m.ddr ELSE cfg.ddr
      /\ cfg'.qspi = IF "qspi" \in DOMAIN m THEN m.qspi ELSE cfg.qspi
      /\ cfg'.cont = IF "cont" \in DOMAIN m THEN m.cont ELSE cfg.cont
      /\ cfg'.dummy = IF "dummy" \in DOMAIN m THEN m.dummy ELSE cfg.dummy
      /\ cfg' = [f \in DOMAIN cfg' |-> cfg'[f]]
  <2>1. DOMAIN m \subseteq DOMAIN cfg
    BY <1>4, <1>7
  <2> QED BY <1>1, <1>3, <2>1, CfgUpdated
<1>9. /\ cfg'.en = TRUE /\ cfg'.ddr = cfg.ddr /\ cfg'.qspi = cfg.qspi /\ cfg'.cont \in BOOLEAN
      /\ cfg'.dummy = cfg.dummy
  BY <1>4, <1>7, <1>8
<1>10. cfg' \in CfgType
  BY <1>4, <1>8, <1>9 DEF CfgType
<1>11. ReadCommand' = ReadCommand
  BY <1>9 DEF ReadCommand
<1>12. Agreed'
  <2>1. Latency(ReadCommand)' = Latency(ReadCommand)
    BY <1>3, <1>5, <1>11 DEF Latency
  <2> QED BY <1>3, <1>5, <1>6, <1>9, <1>11, <2>1 DEF Agreed
<1>13. Left
  <2>1. doing # "boot" /\ doing \notin HandSent(board) /\ flash.qe
    BY <1>2 DEF HandSent, PicoInv, CommandInv, BootInv
  <2>2. ~SetsLatency(board, op) /\ ~WritesLatency(op) /\ ~SetsWidth(op)
    BY DEF SetsLatency, WritesLatency, SetsWidth
  <2> QED BY <1>3, <1>5, <1>9, <1>12, <2>1, <2>2 DEF Left
<1>14. ContInv'
  <2>1. cfg.qspi \/ (cfg.ddr /\ dual_ends)
    BY DEF PicoInv, CommandInv, WidthInv
  <2>2. CASE cfg.qspi
    BY <1>9, <2>2 DEF ContInv, ReadCommand
  <2>3. CASE cfg.ddr /\ dual_ends
    <3>1. dual_ends'
      BY <1>3, <2>3, Zenon
    <3> QED BY <1>9, <2>3, <3>1 DEF ContInv, ReadCommand
  <2> QED BY <2>1, <2>2, <2>3
<1> QED BY <1>9, <1>10, <1>13, <1>14, Configured DEF m

LEMMA SpictrlStep ==
  ASSUME PicoInv, Spictrl
  PROVE  PicoInv'
<1>1. /\ worker = "off" /\ op.do \in {"set", "toggle"} /\ Take /\ Advance
      /\ UNCHANGED <<worker, bad_ram>>
  BY DEF Spictrl, Doing
<1>2. CASE op.do = "set"
  BY <1>1, <1>2, SetStep DEF Spictrl
<1>3. CASE op.do = "toggle"
  <2>1. Configure([cont |-> ~cfg.cont])
    BY <1>3 DEF Spictrl
  <2> QED BY <1>1, <1>3, <2>1, ToggleStep
<1> QED BY <1>1, <1>2, <1>3

-------------------------------------------------------------------------------
(* Steps of the firmware: commands by hand *)

\* The worker is called from a copy of it, so the controller may be left alone.
LEMMA CallStep ==
  ASSUME PicoInv, CallWorker
  PROVE  PicoInv'
<1>1. /\ worker = "off" /\ op.do = "flashio" /\ Fetched /\ worker' = "take"
      /\ UNCHANGED <<doing, pc, rep, reply, bad_ram>>
  BY DEF CallWorker, Doing
<1>2. /\ MemoryInv' /\ state' = "data" /\ valid' = None
      /\ cfg' = cfg /\ flash' = flash /\ board' = board /\ dual_ends' = dual_ends
  BY <1>1, FetchedStep
<1>3. DummyInv' /\ FirmwareType' /\ CommandInv'
  <2>1. rep' \in 1 .. REPS /\ reply' \in {"none", "read"}
    BY <1>1 DEF PicoInv, FirmwareType
  <2> QED BY <1>1, <1>2, <2>1, SameOperation DEF PicoInv
<1>4. WorkerInv'
  <2>1. op' = op /\ cfg.en = TRUE
    BY <1>1, <1>2 DEF op, PicoInv, WorkerInv
  <2> QED BY <1>1, <1>2, <2>1 DEF WorkerInv, None
<1> QED BY <1>2, <1>3, <1>4 DEF PicoInv

\* The worker takes the controller off in the middle of a burst, and so the chip is
\* awake and does not read continuously.
LEMMA TakeStep ==
  ASSUME PicoInv, TakeFlash
  PROVE  PicoInv'
<1> DEFINE m == [en |-> FALSE]
<1>1. /\ worker = "take" /\ Configure(m) /\ valid' = valid /\ rd_wait' = rd_wait
      /\ worker' = (IF op.arg.kind = "write" THEN "wren" ELSE "transfer")
      /\ UNCHANGED <<doing, pc, rep, reply, bad_ram>>
  BY DEF TakeFlash
<1>2. cfg \in CfgType
  BY OperationAt
<1>3. cfg' = Updated(cfg, m)
  BY <1>1 DEF Configure
<1>4. DOMAIN m = {"en"} /\ m.en = FALSE
  OBVIOUS
<1> HIDE DEF m
<1>5. /\ cfg'.en = FALSE /\ cfg'.ddr = cfg.ddr /\ cfg'.qspi = cfg.qspi /\ cfg'.cont = cfg.cont
      /\ cfg'.dummy = cfg.dummy /\ cfg' \in CfgType
  <2>1. DOMAIN cfg = {"en", "ddr", "qspi", "cont", "dummy"} /\ DOMAIN m \subseteq DOMAIN cfg
    BY <1>2, <1>4 DEF CfgType
  <2>2. /\ DOMAIN cfg' = {"en", "ddr", "qspi", "cont", "dummy"}
        /\ cfg'.en = IF "en" \in DOMAIN m THEN m.en ELSE cfg.en
        /\ cfg'.ddr = IF "ddr" \in DOMAIN m THEN m.ddr ELSE cfg.ddr
        /\ cfg'.qspi = IF "qspi" \in DOMAIN m THEN m.qspi ELSE cfg.qspi
        /\ cfg'.cont = IF "cont" \in DOMAIN m THEN m.cont ELSE cfg.cont
        /\ cfg'.dummy = IF "dummy" \in DOMAIN m THEN m.dummy ELSE cfg.dummy
        /\ cfg' = [f \in DOMAIN cfg' |-> cfg'[f]]
    BY <1>2, <1>3, <2>1, CfgUpdated
  <2>3. /\ cfg'.en = FALSE /\ cfg'.ddr = cfg.ddr /\ cfg'.qspi = cfg.qspi /\ cfg'.cont = cfg.cont
        /\ cfg'.dummy = cfg.dummy
    BY <1>4, <2>2
  <2> QED BY <1>2, <2>2, <2>3 DEF CfgType
<1>6. state = "data" /\ op.do = "flashio" /\ ~cfg.cont /\ valid = None
  BY <1>1 DEF PicoInv, WorkerInv, CommandInv, HandInv
<1>7. ContInv'
  BY <1>5, <1>6 DEF ContInv
<1>8. /\ MemoryInv' /\ state' = "wake" /\ board' = board /\ dual_ends' = dual_ends
      /\ flash'.latency = flash.latency /\ flash'.qe = flash.qe
      /\ flash'.xip = flash.xip /\ flash'.powered = flash.powered
  <2>1. rd_wait' \in BOOLEAN
    BY <1>1 DEF PicoInv, MemoryInv, MemTypeOK
  <2> QED BY <1>1, <1>5, <1>7, <2>1, ConfigureStep DEF PicoInv
<1>9. flash.xip = "none" /\ flash.powered
  BY <1>6 DEF PicoInv, MemoryInv, BurstInv, WakeInv, ChipMode
<1>10. DummyInv' /\ FirmwareType' /\ CommandInv'
  <2>1. rep' \in 1 .. REPS /\ reply' \in {"none", "read"}
    BY <1>1 DEF PicoInv, FirmwareType
  <2> QED BY <1>1, <1>5, <1>8, <2>1, SameOperation DEF PicoInv
<1>11. WorkerInv'
  <2>1. op' = op
    BY <1>1, <1>8 DEF op
  <2>2. /\ worker' \in {"wren", "transfer"} /\ (worker' = "transfer" => op.arg.kind # "write")
        /\ ~cfg'.en /\ valid' = None'
    BY <1>1, <1>5, <1>6 DEF None
  <2> QED BY <1>6, <1>8, <1>9, <2>1, <2>2 DEF WorkerInv
<1> QED BY <1>8, <1>10, <1>11 DEF PicoInv

\* What a command by hand changes in a chip that is awake.
Effects == {<<>>, [wel |-> TRUE], [qe |-> TRUE]} \cup {[latency |-> v] : v \in 1 .. 15}

LEMMA Registers ==
  ASSUME NEW after \in FlashType, NEW effect \in Effects
  PROVE  LET u == Updated(after, effect)
         IN  /\ u \in FlashType /\ u.xip = after.xip /\ u.powered = after.powered
             /\ u.latency = IF "latency" \in DOMAIN effect THEN effect.latency ELSE after.latency
             /\ after.qe => u.qe
             /\ effect = [wel |-> TRUE] => u.wel
             /\ effect = [qe |-> TRUE] => u.qe
<1> DEFINE u == Updated(after, effect)
<1>1. DOMAIN after = {"powered", "xip", "qe", "latency", "wel", "cmd", "next"}
  BY DEF FlashType
<1>2. \/ DOMAIN effect = {}
      \/ DOMAIN effect = {"wel"} /\ effect.wel \in BOOLEAN /\ effect.wel
      \/ DOMAIN effect = {"qe"} /\ effect.qe \in BOOLEAN /\ effect.qe
      \/ DOMAIN effect = {"latency"} /\ effect.latency \in 0 .. 15
  <2>1. CASE effect = <<>>
    BY <2>1
  <2>2. CASE effect = [wel |-> TRUE]
    BY <2>2
  <2>3. CASE effect = [qe |-> TRUE]
    BY <2>3
  <2>4. CASE \E v \in 1 .. 15 : effect = [latency |-> v]
    <3>1. PICK v \in 1 .. 15 : effect = [latency |-> v]
      BY <2>4
    <3> QED BY <3>1
  <2>5. effect = <<>> \/ effect = [wel |-> TRUE] \/ effect = [qe |-> TRUE]
        \/ \E v \in 1 .. 15 : effect = [latency |-> v]
    BY DEF Effects
  <2> QED BY <2>1, <2>2, <2>3, <2>4, <2>5
<1>3. DOMAIN [wel |-> TRUE] = {"wel"} /\ DOMAIN [qe |-> TRUE] = {"qe"}
  OBVIOUS
<1>4. (effect = [wel |-> TRUE] => DOMAIN effect = {"wel"}) /\ (effect = [qe |-> TRUE] => DOMAIN effect = {"qe"})
  BY <1>3
<1>5. DOMAIN effect \subseteq DOMAIN after
  BY <1>1, <1>2
<1>6. /\ DOMAIN u = {"powered", "xip", "qe", "latency", "wel", "cmd", "next"}
      /\ u.powered = IF "powered" \in DOMAIN effect THEN effect.powered ELSE after.powered
      /\ u.xip = IF "xip" \in DOMAIN effect THEN effect.xip ELSE after.xip
      /\ u.qe = IF "qe" \in DOMAIN effect THEN effect.qe ELSE after.qe
      /\ u.latency = IF "latency" \in DOMAIN effect THEN effect.latency ELSE after.latency
      /\ u.wel = IF "wel" \in DOMAIN effect THEN effect.wel ELSE after.wel
      /\ u.cmd = IF "cmd" \in DOMAIN effect THEN effect.cmd ELSE after.cmd
      /\ u.next = IF "next" \in DOMAIN effect THEN effect.next ELSE after.next
      /\ u = [f \in DOMAIN u |-> u[f]]
  BY <1>5, FlashUpdated
<1> HIDE DEF u
<1>7. /\ u.powered = after.powered /\ u.xip = after.xip /\ u.cmd = after.cmd /\ u.next = after.next
      /\ u.qe \in BOOLEAN /\ u.wel \in BOOLEAN /\ u.latency \in 0 .. 15
  BY <1>2, <1>6 DEF FlashType
<1>8. u \in FlashType
  BY <1>6, <1>7 DEF FlashType
<1>9. after.qe => u.qe
  BY <1>2, <1>6
<1>10. (effect = [wel |-> TRUE] => u.wel) /\ (effect = [qe |-> TRUE] => u.qe)
  BY <1>2, <1>4, <1>6
<1> QED BY <1>6, <1>7, <1>8, <1>9, <1>10 DEF u

\* Whatever is sent by hand, the chip is left awake and out of continuous reading.
LEMMA ByHand ==
  ASSUME MemoryInv, worker \in {"wren", "transfer"}, WorkerInv, NEW effect \in Effects, NEW after,
         after.xip = "none", after.qe = flash.qe, after.powered = flash.powered, after.wel \in BOOLEAN,
         after = [flash EXCEPT !.xip = "none", !.wel = after.wel],
         flash' = Updated(after, effect), UNCHANGED busVars
  PROVE  /\ MemoryInv' /\ flash'.xip = "none" /\ flash'.powered
         /\ flash'.latency = IF "latency" \in DOMAIN effect THEN effect.latency ELSE flash.latency
         /\ flash.qe => flash'.qe
         /\ effect = [wel |-> TRUE] => flash'.wel
         /\ effect = [qe |-> TRUE] => flash'.qe
<1>1. /\ cfg' = cfg /\ state' = state /\ rd_valid' = rd_valid /\ rd_addr' = rd_addr
      /\ rd_wait' = rd_wait /\ rd_inc' = rd_inc /\ rdata' = rdata /\ valid' = valid
      /\ board' = board /\ dual_ends' = dual_ends
  BY DEF busVars, readVars
<1>2. state = "wake" /\ flash.powered
  BY DEF WorkerInv
<1>3. flash \in FlashType /\ dual_ends \in BOOLEAN
  BY DEF MemoryInv, ChipType
<1>4. after \in FlashType /\ after.latency = flash.latency
  BY <1>3 DEF FlashType
<1>5. /\ flash' \in FlashType /\ flash'.xip = "none" /\ flash'.powered
      /\ flash'.latency = IF "latency" \in DOMAIN effect THEN effect.latency ELSE flash.latency
      /\ flash.qe => flash'.qe
      /\ effect = [wel |-> TRUE] => flash'.wel
      /\ effect = [qe |-> TRUE] => flash'.qe
  BY <1>2, <1>4, Registers
<1>6. MemTypeOK' /\ ChipType'
  <2>1. MemTypeOK /\ ChipType
    BY DEF MemoryInv
  <2> QED BY <1>1, <1>5, <2>1 DEF MemTypeOK, ChipType, FlashType
<1>7. WakeInv' /\ ContInv'
  <2>1. ReadCommand' = ReadCommand
    BY <1>1 DEF ReadCommand
  <2> QED BY <1>1, <1>5, <2>1 DEF MemoryInv, WakeInv, ContInv
<1>8. BurstInv' /\ WordsInv'
  BY <1>1, <1>2 DEF MemoryInv, BurstInv, WordsInv
<1> QED BY <1>5, <1>6, <1>7, <1>8 DEF MemoryInv

LEMMA EnableStep ==
  ASSUME PicoInv, WriteEnable
  PROVE  PicoInv'
<1> DEFINE effect == [wel |-> TRUE]
           after == [flash EXCEPT !.xip = "none", !.wel = @]
<1>1. /\ worker = "wren" /\ worker' = "transfer" /\ UNCHANGED busVars
      /\ UNCHANGED <<doing, pc, rep, reply, bad_ram>> /\ BitBang(1, FALSE, effect)
  BY DEF WriteEnable
<1>2. flash.xip = "none" /\ flash.powered /\ flash \in FlashType
  BY <1>1, OperationAt DEF PicoInv, WorkerInv
<1>3. flash' = Updated(after, effect)
  <2>1. flash' = Updated([flash EXCEPT !.xip = XipAfter(1), !.wel = @ /\ ~(Heard /\ FALSE)], effect)
    BY <1>1, <1>2 DEF BitBang, Heard
  <2>2. XipAfter(1) = "none"
    BY <1>2 DEF XipAfter
  <2>3. flash.wel \in BOOLEAN /\ (flash.wel /\ ~(Heard /\ FALSE)) = flash.wel
    BY <1>2 DEF FlashType
  <2>4. [flash EXCEPT !.xip = XipAfter(1), !.wel = @ /\ ~(Heard /\ FALSE)] = after
    BY <2>2, <2>3
  <2> HIDE DEF after
  <2> QED BY <2>1, <2>4
<1>4. /\ after.xip = "none" /\ after.qe = flash.qe /\ after.powered = flash.powered
      /\ after.wel \in BOOLEAN /\ after = [flash EXCEPT !.xip = "none", !.wel = after.wel]
  BY <1>2 DEF FlashType
<1>5. effect \in Effects
  BY DEF Effects
<1>6. DOMAIN effect = {"wel"}
  OBVIOUS
<1>7. MemoryInv /\ WorkerInv
  BY DEF PicoInv
<1>8. /\ MemoryInv' /\ flash'.xip = "none" /\ flash'.powered
      /\ flash'.latency = IF "latency" \in DOMAIN effect THEN effect.latency ELSE flash.latency
      /\ flash.qe => flash'.qe
      /\ effect = [wel |-> TRUE] => flash'.wel
  <2> HIDE DEF after, effect
  <2> QED BY <1>1, <1>3, <1>4, <1>5, <1>7, ByHand
<1>9. flash'.latency = flash.latency /\ flash'.wel
  BY <1>6, <1>8
<1>10. flash'.qe = flash.qe
  <2>1. DOMAIN after = {"powered", "xip", "qe", "latency", "wel", "cmd", "next"} /\ after.qe = flash.qe
    BY <1>2 DEF FlashType
  <2> HIDE DEF after, effect
  <2> QED BY <1>3, <1>6, <2>1 DEF Updated
<1> HIDE DEF after, effect
<1>11. cfg' = cfg /\ state' = state /\ valid' = valid /\ board' = board /\ dual_ends' = dual_ends
  BY <1>1 DEF busVars
<1>12. DummyInv' /\ FirmwareType' /\ CommandInv'
  <2>1. rep' \in 1 .. REPS /\ reply' \in {"none", "read"}
    BY <1>1 DEF PicoInv, FirmwareType
  <2> QED BY <1>1, <1>9, <1>10, <1>11, <2>1, SameOperation DEF PicoInv
<1>13. WorkerInv'
  <2>1. op' = op
    BY <1>1, <1>11 DEF op
  <2> QED BY <1>1, <1>7, <1>8, <1>9, <1>11, <2>1 DEF WorkerInv, None
<1> QED BY <1>8, <1>12, <1>13 DEF PicoInv

\* The transfer itself: a register that is read is read, one that is written changes,
\* and the dummy clocks at both ends are the same again.
LEMMA TransferStep ==
  ASSUME PicoInv, Transfer
  PROVE  PicoInv'
<1> DEFINE effect == op.arg.effect
           wel == flash.wel /\ op.arg.kind # "write"
           after == [flash EXCEPT !.xip = "none", !.wel = wel]
<1>1. /\ worker = "transfer" /\ worker' = "give back" /\ UNCHANGED busVars
      /\ UNCHANGED <<doing, pc, rep, bad_ram>>
      /\ BitBang(op.arg.n, op.arg.kind = "write", op.arg.effect)
      /\ reply' = IF Heard /\ (op.arg.kind = "any" => flash.latency = LATENCY)
                  THEN "read" ELSE "garbage"
  BY DEF Transfer
<1>2. /\ flash.xip = "none" /\ flash.powered /\ flash \in FlashType
      /\ op.arg.kind = "write" => flash.wel
      /\ op.do = "flashio" /\ valid = None /\ state = "wake"
  BY <1>1, OperationAt DEF PicoInv, WorkerInv
<1>3. /\ board \in Boards /\ doing \in Names /\ pc \in 1 .. Len(Program[board][doing])
      /\ op = Program[board][doing][pc] /\ Text = Program[board][doing]
  BY OperationAt
\* What it changes.
<1>4. op \in Reads \cup Writes
  BY <1>2, <1>3, OpFacts
<1>5. effect \in Effects
  <2>1. effect = <<>> \/ effect = [qe |-> TRUE] \/ \E v \in 1 .. 15 : effect = [latency |-> v]
    BY <1>4, KindsOfOps
  <2> HIDE DEF effect
  <2> QED BY <2>1 DEF Effects
<1>6. WritesLatency(op) <=> "latency" \in DOMAIN effect
  BY <1>2 DEF WritesLatency
<1>7. flash' = Updated(after, effect)
  <2>1. flash' = Updated([flash EXCEPT !.xip = XipAfter(op.arg.n),
                                       !.wel = @ /\ ~(TRUE /\ op.arg.kind = "write")], effect)
    BY <1>1, <1>2 DEF BitBang, Heard
  <2>2. XipAfter(op.arg.n) = "none"
    BY <1>2 DEF XipAfter
  <2>3. [flash EXCEPT !.xip = XipAfter(op.arg.n), !.wel = @ /\ ~(TRUE /\ op.arg.kind = "write")] = after
    BY <2>2
  <2> HIDE DEF after
  <2> QED BY <2>1, <2>3
<1>8. /\ after.xip = "none" /\ after.qe = flash.qe /\ after.powered = flash.powered
      /\ after.wel \in BOOLEAN /\ after = [flash EXCEPT !.xip = "none", !.wel = after.wel]
  BY <1>2 DEF FlashType
<1>9. MemoryInv /\ WorkerInv
  BY DEF PicoInv
<1>10. /\ MemoryInv' /\ flash'.xip = "none" /\ flash'.powered
       /\ flash'.latency = IF "latency" \in DOMAIN effect THEN effect.latency ELSE flash.latency
       /\ flash.qe => flash'.qe
       /\ effect = [qe |-> TRUE] => flash'.qe
  <2> HIDE DEF after, effect
  <2> QED BY <1>1, <1>5, <1>7, <1>8, <1>9, ByHand
<1> HIDE DEF after, wel
<1>11. /\ cfg' = cfg /\ state' = state /\ valid' = valid /\ board' = board /\ dual_ends' = dual_ends
       /\ op' = op /\ Text' = Text /\ ReadCommand' = ReadCommand
  BY <1>1 DEF busVars, op, Text, ReadCommand
<1>12. DummyInv'
  <2>1. board = "hx8k" => flash'.latency = cfg.dummy
    <3>1. CASE WritesLatency(op)
      BY <1>6, <1>10, <3>1 DEF PicoInv, CommandInv, HandInv
    <3>2. CASE ~WritesLatency(op)
      BY <1>6, <1>10, <3>2 DEF PicoInv, DummyInv, Pending
    <3> QED BY <3>1, <3>2
  <2>2. board = "ice" /\ ReadCommand # "03" => Latency(ReadCommand) = cfg.dummy
    BY DEF PicoInv, DummyInv
  <2>3. board = "ice" => Latency(ReadCommand)' = Latency(ReadCommand)
    BY <1>11 DEF Latency
  <2> QED BY <1>11, <2>1, <2>2, <2>3 DEF DummyInv
<1>13. FirmwareType'
  <2>1. ReadsAny(op) => flash.latency = LATENCY
    BY DEF PicoInv, CommandInv, HandInv
  <2>2. reply' = "read"
    BY <1>1, <1>2, <2>1 DEF Heard, ReadsAny
  <2> QED BY <1>1, <1>11, <2>2 DEF PicoInv, FirmwareType
<1>14. BootInv'
  <2>1. doing = "boot" => flash'.latency = flash.latency
    BY <1>3, <1>6, <1>10, OpFacts
  <2>2. doing = "boot" /\ pc = 6 => flash'.qe
    <3>1. doing = "boot" /\ pc = 6 => op \in SetsQuadFlag
      BY <1>3, OpFacts
    <3> QED BY <1>10, <3>1, KindsOfOps
  <2>3. (doing # "boot" => flash'.qe) /\ (doing = "boot" /\ pc > 6 => flash'.qe)
    BY <1>10 DEF PicoInv, CommandInv, BootInv
  <2> QED BY <1>1, <1>11, <2>1, <2>2, <2>3 DEF PicoInv, CommandInv, BootInv
<1>15. HandInv'
  <2>1. ReadsAny(op) => ~WritesLatency(op)
    <3>1. op \in Reads => ~WritesLatency(op)
      BY KindsOfOps
    <3>2. op \in Writes => ~ReadsAny(op)
      BY KindsOfOps
    <3> QED BY <1>4, <3>1, <3>2
  <2>2. ReadsAny(op) => flash'.latency = LATENCY
    BY <1>6, <1>10, <2>1 DEF PicoInv, CommandInv, HandInv
  <2>3. ReadsAny(op)' = ReadsAny(op) /\ WritesLatency(op)' = WritesLatency(op)
    BY <1>11 DEF ReadsAny, WritesLatency
  <2> QED BY <1>1, <1>11, <2>2, <2>3 DEF PicoInv, CommandInv, HandInv
<1>16. WidthInv' /\ PassedInv'
  BY <1>1, <1>2, <1>11, WidthStands DEF PicoInv, CommandInv, PassedInv
<1>17. WorkerInv'
  BY <1>1, <1>2, <1>10, <1>11 DEF PicoInv, WorkerInv, None
<1> QED BY <1>10, <1>12, <1>13, <1>14, <1>15, <1>16, <1>17 DEF PicoInv, CommandInv

LEMMA GiveBackStep ==
  ASSUME PicoInv, GiveBack
  PROVE  PicoInv'
<1> DEFINE m == [en |-> TRUE]
<1>1. /\ worker = "give back" /\ worker' = "off" /\ Configure(m) /\ Advance
      /\ valid' = valid /\ rd_wait' = rd_wait /\ bad_ram' = bad_ram
  BY DEF GiveBack
<1>2. /\ board \in Boards /\ doing \in Names /\ pc \in 1 .. Len(Program[board][doing])
      /\ op = Program[board][doing][pc] /\ Text = Program[board][doing] /\ cfg \in CfgType
  BY OperationAt
<1>3. cfg' = Updated(cfg, m)
  BY <1>1 DEF Configure
<1>4. DOMAIN m = {"en"} /\ m.en \in BOOLEAN /\ m.en
  OBVIOUS
<1> HIDE DEF m
<1>5. /\ cfg'.en /\ cfg'.ddr = cfg.ddr /\ cfg'.qspi = cfg.qspi /\ cfg'.cont = cfg.cont
      /\ cfg'.dummy = cfg.dummy /\ cfg' \in CfgType
  <2>1. DOMAIN cfg = {"en", "ddr", "qspi", "cont", "dummy"} /\ DOMAIN m \subseteq DOMAIN cfg
    BY <1>2, <1>4 DEF CfgType
  <2>2. /\ DOMAIN cfg' = {"en", "ddr", "qspi", "cont", "dummy"}
        /\ cfg'.en = IF "en" \in DOMAIN m THEN m.en ELSE cfg.en
        /\ cfg'.ddr = IF "ddr" \in DOMAIN m THEN m.ddr ELSE cfg.ddr
        /\ cfg'.qspi = IF "qspi" \in DOMAIN m THEN m.qspi ELSE cfg.qspi
        /\ cfg'.cont = IF "cont" \in DOMAIN m THEN m.cont ELSE cfg.cont
        /\ cfg'.dummy = IF "dummy" \in DOMAIN m THEN m.dummy ELSE cfg.dummy
        /\ cfg' = [f \in DOMAIN cfg' |-> cfg'[f]]
    BY <1>2, <1>3, <2>1, CfgUpdated
  <2>3. /\ cfg'.en = m.en /\ cfg'.ddr = cfg.ddr /\ cfg'.qspi = cfg.qspi /\ cfg'.cont = cfg.cont
        /\ cfg'.dummy = cfg.dummy
    BY <1>4, <2>2
  <2> QED BY <1>2, <1>4, <2>2, <2>3 DEF CfgType
<1>6. op.do = "flashio" /\ ~cfg.cont /\ valid = None
  BY <1>1 DEF PicoInv, WorkerInv, CommandInv, HandInv
<1>7. ContInv'
  BY <1>5, <1>6 DEF ContInv
<1>8. /\ MemoryInv' /\ state' = "wake" /\ board' = board /\ dual_ends' = dual_ends
      /\ flash'.latency = flash.latency /\ flash'.qe = flash.qe
  <2>1. rd_wait' \in BOOLEAN
    BY <1>1 DEF PicoInv, MemoryInv, MemTypeOK
  <2> QED BY <1>1, <1>5, <1>7, <2>1, ConfigureStep DEF PicoInv
<1>9. ReadCommand' = ReadCommand
  BY <1>5 DEF ReadCommand
<1>10. Agreed'
  <2>1. Agreed
    BY <1>1, AgreedNow
  <2>2. Latency(ReadCommand)' = Latency(ReadCommand)
    BY <1>8, <1>9 DEF Latency
  <2> QED BY <1>5, <1>8, <1>9, <2>1, <2>2 DEF Agreed
<1>11. Left
  <2>1. ~SetsLatency(board, op) /\ ~SetsWidth(op)
    BY <1>6 DEF SetsLatency, SetsWidth
  <2>2. WritesLatency(op) => flash.latency = op.arg.effect.latency
    <3>1. WritesLatency(op) => board = "hx8k"
      BY <1>2, PlacedFacts
    <3> QED BY <1>1, <3>1 DEF PicoInv, DummyInv, Pending, CommandInv, HandInv
  <2>3. /\ doing = "boot" => flash.latency = LATENCY /\ ReadCommand = "03" /\ (pc >= 6 => flash.qe)
        /\ doing # "boot" => flash.qe
    <3>1. pc \in Int
      BY <1>2
    <3>2. pc >= 6 <=> pc > 6 \/ pc = 6
      BY <3>1
    <3>3. BootInv
      BY DEF PicoInv, CommandInv
    <3> QED BY <1>1, <3>2, <3>3 DEF BootInv
  <2> QED BY <1>1, <1>5, <1>6, <1>8, <1>9, <1>10, <2>1, <2>2, <2>3 DEF Left
<1>12. DummyInv' /\ FirmwareType' /\ CommandInv'
  BY <1>1, <1>2, <1>8, <1>11, AfterOperation DEF PicoInv, CommandInv
<1>13. WorkerInv'
  BY <1>1, <1>5 DEF WorkerInv
<1> QED BY <1>8, <1>12, <1>13 DEF PicoInv

-------------------------------------------------------------------------------
(* The program can always be read *)

LEMMA PicoInit ==
  ASSUME Init
  PROVE  PicoInv
<1>1. /\ cfg = [en |-> TRUE, ddr |-> FALSE, qspi |-> FALSE, cont |-> FALSE, dummy |-> LATENCY]
      /\ state = "wake" /\ rd_valid = FALSE /\ rd_addr = 0 /\ rd_wait = FALSE /\ rd_inc = FALSE
      /\ rdata = Junk /\ valid = None /\ board \in Boards /\ dual_ends \in BOOLEAN
      /\ flash \in [powered : BOOLEAN, xip : {"none", "EB", "ED"}, qe : BOOLEAN, latency : {LATENCY},
                    wel : {FALSE}, cmd : {"closed"}, next : {Junk}]
  BY DEF Init, MemInit, ChipInit, Boards
<1>2. /\ doing = "boot" /\ pc = 1 /\ worker = "off" /\ rep = REPS /\ reply = "none"
      /\ bad_ram \in {"none", "zeros", "address", "words"}
  BY DEF Init
<1>3. cfg.en /\ ~cfg.ddr /\ ~cfg.qspi /\ ~cfg.cont /\ cfg.dummy = LATENCY /\ cfg \in CfgType
  BY <1>1, CountAssumption DEF CfgType
<1>4. flash \in FlashType /\ flash.latency = LATENCY /\ flash.xip # "BB"
  <2> DEFINE No == {FALSE}
  <2>1. No \subseteq BOOLEAN
    OBVIOUS
  <2>2. flash \in [powered : BOOLEAN, xip : {"none", "EB", "ED"}, qe : BOOLEAN, latency : {LATENCY},
                  wel : No, cmd : {"closed"}, next : {Junk}]
    BY <1>1
  <2> HIDE DEF No
  <2>3. LATENCY \in 0 .. 15 /\ Junk \in 0 .. Junk
    BY WordsAssumption, CountAssumption DEF Junk
  <2>4. flash.wel \in BOOLEAN
    BY <2>1, <2>2
  <2> QED BY <2>2, <2>3, <2>4 DEF FlashType
<1>5. ReadCommand = "03"
  BY <1>3 DEF ReadCommand
<1>6. MemoryInv
  <2>1. MemTypeOK
    <3>1. rd_valid \in BOOLEAN /\ rd_wait \in BOOLEAN /\ rd_inc \in BOOLEAN
      BY <1>1, Zenon
    <3>2. rd_addr \in 0 .. Words - 1 /\ rdata \in 0 .. Junk /\ valid \in (0 .. Words - 1) \cup {None}
      BY <1>1, WordsAssumption DEF Junk
    <3>3. state \in {"wake", "release", "command", "address", "data"} /\ board \in {"hx8k", "ice"}
      BY <1>1 DEF Boards
    <3> QED BY <1>3, <1>4, <3>1, <3>2, <3>3 DEF MemTypeOK, CfgType, FlashType
  <2>2. ChipType /\ WakeInv /\ ContInv /\ BurstInv /\ WordsInv
    BY <1>1, <1>3, <1>4 DEF ChipType, WakeInv, ContInv, BurstInv, WordsInv
  <2> QED BY <2>1, <2>2 DEF MemoryInv
<1>7. /\ doing \in Names /\ 1 \in 1 .. Len(Text)
  <2>1. doing \in Names /\ Len(Text) \in Nat \ {0}
    BY <1>1, <1>2, ProgramLength DEF Names, Text
  <2> QED BY <2>1
<1>8. op = Text[pc] /\ op.do # "toggle" /\ op.do # "passed" /\ ~WritesLatency(op)
  BY <1>1, <1>2, <1>7, OpFacts DEF op, Text
<1>9. DummyInv
  BY <1>3, <1>4, <1>5 DEF DummyInv
<1>10. FirmwareType
  BY <1>2, <1>7, CountAssumption DEF FirmwareType
<1>11. WorkerInv
  BY <1>2, <1>3 DEF WorkerInv
<1>12. BootInv
  BY <1>2, <1>3, <1>4, <1>5 DEF BootInv
<1>13. HandInv
  BY <1>3, <1>4, <1>8 DEF HandInv
<1>14. WidthInv /\ PassedInv
  BY <1>2, <1>8 DEF WidthInv, PassedInv
<1> QED BY <1>6, <1>9, <1>10, <1>11, <1>12, <1>13, <1>14 DEF PicoInv, CommandInv

LEMMA PicoNext ==
  ASSUME PicoInv, [Next]_vars, [AdmittedKeys]_vars
  PROVE  PicoInv'
<1>1. CASE Firmware /\ AdmittedKeys
  BY <1>1, ShowStep, SpictrlStep, CallStep, TakeStep, EnableStep, TransferStep, GiveBackStep,
     MemtestStep, GetcharStep DEF Firmware, Operations
<1>2. CASE Fetch
  BY <1>2, FetchStep
<1>3. CASE Memory
  BY <1>3, WakeStep, ReleaseStep, CommandStep, AddressStep, DataStep, JumpStep DEF Memory, Controller
<1>4. CASE UNCHANGED vars
  <2>1. /\ cfg' = cfg /\ state' = state /\ rd_valid' = rd_valid /\ rd_addr' = rd_addr
        /\ rd_wait' = rd_wait /\ rd_inc' = rd_inc /\ rdata' = rdata /\ valid' = valid
        /\ flash' = flash /\ board' = board /\ dual_ends' = dual_ends
        /\ doing' = doing /\ pc' = pc /\ worker' = worker /\ rep' = rep /\ reply' = reply
        /\ bad_ram' = bad_ram
    BY <1>4 DEF vars, memVars, readVars, fwVars
  <2>2. op' = op /\ Text' = Text /\ ReadCommand' = ReadCommand /\ ChipMode' = ChipMode
    BY <2>1 DEF op, Text, ReadCommand, ChipMode
  <2>3. MemTypeOK' /\ ChipType'
    BY <2>1 DEF PicoInv, MemoryInv, MemTypeOK, ChipType, FlashType, Junk
  <2>4. WakeInv' /\ ContInv' /\ BurstInv'
    BY <2>1, <2>2 DEF PicoInv, MemoryInv, WakeInv, ContInv, BurstInv
  <2>5. WordsInv'
    BY <2>1 DEF PicoInv, MemoryInv, WordsInv, Plus4
  <2>6. DummyInv'
    <3>1. Latency(ReadCommand)' = Latency(ReadCommand)
      BY <2>1, <2>2 DEF Latency
    <3> QED BY <2>1, <2>2, <3>1 DEF PicoInv, DummyInv, Pending, WritesLatency
  <2>7. FirmwareType' /\ WorkerInv'
    BY <2>1, <2>2 DEF PicoInv, FirmwareType, WorkerInv
  <2>8. BootInv' /\ HandInv' /\ PassedInv'
    BY <2>1, <2>2 DEF PicoInv, CommandInv, BootInv, HandInv, PassedInv, WritesLatency, ReadsAny
  <2>9. WidthInv'
    BY <2>1, WidthStands DEF PicoInv, CommandInv
  <2> QED BY <2>3, <2>4, <2>5, <2>6, <2>7, <2>8, <2>9 DEF PicoInv, MemoryInv, CommandInv
<1> QED BY <1>1, <1>2, <1>3, <1>4 DEF Next

LEMMA AdmittedInvariant == Init /\ [][Next]_vars /\ [][AdmittedKeys]_vars => []PicoInv
<1>1. Init => PicoInv
  BY PicoInit
<1>2. PicoInv /\ [Next]_vars /\ [AdmittedKeys]_vars => PicoInv'
  BY PicoNext
<1> QED BY <1>1, <1>2, PTL

\* As long as nobody types what Avoided names, controller and chip always agree on what
\* they do, except where the firmware is about to bring them together again.
THEOREM PicoInvariant == Spec /\ [][AdmittedKeys]_vars => []PicoInv
BY AdmittedInvariant, PTL DEF Spec

\* The types of controller, chip and firmware, under the same assumption.
THEOREM PicoTypes == Spec /\ [][AdmittedKeys]_vars => []TypeOK
<1>1. PicoInv => TypeOK
  BY DEF PicoInv, MemoryInv, FirmwareType, TypeOK, Text
<1> QED BY <1>1, PicoInvariant, PTL

LEMMA Answering == PicoInv => FlashAnswers
<1> SUFFICES ASSUME PicoInv PROVE FlashAnswers
  OBVIOUS
<1>1. TypeOK
  BY DEF PicoInv, MemoryInv, FirmwareType, TypeOK, Text
<1>2. Ready => rdata = valid
  BY Taken
<1>3. CommandsHeard
  BY DEF PicoInv, FirmwareType, CommandsHeard
<1> QED BY <1>1, <1>2, <1>3 DEF FlashAnswers

\* The firmware takes every key at every prompt, and on some of them the program is lost
\* or a command is not heard.  If nobody types those, which Avoided names, then whatever
\* widths, dummy clocks and modes it sets from the flash it runs from, every word the
\* processor takes is the one at its address and every command by hand is heard.
THEOREM FlashAlwaysAnswers == Spec /\ [][AdmittedKeys]_vars => []FlashAnswers
BY Answering, PicoInvariant, PTL

\* A command begins at the prompt only in getchar, so the specification the run checks is the code's
\* under that assumption.
LEMMA CarefulSteps == [CarefulNext]_vars => [Next]_vars /\ [AdmittedKeys]_vars
<1> SUFFICES ASSUME CarefulNext PROVE Next /\ AdmittedKeys
  OBVIOUS
<1>1. Next
  BY DEF CarefulNext, CarefulFirmware, Next, Firmware
<1>2. CASE getchar /\ AdmittedKeys
  BY <1>1, <1>2
<1>3. CASE Operations
  <2>1. worker = "off" => op.do # "prompt"
    <3>1. CASE ShowNext \/ Spictrl \/ CallWorker \/ Memtest
      BY <3>1 DEF Doing, ShowNext, Spictrl, CallWorker, Memtest
    <3>2. CASE TakeFlash \/ WriteEnable \/ Transfer \/ GiveBack
      BY <3>2 DEF TakeFlash, WriteEnable, Transfer, GiveBack
    <3> QED BY <1>3, <3>1, <3>2 DEF Operations
  <2>2. ~Doing({"prompt"})
    BY <2>1 DEF Doing
  <2>3. \A c : ~Typed(c)
    BY <2>2, Zenon DEF Typed
  <2> QED BY <1>1, <2>3, Zenon DEF AdmittedKeys
<1>4. CASE Fetch \/ Memory
  <2>1. doing' = doing
    BY <1>4 DEF Fetch, Memory, fwVars
  <2>2. \A c : ~Typed(c)
    BY <2>1, Zenon DEF Typed
  <2> QED BY <1>1, <2>2, Zenon DEF AdmittedKeys
<1> QED BY <1>1, <1>2, <1>3, <1>4 DEF CarefulNext, CarefulFirmware

\* The same of the specification the run checks.
THEOREM CarefulFlashAnswers == CarefulSpec => []FlashAnswers
BY CarefulSteps, AdmittedInvariant, Answering, PTL DEF CarefulSpec

-------------------------------------------------------------------------------
(* Where the firmware is, whichever key is typed *)

\* No key takes the firmware past the end of a command, gives the controller a setting
\* of the wrong type, or leads to the end of the memory test past a test that failed.
StepsInv ==
  /\ board \in Boards /\ doing \in Names /\ pc \in 1 .. Len(Program[board][doing])
  /\ cfg \in CfgType /\ bad_ram \in {"none", "zeros", "address", "words"}
  /\ worker # "off" => op.do = "flashio"
  /\ PassedInv

LEMMA StepsInit == Init => StepsInv
<1> SUFFICES ASSUME Init PROVE StepsInv
  OBVIOUS
<1>1. /\ cfg = [en |-> TRUE, ddr |-> FALSE, qspi |-> FALSE, cont |-> FALSE, dummy |-> LATENCY]
      /\ board \in Boards /\ doing = "boot" /\ pc = 1 /\ worker = "off"
      /\ bad_ram \in {"none", "zeros", "address", "words"}
  BY DEF Init, MemInit, Boards
<1>2. cfg \in CfgType
  BY <1>1, CountAssumption DEF CfgType
<1>3. doing \in Names
  BY <1>1 DEF Names
<1>4. pc \in 1 .. Len(Program[board][doing])
  BY <1>1, <1>3, ProgramLength
<1>5. Program[board][doing][pc].do # "passed"
  BY <1>1, <1>3, <1>4, OpFacts
<1>6. PassedInv
  BY <1>5 DEF PassedInv, op
<1> QED BY <1>1, <1>2, <1>3, <1>4, <1>6 DEF StepsInv

LEMMA StepsStand ==
  ASSUME StepsInv, UNCHANGED <<board, doing, pc, bad_ram>>, cfg' \in CfgType,
         worker' # "off" => op.do = "flashio"
  PROVE  StepsInv'
<1>1. board' = board /\ doing' = doing /\ pc' = pc /\ bad_ram' = bad_ram
  OBVIOUS
<1>2. op' = op
  BY <1>1 DEF op
<1> QED BY <1>1, <1>2 DEF StepsInv, PassedInv

LEMMA StepsBegin ==
  ASSUME StepsInv, board' = board, NEW c \in Names \ {"boot"}, doing' = c, pc' = 1,
         cfg' \in CfgType, bad_ram' = bad_ram, worker' = "off"
  PROVE  StepsInv'
<1> DEFINE o == Program[board][c][1]
<1>1. 1 \in 1 .. Len(Program[board][c]) /\ o.do # "passed"
  BY FirstOps DEF StepsInv
<1>2. op' = o
  BY DEF op
<1> HIDE DEF o
<1>3. PassedInv'
  BY <1>1, <1>2 DEF PassedInv
<1> QED BY <1>1, <1>3 DEF StepsInv

LEMMA StepsAdvance ==
  ASSUME StepsInv, Advance, board' = board, cfg' \in CfgType, bad_ram' = bad_ram,
         worker' = "off", op.do = "bytes" => bad_ram = "none"
  PROVE  StepsInv'
<1>1. /\ board \in Boards /\ doing \in Names /\ pc \in 1 .. Len(Program[board][doing])
      /\ Len(Program[board][doing]) \in Nat \ {0}
  BY ProgramLength DEF StepsInv
<1>2. CASE pc < Len(Program[board][doing])
  <2>1. pc' = pc + 1 /\ doing' = doing
    BY <1>2 DEF Advance
  <2>2. pc + 1 \in 1 .. Len(Program[board][doing]) /\ (pc + 1) - 1 = pc
    BY <1>1, <1>2
  <2> DEFINE n == Program[board][doing][pc+1]
  <2>3. op' = n /\ op = Program[board][doing][pc]
    BY <2>1 DEF op
  <2>4. n.do = "passed" => Program[board][doing][(pc + 1) - 1].do = "bytes"
    BY <1>1, <2>2, PlacedFacts
  <2> HIDE DEF n
  <2>5. n.do = "passed" => op.do = "bytes"
    BY <2>2, <2>3, <2>4
  <2>6. PassedInv'
    BY <2>3, <2>5 DEF PassedInv
  <2> QED BY <1>1, <2>1, <2>2, <2>6 DEF StepsInv
<1>3. CASE ~(pc < Len(Program[board][doing]))
  <2>1. doing' = "menu" /\ pc' = 1 /\ "menu" \in Names \ {"boot"}
    BY <1>3 DEF Advance, Finish, Names
  <2> QED BY <2>1, StepsBegin
<1> QED BY <1>2, <1>3

\* Whatever is written to the configuration register are settings.
LEMMA StepsConfigure ==
  ASSUME cfg \in CfgType, NEW m, Configure(m),
         DOMAIN m \subseteq {"en", "ddr", "qspi", "cont", "dummy"},
         "en" \in DOMAIN m => m.en \in BOOLEAN,
         "ddr" \in DOMAIN m => m.ddr \in BOOLEAN,
         "qspi" \in DOMAIN m => m.qspi \in BOOLEAN,
         "cont" \in DOMAIN m => m.cont \in BOOLEAN,
         "dummy" \in DOMAIN m => m.dummy \in 0 .. 15
  PROVE  cfg' \in CfgType /\ board' = board
<1>1. cfg' = Updated(cfg, m) /\ board' = board
  BY DEF Configure
<1>2. DOMAIN cfg = {"en", "ddr", "qspi", "cont", "dummy"}
  BY DEF CfgType
<1>3. /\ DOMAIN cfg' = {"en", "ddr", "qspi", "cont", "dummy"}
      /\ cfg'.en = IF "en" \in DOMAIN m THEN m.en ELSE cfg.en
      /\ cfg'.ddr = IF "ddr" \in DOMAIN m THEN m.ddr ELSE cfg.ddr
      /\ cfg'.qspi = IF "qspi" \in DOMAIN m THEN m.qspi ELSE cfg.qspi
      /\ cfg'.cont = IF "cont" \in DOMAIN m THEN m.cont ELSE cfg.cont
      /\ cfg'.dummy = IF "dummy" \in DOMAIN m THEN m.dummy ELSE cfg.dummy
      /\ cfg' = [f \in DOMAIN cfg' |-> cfg'[f]]
  BY <1>1, <1>2, CfgUpdated
<1>4. /\ cfg.en \in BOOLEAN /\ cfg.ddr \in BOOLEAN /\ cfg.qspi \in BOOLEAN
      /\ cfg.cont \in BOOLEAN /\ cfg.dummy \in 0 .. 15
  BY DEF CfgType
<1>5. /\ cfg'.en \in BOOLEAN /\ cfg'.ddr \in BOOLEAN /\ cfg'.qspi \in BOOLEAN
      /\ cfg'.cont \in BOOLEAN /\ cfg'.dummy \in 0 .. 15
  BY <1>3, <1>4
<1> QED BY <1>1, <1>3, <1>5 DEF CfgType

LEMMA StepsSpictrl ==
  ASSUME StepsInv, Spictrl
  PROVE  StepsInv'
<1>1. /\ worker = "off" /\ op.do \in {"set", "toggle"} /\ Advance
      /\ worker' = worker /\ bad_ram' = bad_ram
  BY DEF Spictrl, Doing
<1>2. /\ board \in Boards /\ doing \in Names /\ pc \in 1 .. Len(Program[board][doing])
      /\ op = Program[board][doing][pc] /\ cfg \in CfgType
  BY DEF StepsInv, op
<1>3. CASE op.do = "set"
  <2> DEFINE m == op.arg
  <2>1. Configure(m)
    BY <1>3 DEF Spictrl
  <2>2. op \in Settings(board, Lines(board, doing))
    BY <1>2, <1>3, OpFacts
  <2>3. \/ /\ DOMAIN m = {"ddr", "qspi", "cont"}
           /\ m.ddr \in BOOLEAN /\ m.qspi \in BOOLEAN /\ m.cont \in BOOLEAN
        \/ /\ DOMAIN m = {"ddr", "qspi", "cont", "dummy"}
           /\ m.ddr \in BOOLEAN /\ m.qspi \in BOOLEAN /\ m.cont \in BOOLEAN
           /\ m.dummy \in 0 .. 15
        \/ m = [cont |-> TRUE]
    BY <1>2, <2>2, SettingKinds
  <2> HIDE DEF m
  <2>4. DOMAIN [cont |-> TRUE] = {"cont"} /\ [cont |-> TRUE].cont = TRUE
    OBVIOUS
  <2>5. cfg' \in CfgType /\ board' = board
    BY <1>2, <2>1, <2>3, <2>4, StepsConfigure
  <2> QED BY <1>1, <1>3, <2>5, StepsAdvance
<1>4. CASE op.do = "toggle"
  <2> DEFINE m == [cont |-> ~cfg.cont]
  <2>1. Configure(m)
    BY <1>4 DEF Spictrl
  <2>2. DOMAIN m = {"cont"} /\ m.cont \in BOOLEAN
    OBVIOUS
  <2> HIDE DEF m
  <2>3. cfg' \in CfgType /\ board' = board
    BY <1>2, <2>1, <2>2, StepsConfigure
  <2> QED BY <1>1, <1>4, <2>3, StepsAdvance
<1> QED BY <1>1, <1>3, <1>4

LEMMA StepsWorker ==
  ASSUME StepsInv, TakeFlash \/ WriteEnable \/ Transfer \/ GiveBack
  PROVE  StepsInv'
<1>1. worker # "off" /\ bad_ram' = bad_ram /\ cfg \in CfgType
  BY DEF TakeFlash, WriteEnable, Transfer, GiveBack, StepsInv
<1>2. op.do = "flashio"
  BY <1>1 DEF StepsInv
<1>3. CASE TakeFlash \/ GiveBack
  <2>1. ASSUME NEW e \in BOOLEAN, Configure([en |-> e]) PROVE cfg' \in CfgType /\ board' = board
    <3> DEFINE m == [en |-> e]
    <3>1. DOMAIN m = {"en"} /\ m.en \in BOOLEAN /\ Configure(m)
      BY <2>1
    <3> HIDE DEF m
    <3> QED BY <1>1, <3>1, StepsConfigure
  <2>2. cfg' \in CfgType /\ board' = board
    BY <1>3, <2>1 DEF TakeFlash, GiveBack
  <2>3. CASE TakeFlash
    <3>1. UNCHANGED <<doing, pc>>
      BY <2>3 DEF TakeFlash
    <3> QED BY <1>1, <1>2, <2>2, <3>1, StepsStand
  <2>4. CASE GiveBack
    <3>1. Advance /\ worker' = "off"
      BY <2>4 DEF GiveBack
    <3> QED BY <1>1, <1>2, <2>2, <3>1, StepsAdvance
  <2> QED BY <1>3, <2>3, <2>4
<1>4. CASE WriteEnable \/ Transfer
  <2>1. UNCHANGED <<cfg, board, doing, pc>>
    BY <1>4 DEF WriteEnable, Transfer, busVars
  <2> QED BY <1>1, <1>2, <2>1, StepsStand
<1> QED BY <1>3, <1>4

\* Operations that were just fetched.
LEMMA StepsFetched ==
  ASSUME StepsInv, ShowNext \/ CallWorker \/ Memtest \/ getchar
  PROVE  StepsInv'
<1>1. worker = "off" /\ bad_ram' = bad_ram /\ cfg' = cfg /\ board' = board /\ cfg' \in CfgType
  BY DEF ShowNext, CallWorker, Memtest, getchar, Doing, Fetched, StepsInv
<1>2. CASE CallWorker
  <2>1. op.do = "flashio" /\ UNCHANGED <<doing, pc>>
    BY <1>2 DEF CallWorker, Doing
  <2> QED BY <1>1, <2>1, StepsStand
<1>3. CASE ShowNext
  <2>1. op.do # "bytes" /\ Advance /\ worker' = "off"
    BY <1>1, <1>3 DEF ShowNext, Doing
  <2> QED BY <1>1, <2>1, StepsAdvance
<1>4. CASE Memtest
  <2>1. worker' = "off"
    BY <1>1, <1>4 DEF Memtest
  <2>2. CASE Advance /\ (op.do = "bytes" => BytesPass)
    <3>1. op.do = "bytes" => bad_ram = "none"
      BY <2>2, ByteTest DEF StepsInv
    <3> QED BY <1>1, <2>1, <2>2, <3>1, StepsAdvance
  <2>3. CASE Finish
    <3>1. doing' = "menu" /\ pc' = 1 /\ "menu" \in Names \ {"boot"}
      BY <2>3 DEF Finish, Names
    <3> QED BY <1>1, <2>1, <3>1, StepsBegin
  <2> QED BY <1>4, <2>2, <2>3 DEF Memtest
<1>5. CASE getchar
  <2>1. worker' = "off" /\ op.do \in {"enter", "prompt", "echo"}
    BY <1>1, <1>5 DEF getchar, Doing
  <2>2. CASE UNCHANGED <<doing, pc>>
    BY <1>1, <2>1, <2>2, StepsStand
  <2>3. CASE Advance
    BY <1>1, <2>1, <2>3, StepsAdvance
  <2>4. CASE op.do = "prompt" /\ pc' = 1 /\ (doing' = doing \/ doing' \in Commands)
    <3>1. doing \in Names \ {"boot"}
      BY <2>4, OpFacts DEF StepsInv, op
    <3>2. doing' \in Names \ {"boot"}
      BY <2>4, <3>1 DEF Names, Commands
    <3> QED BY <1>1, <2>1, <2>4, <3>2, StepsBegin
  <2> QED BY <1>5, <2>2, <2>3, <2>4 DEF getchar
<1> QED BY <1>2, <1>3, <1>4, <1>5

LEMMA StepsNext ==
  ASSUME StepsInv, [Next]_vars
  PROVE  StepsInv'
<1>1. CASE Firmware
  BY <1>1, StepsFetched, StepsSpictrl, StepsWorker DEF Firmware, Operations
<1>2. CASE Fetch \/ Memory \/ UNCHANGED vars
  <2>1. cfg' = cfg /\ board' = board
    BY <1>2 DEF Fetch, Ask, Memory, Controller, Wake, Release, Command, Address, Data, JumpTo,
                vars, memVars
  <2>2. doing' = doing /\ pc' = pc /\ bad_ram' = bad_ram /\ worker' = worker
    BY <1>2 DEF Fetch, Memory, vars, fwVars
  <2> QED BY <2>1, <2>2, StepsStand DEF StepsInv
<1> QED BY <1>1, <1>2 DEF Next

-------------------------------------------------------------------------------
(* What is printed is true *)

LEMMA PrintedKinds ==
  /\ \A o \in Plain : o.do = "dec" => o.arg \in 0 .. 99 \cup {128}
  /\ \A o \in Plain : o.do = "hex" => o.arg \in {2, 8}
<1>1. ASSUME NEW o \in Plain, o.do = "dec" PROVE o.arg \in 0 .. 99 \cup {128}
  BY <1>1 DEF Plain
<1>2. ASSUME NEW o \in Plain, o.do = "hex" PROVE o.arg \in {2, 8}
  BY <1>2 DEF Plain
<1> QED BY <1>1, <1>2

LEMMA Printed ==
  ASSUME StepsInv
  PROVE  /\ op.do = "dec" => op.arg \in 0 .. 99 \cup {128}
         /\ op.do = "hex" => op.arg \in {2, 8}
<1>1. /\ board \in Boards /\ doing \in Names /\ pc \in 1 .. Len(Program[board][doing])
      /\ op = Program[board][doing][pc]
  BY DEF StepsInv, op
<1>2. \/ op \in BootOps \/ op \in Calm \cup ReadRegs \/ op = Toggle
      \/ op \in Ops(board, Lines(board, doing))
  <2> DEFINE o == Program[board][doing][pc]
  <2>1. \/ doing = "boot" /\ o \in BootOps
        \/ doing \in HandSent(board) /\ o \in Calm \cup ReadRegs
        \/ doing = "7" /\ o = Toggle
        \/ doing \in Written \ HandSent(board) /\ o \in Ops(board, Lines(board, doing))
    BY <1>1, OpKinds
  <2> QED BY <1>1, <2>1
<1>3. \/ op \in Plain \/ op \in Reads \/ op \in ReadRegs \/ op \in SetsQuadFlag \/ op \in Writes
      \/ op = Toggle \/ op \in Settings(board, Lines(board, doing))
  BY <1>2 DEF BootOps, Calm, Ops
<1>4. \A o \in Settings(board, Lines(board, doing)) : o.do = "set"
  BY DEF Settings
<1>5. Toggle.do = "toggle"
  BY DEF Toggle
<1> QED BY <1>3, <1>4, <1>5, KindsOfOps, PrintedKinds

\* Of up to three digits, printed one after the other.
LEMMA ThreeParts ==
  ASSUME NEW S, NEW s \in Seq(S), NEW t \in Seq(S), NEW c \in S
  PROVE  LET u == s \o t \o <<c>>
         IN  /\ Len(u) = Len(s) + Len(t) + 1 /\ u[Len(s) + Len(t) + 1] = c
             /\ \A i \in 1 .. Len(s) : u[i] = s[i]
             /\ \A i \in 1 .. Len(t) : u[Len(s) + i] = t[i]
<1>1. s \o t \in Seq(S) /\ Len(s \o t) = Len(s) + Len(t) /\ <<c>> \in Seq(S) /\ Len(<<c>>) = 1
  OBVIOUS
<1>2. /\ \A i \in 1 .. Len(s) : (s \o t)[i] = s[i]
      /\ \A i \in 1 .. Len(t) : (s \o t)[Len(s) + i] = t[i]
  OBVIOUS
<1> DEFINE w == s \o t
<1>3. w \in Seq(S) /\ Len(w) = Len(s) + Len(t)
  BY <1>1
<1>4. /\ \A i \in 1 .. Len(s) : w[i] = s[i]
      /\ \A i \in 1 .. Len(t) : w[Len(s) + i] = t[i]
  BY <1>2
<1> HIDE DEF w
<1> DEFINE e == <<c>>
<1>e. e \in Seq(S) /\ Len(e) = 1 /\ e[1] = c
  OBVIOUS
<1> HIDE DEF e
<1>5. Joined(w \o e, w, e)
  BY <1>3, <1>e, ConcatPlaces
<1> DEFINE u == w \o e
<1>6. Len(u) = Len(w) + 1 /\ u[Len(w) + 1] = c /\ \A i \in 1 .. Len(w) : u[i] = w[i]
  BY <1>3, <1>5, <1>e DEF Joined
<1> HIDE DEF u
<1>7. /\ Len(u) = Len(s) + Len(t) + 1 /\ u[Len(s) + Len(t) + 1] = c
      /\ \A i \in 1 .. Len(s) : u[i] = s[i]
      /\ \A i \in 1 .. Len(t) : u[Len(s) + i] = t[i]
  <2>1. Len(s) \in Nat /\ Len(t) \in Nat
    OBVIOUS
  <2> QED BY <1>3, <1>4, <1>6, <2>1
<1> QED BY <1>7 DEF u, w, e

LEMMA OneTwoThree ==
  ASSUME NEW a \in Int, NEW b \in Int, NEW c \in Int
  PROVE  /\ Value(<<>> \o <<>> \o <<c>>) = c
         /\ Value(<<>> \o <<b>> \o <<c>>) = 10 * b + c
         /\ Value(<<a>> \o <<b>> \o <<c>>) = 100 * a + 10 * b + c
<1>1. <<>> \in Seq(Int) /\ <<a>> \in Seq(Int) /\ <<b>> \in Seq(Int)
      /\ Len(<<>>) = 0 /\ Len(<<a>>) = 1 /\ Len(<<b>>) = 1
  OBVIOUS
<1>2. Value(<<>> \o <<>> \o <<c>>) = c
  <2> DEFINE u == <<>> \o <<>> \o <<c>>
  <2>1. Len(u) = 1 /\ u[1] = c
    BY <1>1, ThreeParts
  <2> HIDE DEF u
  <2>2. Value(u) = c
    BY <2>1 DEF Value
  <2> QED BY <2>2 DEF u
<1>3. Value(<<>> \o <<b>> \o <<c>>) = 10 * b + c
  <2> DEFINE u == <<>> \o <<b>> \o <<c>>
  <2>1. Len(u) = 2 /\ u[1] = b /\ u[2] = c
    BY <1>1, ThreeParts
  <2> HIDE DEF u
  <2>2. Value(u) = 10 * b + c
    BY <2>1 DEF Value
  <2> QED BY <2>2 DEF u
<1>4. Value(<<a>> \o <<b>> \o <<c>>) = 100 * a + 10 * b + c
  <2> DEFINE u == <<a>> \o <<b>> \o <<c>>
  <2>1. Len(u) = 3 /\ u[1] = a /\ u[2] = b /\ u[3] = c
    BY <1>1, ThreeParts
  <2> HIDE DEF u
  <2>2. Value(u) = 100 * a + 10 * b + c
    BY <2>1 DEF Value
  <2> QED BY <2>2 DEF u
<1> QED BY <1>2, <1>3, <1>4

\* A number below a hundred, and the one above it that is printed, reads back as itself.
LEMMA Decimal ==
  ASSUME NEW v \in 0 .. 99 \cup {128}
  PROVE  Value(print_dec(v)) = v
<1>1. CASE v \in 0 .. 9
  <2>1. ~(v >= 1000) /\ ~(v >= 100) /\ ~(v % 100 >= 10) /\ v % 10 = v
    BY <1>1
  <2>2. print_dec(v) = <<>> \o <<>> \o <<v>>
    BY <2>1 DEF print_dec, Digit
  <2> QED BY <2>2, OneTwoThree
<1>2. CASE v \in 10 .. 99
  <2>1. ~(v >= 1000) /\ ~(v >= 100) /\ v % 100 >= 10 /\ v % 100 = v
    BY <1>2
  <2>2. print_dec(v) = <<>> \o <<v \div 10>> \o <<v % 10>>
    BY <2>1 DEF print_dec, Digit
  <2>3. v \div 10 \in Int /\ v % 10 \in Int /\ v = 10 * (v \div 10) + (v % 10)
    BY <1>2
  <2> QED BY <2>2, <2>3, OneTwoThree
<1>3. CASE v = 128
  <2> DEFINE a == 128 \div 100
             b == (128 % 100) \div 10
             c == 128 % 10
  <2>1. a \in Int /\ b \in Int /\ c \in Int /\ 100 * a + 10 * b + c = 128
    OBVIOUS
  <2>2. print_dec(128) = <<a>> \o <<b>> \o <<c>>
    <3>1. ~(128 >= 1000) /\ 128 >= 100 /\ 128 % 100 >= 10
      OBVIOUS
    <3> QED BY <3>1 DEF print_dec, Digit
  <2> HIDE DEF a, b, c
  <2>3. Value(<<a>> \o <<b>> \o <<c>>) = 128
    BY <2>1, OneTwoThree
  <2> QED BY <1>3, <2>2, <2>3
<1> QED BY <1>1, <1>2, <1>3

LEMMA Largest ==
  ASSUME NEW S, S \subseteq 1 .. 8, S # {}
  PROVE  Max(S) \in S /\ \A i \in S : i <= Max(S)
<1>1. \A y \in S : y \in {1, 2, 3, 4, 5, 6, 7, 8}
  OBVIOUS
<1>2. CASE S \cap {5, 6, 7, 8} # {}
  <2>1. \E x \in S : \A y \in S : x >= y
    BY <1>1, <1>2
  <2> QED BY <2>1 DEF Max
<1>3. CASE S \cap {5, 6, 7, 8} = {}
  <2>1. \A y \in S : y \in {1, 2, 3, 4}
    BY <1>1, <1>3
  <2>2. CASE S \cap {3, 4} # {}
    <3>1. \E x \in S : \A y \in S : x >= y
      BY <2>1, <2>2
    <3> QED BY <3>1 DEF Max
  <2>3. CASE S \cap {3, 4} = {}
    <3>1. \A y \in S : y \in {1, 2}
      BY <2>1, <2>3
    <3>2. CASE 2 \in S
      <4>1. \A y \in S : 2 >= y
        BY <3>1
      <4> QED BY <3>2, <4>1 DEF Max
    <3>3. CASE 2 \notin S
      <4>1. S = {1}
        BY <3>1, <3>3
      <4>2. 1 \in S /\ \A y \in S : 1 >= y
        BY <4>1
      <4> QED BY <4>2 DEF Max
    <3> QED BY <3>2, <3>3
  <2> QED BY <2>2, <2>3
<1> QED BY <1>2, <1>3

\* Digits that are left out are zeros.
LEMMA Hexadecimal ==
  ASSUME NEW v \in [1 .. 8 -> Nat], NEW digits \in 1 .. 8
  PROVE  \A i \in 1 .. 8 :
           v[i] = IF i <= Len(print_hex(v, digits))
                  THEN print_hex(v, digits)[Len(print_hex(v, digits)) + 1 - i] ELSE 0
<1> DEFINE S == {digits} \cup {i \in 1 .. 8 : v[i] # 0}
           first == Max(S)
           text == print_hex(v, digits)
<1>1. first \in 1 .. 8 /\ \A i \in S : i <= first
  <2>1. S \subseteq 1 .. 8 /\ S # {}
    OBVIOUS
  <2> HIDE DEF S
  <2> QED BY <2>1, Largest
<1>2. text = [k \in 1 .. first |-> v[first + 1 - k]]
  BY DEF print_hex
<1> HIDE DEF first, text
<1>3. Len(text) = first /\ \A k \in 1 .. first : text[k] = v[first + 1 - k]
  BY <1>1, <1>2
<1>4. ASSUME NEW i \in 1 .. 8
      PROVE  v[i] = IF i <= Len(text) THEN text[Len(text) + 1 - i] ELSE 0
  <2>1. CASE i <= first
    <3>1. first + 1 - i \in 1 .. first /\ first + 1 - (first + 1 - i) = i
      BY <1>1, <2>1
    <3> QED BY <1>3, <2>1, <3>1
  <2>2. CASE ~(i <= first)
    BY <1>1, <1>3, <2>2
  <2> QED BY <2>1, <2>2
<1> QED BY <1>4 DEF text

LEMMA WordsPrinted == SomeWords \subseteq [1 .. 8 -> Nat]
BY DEF SomeWords, Zeros

\* A memory test that fails has seen a fault.
LEMMA TestFails ==
  ASSUME bad_ram = "none"
  PROVE  BytesPass /\ \A i : WordsPass(i)
BY DEF BytesPass, ByteRead, WordsPass, WordRead

LEMMA ReportsNext ==
  ASSUME StepsInv, ReportsTrue, [Next]_vars
  PROVE  ReportsTrue'
<1>1. ASSUME Silent PROVE ReportsTrue'
  BY <1>1 DEF Silent, ReportsTrue
<1>2. ASSUME said' = said, cfg'.dummy = cfg.dummy, bad_ram' = bad_ram PROVE ReportsTrue'
  <2>1. Value(said.text)' = Value(said.text)
    BY <1>2 DEF Value
  <2> QED BY <1>2, <2>1 DEF ReportsTrue
<1>3. CASE ShowNext
  <2>1. CASE op.do = "show" /\ Silent
    BY <1>1, <2>1
  <2>2. CASE op.do = "dec" /\ said' = [what |-> "number", text |-> print_dec(op.arg), v |-> op.arg]
    <3>1. Value(print_dec(op.arg)) = op.arg
      BY <2>2, Printed, Decimal
    <3>2. said'.what = "number" /\ said'.text = print_dec(op.arg) /\ said'.v = op.arg
      BY <2>2
    <3>3. Value(said'.text) = said'.v
      BY <3>1, <3>2
    <3> QED BY <3>2, <3>3 DEF ReportsTrue, Value
  <2>3. CASE op.do = "latency" /\ said' = [what |-> "latency", text |-> print_dec(cfg.dummy)]
    <3>1. cfg.dummy \in 0 .. 99 \cup {128}
      BY DEF StepsInv, CfgType
    <3>2. Value(print_dec(cfg.dummy)) = cfg.dummy
      BY <3>1, Decimal
    <3>3. said'.what = "latency" /\ said'.text = print_dec(cfg.dummy) /\ cfg' = cfg
      BY <1>3, <2>3 DEF ShowNext, Fetched
    <3>4. Value(said'.text) = cfg'.dummy
      BY <3>2, <3>3
    <3> QED BY <3>3, <3>4 DEF ReportsTrue, Value
  <2>4. CASE op.do = "flag" /\ said' = [what |-> "flag", text |-> IF cfg[op.arg] THEN "ON" ELSE "OFF"]
    <3>1. said'.what = "flag"
      BY <2>4
    <3> QED BY <3>1 DEF ReportsTrue
  <2>5. CASE /\ op.do = "hex"
             /\ \E v \in SomeWords : said' = [what |-> "word", text |-> print_hex(v, op.arg), v |-> v]
    <3>1. PICK v \in SomeWords : said' = [what |-> "word", text |-> print_hex(v, op.arg), v |-> v]
      BY <2>5
    <3>2. v \in [1 .. 8 -> Nat] /\ op.arg \in 1 .. 8
      BY <2>5, WordsPrinted, Printed
    <3> DEFINE text == print_hex(v, op.arg)
    <3>3. \A i \in 1 .. 8 : v[i] = IF i <= Len(text) THEN text[Len(text) + 1 - i] ELSE 0
      BY <3>2, Hexadecimal
    <3>4. said'.what = "word" /\ said'.text = text /\ said'.v = v
      BY <3>1
    <3> HIDE DEF text
    <3> QED BY <3>3, <3>4 DEF ReportsTrue
  <2> QED BY <1>3, <2>1, <2>2, <2>3, <2>4, <2>5 DEF ShowNext
<1>4. CASE Memtest
  <2>1. bad_ram' = bad_ram
    BY <1>4 DEF Memtest
  <2>2. CASE Silent
    BY <1>1, <2>2
  <2>3. CASE said' = [what |-> "failed"] /\ (~BytesPass \/ ~WordsPass(op.arg))
    <3>1. bad_ram # "none"
      BY <2>3, TestFails
    <3>2. said'.what = "failed"
      BY <2>3
    <3> QED BY <2>1, <3>1, <3>2 DEF ReportsTrue
  <2>4. CASE said' = [what |-> "passed"] /\ op.do = "passed"
    <3>1. bad_ram = "none"
      BY <2>4 DEF StepsInv, PassedInv
    <3>2. said'.what = "passed"
      BY <2>4
    <3> QED BY <2>1, <3>1, <3>2 DEF ReportsTrue
  <2> QED BY <1>4, <2>2, <2>3, <2>4 DEF Memtest
<1>5. CASE Spictrl \/ CallWorker \/ getchar
  BY <1>1, <1>5 DEF Spictrl, CallWorker, getchar
<1>6. CASE TakeFlash \/ GiveBack
  <2>1. said' = said /\ bad_ram' = bad_ram
    BY <1>6 DEF TakeFlash, GiveBack
  <2>2. PICK m : cfg' = Updated(cfg, m) /\ DOMAIN m = {"en"}
    <3>1. DOMAIN [en |-> FALSE] = {"en"} /\ DOMAIN [en |-> TRUE] = {"en"}
      OBVIOUS
    <3>2. CASE TakeFlash
      BY <3>1, <3>2 DEF TakeFlash, Configure
    <3>3. CASE GiveBack
      BY <3>1, <3>3 DEF GiveBack, Configure
    <3> QED BY <1>6, <3>2, <3>3
  <2>3. cfg'.dummy = cfg.dummy
    <3>1. cfg \in CfgType
      BY DEF StepsInv
    <3>2. DOMAIN cfg = {"en", "ddr", "qspi", "cont", "dummy"}
      BY <3>1 DEF CfgType
    <3> QED BY <2>2, <3>2 DEF Updated
  <2> QED BY <1>2, <2>1, <2>3
<1>7. CASE WriteEnable \/ Transfer
  <2>1. said' = said /\ bad_ram' = bad_ram /\ cfg' = cfg
    BY <1>7 DEF WriteEnable, Transfer, busVars
  <2> QED BY <1>2, <2>1
<1>8. CASE Fetch
  <2>1. said' = said /\ bad_ram' = bad_ram /\ cfg' = cfg
    BY <1>8 DEF Fetch, Ask, fwVars
  <2> QED BY <1>2, <2>1
<1>9. CASE Memory
  <2>1. said' = said /\ bad_ram' = bad_ram /\ cfg' = cfg
    BY <1>9 DEF Memory, Controller, Wake, Release, Command, Address, Data, JumpTo, fwVars
  <2> QED BY <1>2, <2>1
<1>10. CASE UNCHANGED vars
  <2>1. said' = said /\ bad_ram' = bad_ram /\ cfg' = cfg
    BY <1>10 DEF vars, memVars, fwVars
  <2> QED BY <1>2, <2>1
<1> QED BY <1>3, <1>4, <1>5, <1>6, <1>7, <1>8, <1>9, <1>10 DEF Next, Firmware, Operations

\* What is printed is true, whichever keys are typed, for as long as the program is read
\* at all: numbers read back as themselves, the latency is the one in force, and the
\* memory test fails exactly where it can see a fault.
THEOREM AlwaysReportsTrue == Spec => []ReportsTrue
<1>1. Init => ReportsTrue
  <2>1. ASSUME said = [what |-> "nothing"] PROVE said.what = "nothing"
    BY <2>1
  <2> QED BY <2>1 DEF Init, ReportsTrue
<1>2. StepsInv /\ [Next]_vars => StepsInv'
  BY StepsNext
<1>3. StepsInv /\ ReportsTrue /\ [Next]_vars => ReportsTrue'
  BY ReportsNext
<1> QED BY <1>1, <1>2, <1>3, StepsInit, PTL DEF Spec

================================================================================
