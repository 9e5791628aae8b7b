---------------------------- MODULE Input_proofs ----------------------------
(***************************************************************************)
(* Proofs about Input, for every keyboard, every set of packets, packets   *)
(* of three and of four bytes, every screen and queues of any length.      *)
(***************************************************************************)
EXTENDS Input, SequenceTheorems, TLAPS

-----------------------------------------------------------------------------
(* Sequences.                                                               *)

LEMMA EmptyIsSeq == \A S : <<>> \in Seq(S) /\ Len(<<>>) = 0
  OBVIOUS

\* Tuples of bytes.
LEMMA Tuples ==
    ASSUME NEW S, NEW a \in S, NEW b \in S, NEW c \in S, NEW d \in S, NEW e \in S, NEW f \in S
    PROVE  <<a>> \in Seq(S) /\ <<a, b>> \in Seq(S) /\ <<a, b, c, d, e, f>> \in Seq(S)
  OBVIOUS

\* One byte in front of a queue.
LEMMA OneByte ==
    ASSUME NEW S, NEW b \in S, NEW f \in Seq(S)
    PROVE  /\ <<b>> \in Seq(S)
           /\ <<b>> \o f \in Seq(S) /\ <<b>> \o f # <<>> /\ Len(<<b>> \o f) = Len(f) + 1
           /\ Head(<<b>> \o f) = b /\ Tail(<<b>> \o f) = f
  <1>1. <<b>> \in Seq(S) /\ Len(<<b>>) = 1 /\ <<b>>[1] = b
    OBVIOUS
  <1>2. /\ <<b>> \o f \in Seq(S) /\ Len(<<b>> \o f) = Len(f) + 1
        /\ \A i \in 1 .. 1 + Len(f) : (<<b>> \o f)[i] = IF i <= 1 THEN <<b>>[i] ELSE f[i - 1]
    BY <1>1, ConcatProperties
  <1>3. <<b>> \o f # <<>>
    BY <1>2
  <1>4. Head(<<b>> \o f) = b
    BY <1>1, <1>2
  <1>5. Tail(<<b>> \o f) \in Seq(S) /\ Len(Tail(<<b>> \o f)) = Len(f)
        /\ \A i \in 1 .. Len(f) : Tail(<<b>> \o f)[i] = f[i]
    <2>1. /\ Tail(<<b>> \o f) \in Seq(S) /\ Len(Tail(<<b>> \o f)) = Len(f)
          /\ \A i \in 1 .. Len(f) : Tail(<<b>> \o f)[i] = (<<b>> \o f)[i + 1]
      BY <1>2, <1>3, HeadTailProperties
    <2> QED BY <2>1, <1>2
  <1>6. Tail(<<b>> \o f) = f
    BY <1>5, SeqEqual
  <1> QED BY <1>1, <1>2, <1>3, <1>4, <1>6

\* The first byte of a queue moves to the output buffer.
LEMMA FirstMoves ==
    ASSUME NEW S, NEW f \in Seq(S), f # <<>>
    PROVE  <<Head(f)>> \o Tail(f) = f
  <1>1. Head(f) \in S /\ Tail(f) \in Seq(S) /\ Len(Tail(f)) = Len(f) - 1
        /\ \A i \in 1 .. Len(Tail(f)) : Tail(f)[i] = f[i + 1]
    BY HeadTailProperties
  <1> DEFINE g == <<Head(f)>> \o Tail(f)
  <1>2. <<Head(f)>> \in Seq(S) /\ Len(<<Head(f)>>) = 1 /\ <<Head(f)>>[1] = f[1]
    BY <1>1
  <1>3. g \in Seq(S) /\ Len(g) = 1 + Len(Tail(f))
        /\ \A i \in 1 .. 1 + Len(Tail(f)) : g[i] = IF i <= 1 THEN <<Head(f)>>[i] ELSE Tail(f)[i - 1]
    BY <1>1, <1>2, ConcatProperties
  <1> HIDE DEF g
  <1>4. Len(g) = Len(f) /\ \A i \in 1 .. Len(f) : g[i] = f[i]
    BY <1>1, <1>2, <1>3
  <1> QED BY <1>3, <1>4, SeqEqual DEF g

\* Bytes behind a queue come one after the other.
LEMMA OneMore ==
    ASSUME NEW S, NEW q \in Seq(S), NEW b \in S, NEW f \in Seq(S)
    PROVE  /\ q \o <<b>> = Append(q, b) /\ q \o <<b>> \in Seq(S)
           /\ q \o (<<b>> \o f) = Append(q, b) \o f
  <1>1. Append(q, b) = q \o <<b>> /\ <<b>> \in Seq(S) /\ Append(q, b) \in Seq(S)
    BY AppendIsConcat, AppendProperties
  <1> QED BY <1>1, ConcatAssociative

LEMMA OneMoreByte ==
    ASSUME NEW q \in Seq(Int), NEW b \in Int, NEW f \in Seq(Int)
    PROVE  q \o (<<b>> \o f) = Append(q, b) \o f
  <1>1. Append(q, b) = q \o <<b>> /\ <<b>> \in Seq(Int)
    BY AppendIsConcat
  <1> QED BY <1>1, ConcatAssociative

-----------------------------------------------------------------------------
(* Remainders.                                                              *)

LEMMA OneRemainder ==
    ASSUME NEW P \in Nat \ {0}, NEW q \in Int, NEW r \in 0 .. P - 1
    PROVE  (P * q + r) % P = r
  OBVIOUS

LEMMA Division ==
    ASSUME NEW P \in Nat \ {0}, NEW a \in Int
    PROVE  a = P * (a \div P) + (a % P) /\ a \div P \in Int /\ a % P \in 0 .. P - 1
  OBVIOUS

\* The wrap may be left to the end.
LEMMA WrapLate ==
    ASSUME NEW P \in Nat \ {0}, NEW a \in Int, NEW d \in Int
    PROVE  ((a % P) + d) % P = (a + d) % P
  <1> DEFINE q == a \div P
             r == a % P
             k == (r + d) \div P
             t == (r + d) % P
  <1>1. a = P * q + r /\ q \in Int /\ r \in 0 .. P - 1
    BY Division
  <1>2. r + d \in Int
    BY <1>1
  <1>3. r + d = P * k + t /\ k \in Int /\ t \in 0 .. P - 1
    BY <1>2, Division
  <1> HIDE DEF q, r, k, t
  <1>4. a + d = P * (q + k) + t /\ q + k \in Int
    BY <1>1, <1>3
  <1>5. (a + d) % P = t
    BY <1>3, <1>4, OneRemainder
  <1> QED BY <1>5 DEF r, t

-----------------------------------------------------------------------------
(* Reading bytes of the keyboard.                                           *)

Flags == {"shift", "ctrl", "alt"}
Prefixes == {"none", "E0", "E1"}
Codes == AllKeys \cup {"ACKNOWLEDGE", "E0", "E1", "NUMLOCK"}
Bytes == [code : Codes, brk : BOOLEAN, ext : Prefixes, mods : SUBSET Flags]

\* The flags and the prefix after byte b is read with flags s and prefix x.
FlagsAfter(s, b) ==
    IF b.code \in {"ACKNOWLEDGE", "E0", "E1"} THEN s
    ELSE IF b.brk THEN s \ Modifier(b.code) ELSE s \cup Modifier(b.code)
PrefixAfter(x, b) ==
    IF b.code = "ACKNOWLEDGE" THEN x ELSE IF b.code \in {"E0", "E1"} THEN b.code ELSE "none"

\* The state of the handler is the right one for byte b; d allows flags that are missed.
Fits(s, x, b, d) ==
    b.code \notin {"ACKNOWLEDGE", "E0", "E1", "NUMLOCK"} =>
        /\ x = b.ext
        /\ Modifier(b.code) = {} => s \subseteq b.mods /\ (s = b.mods \/ d)

\* Reading queue q from flags s0 and prefix x0 goes through the flags S and the prefixes X
\* and finds the right state at every byte.
Reading(q, s0, x0, S, X, d) ==
    /\ S[1] = s0 /\ X[1] = x0
    /\ \A i \in 1 .. Len(q) :
          /\ S[i + 1] = FlagsAfter(S[i], q[i]) /\ X[i + 1] = PrefixAfter(X[i], q[i])
          /\ Fits(S[i], X[i], q[i], d)

\* It ends with flags s and prefix x.
Leads(q, s0, x0, s, x, d) ==
    \E S \in [1 .. Len(q) + 1 -> SUBSET Flags], X \in [1 .. Len(q) + 1 -> Prefixes] :
        Reading(q, s0, x0, S, X, d) /\ S[Len(q) + 1] = s /\ X[Len(q) + 1] = x

LEMMA ModifierType == \A k : Modifier(k) \in SUBSET Flags
  BY DEF Modifier, Flags

LEMMA AfterType ==
    ASSUME NEW s \in SUBSET Flags, NEW x \in Prefixes, NEW b \in Bytes
    PROVE  FlagsAfter(s, b) \in SUBSET Flags /\ PrefixAfter(x, b) \in Prefixes
  BY ModifierType DEF FlagsAfter, PrefixAfter, Prefixes, Bytes

LEMMA LeadsEmpty ==
    ASSUME NEW s \in SUBSET Flags, NEW x \in Prefixes, NEW d
    PROVE  Leads(<<>>, s, x, s, x, d)
  <1> DEFINE S == [i \in 1 .. 1 |-> s]
             X == [i \in 1 .. 1 |-> x]
  <1>1. S \in [1 .. Len(<<>>) + 1 -> SUBSET Flags] /\ X \in [1 .. Len(<<>>) + 1 -> Prefixes]
    OBVIOUS
  <1>2. Reading(<<>>, s, x, S, X, d) /\ S[Len(<<>>) + 1] = s /\ X[Len(<<>>) + 1] = x
    BY DEF Reading
  <1> QED BY <1>1, <1>2 DEF Leads

\* A byte that comes fits if the state at the end of the queue is the right one for it.
LEMMA LeadsAppend ==
    ASSUME NEW q \in Seq(Bytes), NEW b \in Bytes, NEW d,
           NEW s0, NEW x0, NEW s \in SUBSET Flags, NEW x \in Prefixes,
           Leads(q, s0, x0, s, x, d), Fits(s, x, b, d)
    PROVE  Leads(Append(q, b), s0, x0, FlagsAfter(s, b), PrefixAfter(x, b), d)
  <1> DEFINE n == Len(q)
             r == Append(q, b)
             fs == FlagsAfter(s, b)
             px == PrefixAfter(x, b)
  <1>1. PICK S \in [1 .. n + 1 -> SUBSET Flags], X \in [1 .. n + 1 -> Prefixes] :
            Reading(q, s0, x0, S, X, d) /\ S[n + 1] = s /\ X[n + 1] = x
    BY DEF Leads
  <1>2. n \in Nat /\ r \in Seq(Bytes) /\ Len(r) = n + 1
        /\ (\A i \in 1 .. n : r[i] = q[i]) /\ r[n + 1] = b
    BY AppendProperties
  <1>3. fs \in SUBSET Flags /\ px \in Prefixes
    BY AfterType
  <1> DEFINE T == [i \in 1 .. n + 2 |-> IF i = n + 2 THEN fs ELSE S[i]]
             Y == [i \in 1 .. n + 2 |-> IF i = n + 2 THEN px ELSE X[i]]
  <1> HIDE DEF n, r, fs, px
  <1>4. T \in [1 .. n + 2 -> SUBSET Flags] /\ Y \in [1 .. n + 2 -> Prefixes]
    BY <1>2, <1>3
  <1>5. /\ T[n + 2] = fs /\ Y[n + 2] = px
        /\ \A i \in 1 .. n + 1 : T[i] = S[i] /\ Y[i] = X[i]
    BY <1>2
  <1> HIDE DEF T, Y
  <1>6. Reading(r, s0, x0, T, Y, d)
    <2>1. T[1] = s0 /\ Y[1] = x0
      BY <1>1, <1>2, <1>5 DEF Reading
    <2>2. ASSUME NEW i \in 1 .. n + 1
          PROVE  /\ T[i + 1] = FlagsAfter(T[i], r[i]) /\ Y[i + 1] = PrefixAfter(Y[i], r[i])
                 /\ Fits(T[i], Y[i], r[i], d)
      <3>1. CASE i = n + 1
        <4>1. i + 1 = n + 2 /\ T[i] = s /\ Y[i] = x /\ r[i] = b
          BY <3>1, <1>1, <1>2, <1>5
        <4> QED BY <4>1, <1>5 DEF fs, px
      <3>2. CASE i # n + 1
        <4>1. i \in 1 .. n /\ i + 1 \in 1 .. n + 1
          BY <3>2, <1>2
        <4>2. T[i + 1] = S[i + 1] /\ T[i] = S[i] /\ Y[i + 1] = X[i + 1] /\ Y[i] = X[i] /\ r[i] = q[i]
          BY <4>1, <1>2, <1>5
        <4>3. /\ S[i + 1] = FlagsAfter(S[i], q[i]) /\ X[i + 1] = PrefixAfter(X[i], q[i])
              /\ Fits(S[i], X[i], q[i], d)
          BY <4>1, <1>1 DEF Reading, n
        <4> QED BY <4>2, <4>3
      <3> QED BY <3>1, <3>2
    <2> QED BY <2>1, <2>2, <1>2 DEF Reading
  <1>7. Len(r) + 1 = n + 2
    BY <1>2
  <1>8. Leads(r, s0, x0, fs, px, d)
    BY <1>4, <1>5, <1>6, <1>7 DEF Leads
  <1> QED BY <1>8 DEF r, fs, px

\* The byte that is read first fits, and the rest leads on from there.
LEMMA LeadsPop ==
    ASSUME NEW q \in Seq(Bytes), q # <<>>, NEW d,
           NEW s0, NEW x0, NEW s, NEW x, Leads(q, s0, x0, s, x, d)
    PROVE  /\ Fits(s0, x0, Head(q), d)
           /\ Leads(Tail(q), FlagsAfter(s0, Head(q)), PrefixAfter(x0, Head(q)), s, x, d)
  <1> DEFINE n == Len(q)
             r == Tail(q)
             b == Head(q)
  <1>1. PICK S \in [1 .. n + 1 -> SUBSET Flags], X \in [1 .. n + 1 -> Prefixes] :
            Reading(q, s0, x0, S, X, d) /\ S[n + 1] = s /\ X[n + 1] = x
    BY DEF Leads
  <1>2. n \in Nat /\ n > 0 /\ r \in Seq(Bytes) /\ Len(r) = n - 1
        /\ (\A i \in 1 .. n - 1 : r[i] = q[i + 1]) /\ q[1] = b
    BY HeadTailProperties
  <1> DEFINE T == [i \in 1 .. n |-> S[i + 1]]
             Y == [i \in 1 .. n |-> X[i + 1]]
  <1> HIDE DEF n, r, b
  <1>3. T \in [1 .. n -> SUBSET Flags] /\ Y \in [1 .. n -> Prefixes]
    BY <1>2
  <1>4. \A i \in 1 .. n : T[i] = S[i + 1] /\ Y[i] = X[i + 1]
    OBVIOUS
  <1> HIDE DEF T, Y
  <1>5. \A i \in 1 .. n : /\ S[i + 1] = FlagsAfter(S[i], q[i]) /\ X[i + 1] = PrefixAfter(X[i], q[i])
                          /\ Fits(S[i], X[i], q[i], d)
    BY <1>1 DEF Reading, n
  <1>6. 1 \in 1 .. n /\ S[1] = s0 /\ X[1] = x0
    BY <1>1, <1>2 DEF Reading
  <1>7. Fits(s0, x0, b, d) /\ T[1] = FlagsAfter(s0, b) /\ Y[1] = PrefixAfter(x0, b)
    BY <1>2, <1>4, <1>5, <1>6
  <1>8. Reading(r, FlagsAfter(s0, b), PrefixAfter(x0, b), T, Y, d)
    <2>1. ASSUME NEW i \in 1 .. n - 1
          PROVE  /\ T[i + 1] = FlagsAfter(T[i], r[i]) /\ Y[i + 1] = PrefixAfter(Y[i], r[i])
                 /\ Fits(T[i], Y[i], r[i], d)
      <3>1. i \in 1 .. n /\ i + 1 \in 1 .. n
        BY <1>2
      <3>2. T[i] = S[i + 1] /\ Y[i] = X[i + 1] /\ T[i + 1] = S[i + 1 + 1] /\ Y[i + 1] = X[i + 1 + 1]
            /\ r[i] = q[i + 1]
        BY <3>1, <1>2, <1>4
      <3> QED BY <3>1, <3>2, <1>5
    <2> QED BY <2>1, <1>2, <1>7 DEF Reading
  <1>9. Len(r) + 1 = n /\ n \in 1 .. n /\ T[n] = s /\ Y[n] = x
    BY <1>1, <1>2, <1>4
  <1>10. Leads(r, FlagsAfter(s0, b), PrefixAfter(x0, b), s, x, d)
    BY <1>3, <1>8, <1>9 DEF Leads
  <1> QED BY <1>7, <1>10 DEF r, b

\* More may be allowed later.
LEMMA LeadsWeaken ==
    ASSUME NEW q, NEW s0, NEW x0, NEW s, NEW x, NEW d, NEW e,
           Leads(q, s0, x0, s, x, d), d => e
    PROVE  Leads(q, s0, x0, s, x, e)
  BY Zenon DEF Leads, Reading, Fits

-----------------------------------------------------------------------------
(* What the buffers hold.                                                   *)

KbdOut == [from : {"kbd"}, byte : Bytes]
MouseOut == [from : {"aux"}, data : Int]

Shape ==
    /\ out \in {Empty} \cup KbdOut \cup MouseOut
    /\ kfifo \in Seq(Bytes) /\ mfifo \in Seq(Int) /\ buffer_mouse \in Seq(Int)

LEMMA OutFacts ==
    ASSUME Shape
    PROVE  /\ out.from \in {"none", "kbd", "aux"}
           /\ out = Empty <=> out.from = "none"
           /\ out.from = "kbd" => out \in KbdOut /\ out.byte \in Bytes
           /\ out.from = "aux" => out \in MouseOut /\ out.data \in Int
  <1>1. CASE out = Empty
    BY <1>1 DEF Empty
  <1>2. CASE out \in KbdOut
    BY <1>2 DEF KbdOut, Empty
  <1>3. CASE out \in MouseOut
    BY <1>3 DEF MouseOut, Empty
  <1> QED BY <1>1, <1>2, <1>3 DEF Shape

LEMMA EmptyFacts == Empty.from = "none"
  BY DEF Empty

LEMMA ModifiersType == Modifiers \in SUBSET Flags
  BY ModifierType DEF Modifiers

LEMMA ByteType ==
    ASSUME NEW c \in Codes, NEW r \in BOOLEAN, NEW e \in Prefixes
    PROVE  /\ Byte(c, r, e) \in Bytes
           /\ Byte(c, r, e).code = c /\ Byte(c, r, e).brk = r
           /\ Byte(c, r, e).ext = e /\ Byte(c, r, e).mods = Modifiers
  BY ModifiersType DEF Byte, Bytes

LEMMA CodeTypes ==
    /\ \A k \in AllKeys : k \in Codes
    /\ {"ACKNOWLEDGE", "E0", "E1", "NUMLOCK", "LCONTROL", "LMENU", "UP", "INSERT"} \subseteq Codes
    /\ {"none", "E0", "E1"} \subseteq Prefixes /\ FALSE \in BOOLEAN /\ TRUE \in BOOLEAN
    /\ \A k \in DOMAIN Extended : Extended[k] \in Codes
    /\ \A k \in Keys : k \in AllKeys
  <1>1. \A k \in AllKeys : k \in Codes
    BY DEF Codes
  <1>2. {"ACKNOWLEDGE", "E0", "E1", "NUMLOCK", "LCONTROL", "LMENU", "UP", "INSERT"} \subseteq Codes
    BY DEF Codes, AllKeys
  <1>3. {"none", "E0", "E1"} \subseteq Prefixes /\ FALSE \in BOOLEAN /\ TRUE \in BOOLEAN
    BY DEF Prefixes
  <1>4. \A k \in DOMAIN Extended : Extended[k] \in {"LCONTROL", "LMENU", "UP", "INSERT"}
    BY DEF Extended
  <1>5. \A k \in Keys : k \in AllKeys
    BY KeysAssumption
  <1> QED BY <1>1, <1>2, <1>3, <1>4, <1>5

\* The three forms of a key's bytes.
LEMMA KeyBytesForms ==
    ASSUME NEW k \in Keys, NEW r \in BOOLEAN
    PROVE  /\ KeyBytes(k, r) \in Seq(Bytes)
           /\ k = "PAUSE" =>
                KeyBytes(k, r) = <<Byte("E1", FALSE, "none"), Byte("LCONTROL", FALSE, "E1"),
                                   Byte("NUMLOCK", FALSE, "none"), Byte("E1", FALSE, "none"),
                                   Byte("LCONTROL", TRUE, "E1"), Byte("NUMLOCK", TRUE, "none")>>
           /\ k \in DOMAIN Extended =>
                KeyBytes(k, r) = <<Byte("E0", FALSE, "none"), Byte(Extended[k], r, "E0")>>
           /\ k # "PAUSE" /\ k \notin DOMAIN Extended => KeyBytes(k, r) = <<Byte(k, r, "none")>>
  <1>1. "PAUSE" \notin DOMAIN Extended
    BY DEF Extended
  <1>2. /\ Byte("E1", FALSE, "none") \in Bytes /\ Byte("LCONTROL", FALSE, "E1") \in Bytes
        /\ Byte("NUMLOCK", FALSE, "none") \in Bytes /\ Byte("LCONTROL", TRUE, "E1") \in Bytes
        /\ Byte("NUMLOCK", TRUE, "none") \in Bytes /\ Byte("E0", FALSE, "none") \in Bytes
    BY ByteType, CodeTypes
  <1>3. k \in DOMAIN Extended => Byte(Extended[k], r, "E0") \in Bytes
    BY ByteType, CodeTypes
  <1>4. Byte(k, r, "none") \in Bytes
    BY ByteType, CodeTypes
  <1>5. CASE k = "PAUSE"
    <2>1. KeyBytes(k, r) = <<Byte("E1", FALSE, "none"), Byte("LCONTROL", FALSE, "E1"),
                             Byte("NUMLOCK", FALSE, "none"), Byte("E1", FALSE, "none"),
                             Byte("LCONTROL", TRUE, "E1"), Byte("NUMLOCK", TRUE, "none")>>
      BY <1>5, Zenon DEF KeyBytes
    <2>2. KeyBytes(k, r) \in Seq(Bytes)
      <3> DEFINE e1 == Byte("E1", FALSE, "none")
                 c1 == Byte("LCONTROL", FALSE, "E1")
                 n1 == Byte("NUMLOCK", FALSE, "none")
                 c2 == Byte("LCONTROL", TRUE, "E1")
                 n2 == Byte("NUMLOCK", TRUE, "none")
      <3>1. e1 \in Bytes /\ c1 \in Bytes /\ n1 \in Bytes /\ c2 \in Bytes /\ n2 \in Bytes
        BY <1>2
      <3>2. KeyBytes(k, r) = <<e1, c1, n1, e1, c2, n2>>
        BY <2>1
      <3> HIDE DEF e1, c1, n1, c2, n2
      <3> QED BY <3>1, <3>2, Tuples
    <2> QED BY <1>1, <1>5, <2>1, <2>2, Zenon
  <1>6. CASE k \in DOMAIN Extended
    BY <1>1, <1>2, <1>3, <1>6, Tuples, Zenon DEF KeyBytes
  <1>7. CASE k # "PAUSE" /\ k \notin DOMAIN Extended
    BY <1>4, <1>7, Tuples, Zenon DEF KeyBytes
  <1> QED BY <1>5, <1>6, <1>7

LEMMA InitShape == Init => Shape
  <1> SUFFICES ASSUME Init PROVE Shape
    OBVIOUS
  <1>1. Byte("ACKNOWLEDGE", FALSE, "none") \in Bytes
    BY ByteType, CodeTypes
  <1>2. kfifo \in Seq(Bytes)
    BY <1>1, Tuples, EmptyIsSeq, Zenon DEF Init
  <1>3. mfifo \in Seq(Int)
    <2>1. mfifo = <<>> \/ \E a \in Answers : mfifo = <<a>>
      BY Zenon DEF Init
    <2>2. \A a \in Answers : a \in Int
      BY AnswersAssumption
    <2> QED BY <2>1, <2>2, EmptyIsSeq, Tuples
  <1> QED BY <1>2, <1>3 DEF Init, Shape

HeadByte(p) ==
    Sum(p.buttons) + 8 + (IF p.dx < 0 THEN 16 ELSE 0) + (IF p.dy < 0 THEN 32 ELSE 0) + p.overflow

\* What the mouse sends for a packet.
Sent(p) == SubSeq(<<HeadByte(p), p.dx % 256, p.dy % 256, 0>>, 1, PacketLength)

LEMMA PacketFields ==
    ASSUME NEW p \in Packets
    PROVE  /\ p.buttons \in SUBSET Buttons /\ p.dx \in -256 .. 255 /\ p.dx \in Int
           /\ p.dy \in Int /\ p.overflow \in {0, 64, 128, 192}
  <1>1. p \in [buttons : SUBSET Buttons, dx : -256 .. 255, dy : -256 .. 255, overflow : {0, 64, 128, 192}]
    BY PacketsAssumption
  <1>2. p.buttons \in SUBSET Buttons /\ p.dx \in -256 .. 255 /\ p.dy \in -256 .. 255
        /\ p.overflow \in {0, 64, 128, 192}
    BY <1>1
  <1> QED BY <1>2

\* The bytes of a packet are integers.
LEMMA PacketBytes ==
    ASSUME NEW p \in Packets
    PROVE  /\ Sent(p) \in Seq(Int) /\ Len(Sent(p)) = PacketLength
           /\ Sent(p)[1] = HeadByte(p) /\ Sent(p)[2] = p.dx % 256
  <1>1. p.buttons \in SUBSET Buttons /\ p.dx \in Int /\ p.dy \in Int /\ p.overflow \in {0, 64, 128, 192}
    BY PacketFields
  <1>2. HeadByte(p) \in Int /\ p.dx % 256 \in Int /\ p.dy % 256 \in Int /\ PacketLength \in {3, 4}
    BY <1>1 DEF HeadByte, Sum, PacketLength
  <1> DEFINE a == HeadByte(p)
             c == p.dx % 256
             e == p.dy % 256
             w == <<a, c, e, 0>>
             L == PacketLength
  <1> HIDE DEF a, c, e, L
  <1>3. a \in Int /\ c \in Int /\ e \in Int /\ L \in {3, 4} /\ L \in Int
    BY <1>2 DEF a, c, e, L
  <1>4. \A i \in 1 .. L : w[i] \in Int
    BY <1>3
  <1>5. /\ SubSeq(w, 1, L) \in Seq(Int) /\ Len(SubSeq(w, 1, L)) = IF 1 <= L THEN L - 1 + 1 ELSE 0
        /\ \A i \in 1 .. L - 1 + 1 : SubSeq(w, 1, L)[i] = w[1 + i - 1]
    <2> HIDE DEF w
    <2> QED BY <1>3, <1>4, SubSeqProperties
  <1>6. w[1] = a /\ w[2] = c
    OBVIOUS
  <1> HIDE DEF w
  <1>7. Len(SubSeq(w, 1, L)) = L /\ SubSeq(w, 1, L)[1] = w[1] /\ SubSeq(w, 1, L)[2] = w[2]
    BY <1>3, <1>5
  <1>8. Sent(p) = SubSeq(w, 1, L)
    BY DEF Sent, a, c, e, L, w
  <1> QED BY <1>5, <1>6, <1>7, <1>8 DEF a, c, L

LEMMA UnreadShape ==
    ASSUME Shape
    PROVE  /\ KbdUnread \in Seq(Bytes) /\ MouseUnread \in Seq(Int)
           /\ out.from # "kbd" => KbdUnread = kfifo
           /\ out.from = "kbd" => KbdUnread # <<>> /\ Head(KbdUnread) = out.byte /\ Tail(KbdUnread) = kfifo
           /\ out.from # "aux" => MouseUnread = mfifo
           /\ out.from = "aux" => MouseUnread = <<out.data>> \o mfifo
  <1>1. kfifo \in Seq(Bytes) /\ mfifo \in Seq(Int)
    BY DEF Shape
  <1>2. <<>> \o kfifo = kfifo /\ <<>> \o mfifo = mfifo
    BY <1>1, ConcatEmptySeq
  <1>3. out.from = "kbd" => KbdUnread = <<out.byte>> \o kfifo /\ out.byte \in Bytes
    BY OutFacts DEF KbdUnread
  <1>4. out.from = "aux" => MouseUnread = <<out.data>> \o mfifo /\ out.data \in Int
    BY OutFacts DEF MouseUnread
  <1>5. out.from # "kbd" => KbdUnread = kfifo
    BY <1>2 DEF KbdUnread
  <1>6. out.from # "aux" => MouseUnread = mfifo
    BY <1>2 DEF MouseUnread
  <1>7. ASSUME out.from = "kbd"
        PROVE  /\ KbdUnread \in Seq(Bytes) /\ KbdUnread # <<>>
               /\ Head(KbdUnread) = out.byte /\ Tail(KbdUnread) = kfifo
    <2>1. out.byte \in Bytes /\ KbdUnread = <<out.byte>> \o kfifo
      BY <1>3, <1>7
    <2> QED BY <1>1, <2>1, OneByte, Zenon
  <1>8. ASSUME out.from = "aux" PROVE MouseUnread \in Seq(Int)
    <2>1. out.data \in Int /\ MouseUnread = <<out.data>> \o mfifo
      BY <1>4, <1>8
    <2> QED BY <1>1, <2>1, OneByte, Zenon
  <1> QED BY <1>1, <1>4, <1>5, <1>6, <1>7, <1>8

\* Bytes that a device sends wait behind the others.
LEMMA UnreadGrows ==
    ASSUME Shape, UNCHANGED out
    PROVE  /\ \A f \in Seq(Bytes) : kfifo' = kfifo \o f => KbdUnread' = KbdUnread \o f
           /\ \A f \in Seq(Int) : mfifo' = mfifo \o f => MouseUnread' = MouseUnread \o f
  <1>1. kfifo \in Seq(Bytes) /\ mfifo \in Seq(Int)
    BY DEF Shape
  <1>2. ASSUME NEW f \in Seq(Bytes), kfifo' = kfifo \o f PROVE KbdUnread' = KbdUnread \o f
    <2>1. CASE out.from = "kbd"
      <3>1. KbdUnread = <<out.byte>> \o kfifo /\ KbdUnread' = <<out.byte>> \o (kfifo \o f)
        BY <1>2, <2>1 DEF KbdUnread
      <3>2. <<out.byte>> \in Seq(Bytes)
        BY <1>1, <2>1, OutFacts, OneByte
      <3>3. (<<out.byte>> \o kfifo) \o f = <<out.byte>> \o (kfifo \o f)
        BY <1>1, <3>2, ConcatAssociative
      <3> QED BY <3>1, <3>3, Zenon
    <2>2. CASE out.from # "kbd"
      <3>1. KbdUnread = <<>> \o kfifo /\ KbdUnread' = <<>> \o (kfifo \o f)
        BY <1>2, <2>2 DEF KbdUnread
      <3> QED BY <1>1, <3>1, EmptyIsSeq, ConcatAssociative
    <2> QED BY <2>1, <2>2
  <1>3. ASSUME NEW f \in Seq(Int), mfifo' = mfifo \o f PROVE MouseUnread' = MouseUnread \o f
    <2>1. CASE out.from = "aux"
      <3>1. MouseUnread = <<out.data>> \o mfifo /\ MouseUnread' = <<out.data>> \o (mfifo \o f)
        BY <1>3, <2>1 DEF MouseUnread
      <3>2. <<out.data>> \in Seq(Int)
        BY <1>1, <2>1, OutFacts, OneByte
      <3>3. (<<out.data>> \o mfifo) \o f = <<out.data>> \o (mfifo \o f)
        BY <1>1, <3>2, ConcatAssociative
      <3> QED BY <3>1, <3>3, Zenon
    <2>2. CASE out.from # "aux"
      <3>1. MouseUnread = <<>> \o mfifo /\ MouseUnread' = <<>> \o (mfifo \o f)
        BY <1>3, <2>2 DEF MouseUnread
      <3> QED BY <1>1, <3>1, EmptyIsSeq, ConcatAssociative
    <2> QED BY <2>1, <2>2
  <1> QED BY <1>2, <1>3

\* The steps that concern neither the keyboard's bytes nor the state kept for them, and
\* likewise for the mouse.
KbdQuiet == UNCHANGED <<KbdUnread, keys, doubled, status, __prefix>>
MouseStill ==
    UNCHANGED <<pressed, hand, far, stray, buffer_mouse, mbuttons_old_state, mouse_x, told, shown, swallowed, late>>
MouseQuiet == UNCHANGED MouseUnread /\ MouseStill

LEMMA LoadKbdEffect ==
    ASSUME Shape, LoadKbd
    PROVE  Shape' /\ KbdQuiet /\ MouseQuiet
  <1>1. out.from = "none" /\ kfifo \in Seq(Bytes) /\ kfifo # <<>>
        /\ mfifo \in Seq(Int) /\ buffer_mouse \in Seq(Int)
    BY EmptyFacts DEF LoadKbd, Shape
  <1>2. Head(kfifo) \in Bytes /\ Tail(kfifo) \in Seq(Bytes)
    BY <1>1, HeadTailProperties
  <1>3. out' = [from |-> "kbd", byte |-> Head(kfifo)] /\ kfifo' = Tail(kfifo) /\ mfifo' = mfifo
        /\ buffer_mouse' = buffer_mouse
    BY DEF LoadKbd, mouse
  <1>4. out' \in KbdOut /\ out'.from = "kbd" /\ out'.byte = Head(kfifo)
    BY <1>2, <1>3 DEF KbdOut
  <1>5. Shape'
    BY <1>1, <1>2, <1>3, <1>4 DEF Shape
  <1>6. KbdUnread' = <<Head(kfifo)>> \o Tail(kfifo) /\ MouseUnread' = <<>> \o mfifo
    BY <1>3, <1>4 DEF KbdUnread, MouseUnread
  <1>7. KbdUnread' = KbdUnread /\ MouseUnread' = MouseUnread
    BY <1>1, <1>6, FirstMoves, UnreadShape, ConcatEmptySeq
  <1> QED BY <1>5, <1>7 DEF LoadKbd, KbdQuiet, MouseQuiet, MouseStill, user, kbd, mouse

LEMMA LoadMouseEffect ==
    ASSUME Shape, LoadMouse
    PROVE  Shape' /\ KbdQuiet /\ MouseQuiet
  <1>1. out.from = "none" /\ mfifo \in Seq(Int) /\ mfifo # <<>>
        /\ kfifo \in Seq(Bytes) /\ buffer_mouse \in Seq(Int)
    BY EmptyFacts DEF LoadMouse, Shape
  <1>2. Head(mfifo) \in Int /\ Tail(mfifo) \in Seq(Int)
    BY <1>1, HeadTailProperties
  <1>3. out' = [from |-> "aux", data |-> Head(mfifo)] /\ mfifo' = Tail(mfifo) /\ kfifo' = kfifo
        /\ buffer_mouse' = buffer_mouse
    BY DEF LoadMouse, mouse
  <1>4. out' \in MouseOut /\ out'.from = "aux" /\ out'.data = Head(mfifo)
    BY <1>2, <1>3 DEF MouseOut
  <1>5. Shape'
    BY <1>1, <1>2, <1>3, <1>4 DEF Shape
  <1>6. MouseUnread' = <<Head(mfifo)>> \o Tail(mfifo) /\ KbdUnread' = <<>> \o kfifo
    BY <1>3, <1>4 DEF KbdUnread, MouseUnread
  <1>7. KbdUnread' = KbdUnread /\ MouseUnread' = MouseUnread
    BY <1>1, <1>6, FirstMoves, UnreadShape, ConcatEmptySeq
  <1> QED BY <1>5, <1>7 DEF LoadMouse, KbdQuiet, MouseQuiet, MouseStill, user, kbd, mouse

\* Steps that leave the buffers alone.
LEMMA IdleEffect ==
    ASSUME Shape, irq1_KEYBOARD \/ irq12_MOUSE \/ KbdReturn \/ MouseReturn \/ UNCHANGED vars
    PROVE  Shape' /\ KbdQuiet /\ MouseQuiet
  <1>1. UNCHANGED <<out, kfifo, mfifo, user, kbd, mouse>>
    BY DEF irq1_KEYBOARD, irq12_MOUSE, KbdReturn, MouseReturn, vars, controller
  <1>2. UNCHANGED <<KbdUnread, MouseUnread>>
    BY <1>1 DEF KbdUnread, MouseUnread
  <1>3. Shape'
    BY <1>1 DEF Shape, mouse
  <1> QED BY <1>1, <1>2, <1>3 DEF KbdQuiet, MouseQuiet, MouseStill, user, kbd, mouse

\* A byte of the keyboard is read.
LEMMA KbdReadEffect ==
    ASSUME Shape, KbdAck \/ KbdPrefix \/ KbdByte
    PROVE  /\ Shape' /\ MouseQuiet
           /\ KbdUnread # <<>> /\ Head(KbdUnread) = out.byte /\ out.byte \in Bytes
           /\ KbdUnread' = Tail(KbdUnread) /\ UNCHANGED <<keys, doubled>>
           /\ status' = FlagsAfter(status, out.byte) /\ __prefix' = PrefixAfter(__prefix, out.byte)
  <1>1. out.from = "kbd" /\ out' = Empty /\ UNCHANGED <<kfifo, mfifo, user, mouse>>
    BY DEF KbdAck, KbdPrefix, KbdByte, ReadKbd
  <1>2. out'.from = "none"
    BY <1>1, EmptyFacts
  <1>3. KbdUnread' = <<>> \o kfifo /\ MouseUnread' = <<>> \o mfifo
    BY <1>1, <1>2 DEF KbdUnread, MouseUnread
  <1>4. kfifo \in Seq(Bytes) /\ mfifo \in Seq(Int)
    BY DEF Shape
  <1>5. KbdUnread' = kfifo /\ MouseUnread' = mfifo
    BY <1>3, <1>4, ConcatEmptySeq
  <1>6. KbdUnread' = Tail(KbdUnread) /\ MouseUnread' = MouseUnread /\ Head(KbdUnread) = out.byte
        /\ KbdUnread # <<>> /\ out.byte \in Bytes
    BY <1>1, <1>5, UnreadShape, OutFacts
  <1>7. Shape'
    BY <1>1 DEF Shape, mouse
  <1>8. status' = FlagsAfter(status, out.byte) /\ __prefix' = PrefixAfter(__prefix, out.byte)
    BY DEF KbdAck, KbdPrefix, KbdByte, AfterByte, FlagsAfter, PrefixAfter, kbd
  <1> QED BY <1>1, <1>6, <1>7, <1>8 DEF MouseQuiet, MouseStill, user, mouse

-----------------------------------------------------------------------------
(* The keyboard's invariant: reading what waits leads to the modifiers that  *)
(* the user holds now, and finds the right state at every byte on the way.   *)

\* No two keys that are held share a modifier.
Disjoint == \A j \in keys, k \in keys : j # k => Modifier(j) \cap Modifier(k) = {}

\* The flags that the user's keys have come to.
Known(s) == s \in SUBSET Flags /\ s \subseteq Modifiers /\ (s = Modifiers \/ doubled)

KbdInv ==
    /\ keys \subseteq Keys /\ "PAUSE" \notin keys
    /\ status \in SUBSET Flags /\ __prefix \in Prefixes /\ doubled \in BOOLEAN
    /\ ~doubled => Disjoint
    /\ \E s : Known(s) /\ Leads(KbdUnread, status, __prefix, s, "none", doubled)

LEMMA ModifierFacts ==
    /\ Modifier("LCONTROL") = {"ctrl"} /\ Modifier("NUMLOCK") = {} /\ Modifier("PAUSE") = {}
    /\ \A k \in DOMAIN Extended : Modifier(Extended[k]) = Modifier(k)
  <1>1. /\ Modifier("LCONTROL") = {"ctrl"} /\ Modifier("NUMLOCK") = {} /\ Modifier("PAUSE") = {}
        /\ Modifier("RCONTROL") = {"ctrl"} /\ Modifier("UP") = {} /\ Modifier("INSERT") = {}
        /\ Modifier("ALTGR") = {"alt"} /\ Modifier("LMENU") = {"alt"}
    BY Zenon DEF Modifier
  <1>2. /\ DOMAIN Extended = {"RCONTROL", "ALTGR", "UP", "INSERT"}
        /\ Extended["RCONTROL"] = "LCONTROL" /\ Extended["ALTGR"] = "LMENU"
        /\ Extended["UP"] = "UP" /\ Extended["INSERT"] = "INSERT"
    BY DEF Extended
  <1> QED BY <1>1, <1>2, Zenon

LEMMA InitKbd == Init => Shape /\ KbdInv
  <1> SUFFICES ASSUME Init PROVE Shape /\ KbdInv
    OBVIOUS
  <1>1. Shape /\ out.from = "none"
    BY InitShape, EmptyFacts DEF Init
  <1>2. /\ keys = {} /\ status = {} /\ __prefix = "none" /\ doubled = FALSE
        /\ kfifo \in {<<>>, <<Byte("ACKNOWLEDGE", FALSE, "none")>>}
    BY DEF Init
  <1>3. KbdUnread = kfifo
    BY <1>1, UnreadShape
  <1>4. Modifiers = {}
    BY <1>2 DEF Modifiers
  <1>5. Leads(<<>>, {}, "none", {}, "none", FALSE)
    BY LeadsEmpty DEF Prefixes
  <1> DEFINE b == Byte("ACKNOWLEDGE", FALSE, "none")
  <1>6. b \in Bytes /\ b.code = "ACKNOWLEDGE"
    BY ModifiersType, CodeTypes DEF Byte, Bytes
  <1> HIDE DEF b
  <1>7. /\ Fits({}, "none", b, FALSE)
        /\ FlagsAfter({}, b) = {} /\ PrefixAfter("none", b) = "none"
    BY <1>6 DEF Fits, FlagsAfter, PrefixAfter
  <1>8. Leads(<<b>>, {}, "none", {}, "none", FALSE)
    <2>1. Append(<<>>, b) = <<b>> /\ <<>> \in Seq(Bytes)
      OBVIOUS
    <2>2. {} \in SUBSET Flags /\ "none" \in Prefixes
      BY DEF Prefixes
    <2>3. Leads(Append(<<>>, b), {}, "none", FlagsAfter({}, b), PrefixAfter("none", b), FALSE)
      BY <1>5, <1>6, <1>7, <2>1, <2>2, LeadsAppend
    <2> QED BY <1>7, <2>1, <2>3
  <1>9. Leads(KbdUnread, {}, "none", {}, "none", FALSE)
    BY <1>2, <1>3, <1>5, <1>8, Zenon DEF b
  <1>10. Known({})
    BY <1>4 DEF Known
  <1> QED BY <1>1, <1>2, <1>9, <1>10 DEF KbdInv, Disjoint, Prefixes

\* Nothing that concerns the keyboard changes.
LEMMA KbdQuietStep == KbdInv /\ KbdQuiet => KbdInv'
  <1> SUFFICES ASSUME KbdInv, KbdQuiet PROVE KbdInv'
    OBVIOUS
  <1>1. Modifiers' = Modifiers /\ Disjoint' = Disjoint
    BY DEF KbdQuiet, Modifiers, Disjoint
  <1>2. PICK s : Known(s) /\ Leads(KbdUnread, status, __prefix, s, "none", doubled)
    BY DEF KbdInv
  <1>3. KbdUnread' = KbdUnread /\ keys' = keys /\ status' = status /\ __prefix' = __prefix /\ doubled' = doubled
    BY DEF KbdQuiet
  <1>4. Known(s)'
    BY <1>1, <1>2, <1>3 DEF Known
  <1>5. Leads(KbdUnread', status', __prefix', s, "none", doubled')
    BY <1>2, <1>3, Zenon
  <1> QED BY <1>1, <1>3, <1>4, <1>5 DEF KbdInv

\* A byte is read.
LEMMA KbdReadStep ==
    ASSUME Shape, KbdInv, KbdAck \/ KbdPrefix \/ KbdByte
    PROVE  KbdInv' /\ Fits(status, __prefix, out.byte, doubled)
  <1>1. PICK s : Known(s) /\ Leads(KbdUnread, status, __prefix, s, "none", doubled)
    BY DEF KbdInv
  <1>2. /\ KbdUnread \in Seq(Bytes) /\ KbdUnread # <<>> /\ Head(KbdUnread) = out.byte /\ out.byte \in Bytes
        /\ KbdUnread' = Tail(KbdUnread) /\ UNCHANGED <<keys, doubled>>
        /\ status' = FlagsAfter(status, out.byte) /\ __prefix' = PrefixAfter(__prefix, out.byte)
    BY KbdReadEffect, UnreadShape
  <1>3. /\ Fits(status, __prefix, out.byte, doubled)
        /\ Leads(KbdUnread', status', __prefix', s, "none", doubled)
    BY <1>1, <1>2, LeadsPop
  <1>4. Modifiers' = Modifiers /\ Disjoint' = Disjoint
    BY <1>2 DEF Modifiers, Disjoint
  <1>5. Known(s)'
    BY <1>1, <1>2, <1>4 DEF Known
  <1>6. status' \in SUBSET Flags /\ __prefix' \in Prefixes
    BY <1>2, AfterType DEF KbdInv
  <1>7. Leads(KbdUnread', status', __prefix', s, "none", doubled')
    BY <1>2, <1>3, Zenon
  <1> QED BY <1>2, <1>3, <1>4, <1>5, <1>6, <1>7 DEF KbdInv

\* A byte joins the queue.  The byte's record holds the modifiers of the moment.
LEMMA ByteJoins ==
    ASSUME NEW q \in Seq(Bytes), NEW s0, NEW x0, NEW s \in SUBSET Flags, NEW x \in Prefixes,
           NEW d, NEW c \in Codes, NEW r \in BOOLEAN, NEW e \in Prefixes,
           Leads(q, s0, x0, s, x, d),
           c \notin {"ACKNOWLEDGE", "E0", "E1", "NUMLOCK"} =>
               x = e /\ (Modifier(c) = {} => s \subseteq Modifiers /\ (s = Modifiers \/ d))
    PROVE  /\ Append(q, Byte(c, r, e)) \in Seq(Bytes)
           /\ c \in {"E0", "E1"} => Leads(Append(q, Byte(c, r, e)), s0, x0, s, c, d)
           /\ c \notin {"ACKNOWLEDGE", "E0", "E1"} =>
                 Leads(Append(q, Byte(c, r, e)), s0, x0,
                       IF r THEN s \ Modifier(c) ELSE s \cup Modifier(c), "none", d)
  <1> DEFINE b == Byte(c, r, e)
  <1>1. b \in Bytes /\ b.code = c /\ b.brk = r /\ b.ext = e /\ b.mods = Modifiers
    BY ModifiersType DEF Byte, Bytes
  <1> HIDE DEF b
  <1>2. Fits(s, x, b, d)
    BY <1>1 DEF Fits
  <1>3. Leads(Append(q, b), s0, x0, FlagsAfter(s, b), PrefixAfter(x, b), d)
    BY <1>1, <1>2, LeadsAppend
  <1>4. c \in {"E0", "E1"} => FlagsAfter(s, b) = s /\ PrefixAfter(x, b) = c
    BY <1>1 DEF FlagsAfter, PrefixAfter
  <1>5. c \notin {"ACKNOWLEDGE", "E0", "E1"} =>
            /\ FlagsAfter(s, b) = IF r THEN s \ Modifier(c) ELSE s \cup Modifier(c)
            /\ PrefixAfter(x, b) = "none"
    BY <1>1 DEF FlagsAfter, PrefixAfter
  <1>6. Append(q, b) \in Seq(Bytes)
    BY <1>1, AppendProperties
  <1> QED BY <1>3, <1>4, <1>5, <1>6 DEF b

\* The bytes of a key join the queue: they set or clear the key's modifier.
LEMMA KeyJoins ==
    ASSUME Shape, KbdInv, NEW k \in Keys, NEW r \in BOOLEAN, NEW d, doubled => d,
           UNCHANGED out, kfifo' = kfifo \o KeyBytes(k, r), k = "PAUSE" => ~r
    PROVE  \E s : /\ Known(s)
                  /\ Leads(KbdUnread', status, __prefix,
                           IF k = "PAUSE" THEN s \ {"ctrl"}
                           ELSE IF r THEN s \ Modifier(k) ELSE s \cup Modifier(k), "none", d)
  <1>1. PICK s : Known(s) /\ Leads(KbdUnread, status, __prefix, s, "none", doubled)
    BY DEF KbdInv
  <1> DEFINE q == KbdUnread
  <1>2. q \in Seq(Bytes) /\ Leads(q, status, __prefix, s, "none", d)
    <2>1. q \in Seq(Bytes)
      BY UnreadShape
    <2>2. Leads(q, status, __prefix, s, "none", doubled)
      BY <1>1
    <2> HIDE DEF q
    <2>3. Leads(q, status, __prefix, s, "none", d)
      BY <2>2, LeadsWeaken
    <2> QED BY <2>1, <2>3
  <1>3. KbdUnread' = q \o KeyBytes(k, r)
    BY UnreadGrows, KeyBytesForms
  <1>4. s \in SUBSET Flags /\ s \subseteq Modifiers /\ (s = Modifiers \/ d)
    BY <1>1 DEF Known
  <1>5. k \in Codes /\ "none" \in Prefixes /\ "E0" \in Prefixes /\ "E1" \in Prefixes
        /\ {"E0", "E1", "NUMLOCK", "LCONTROL"} \subseteq Codes /\ FALSE \in BOOLEAN /\ TRUE \in BOOLEAN
        /\ k \in AllKeys
    BY CodeTypes
  <1>6. k \notin {"ACKNOWLEDGE", "E0", "E1", "NUMLOCK"}
    BY <1>5 DEF AllKeys
  <1> HIDE DEF q
  <1>7. CASE k = "PAUSE"
    <2> DEFINE e1 == Byte("E1", FALSE, "none")
               c1 == Byte("LCONTROL", FALSE, "E1")
               n1 == Byte("NUMLOCK", FALSE, "none")
               c2 == Byte("LCONTROL", TRUE, "E1")
               n2 == Byte("NUMLOCK", TRUE, "none")
               q1 == Append(q, e1)
               q2 == Append(q1, c1)
               q3 == Append(q2, n1)
               q4 == Append(q3, e1)
               q5 == Append(q4, c2)
               q6 == Append(q5, n2)
               t == s \cup {"ctrl"}
               u == t \ {"ctrl"}
    <2>1. t \in SUBSET Flags /\ u \in SUBSET Flags /\ u = s \ {"ctrl"}
      BY <1>4 DEF Flags
    <2>2. q1 \in Seq(Bytes) /\ Leads(q1, status, __prefix, s, "E1", d)
      BY <1>2, <1>4, <1>5, ByteJoins, Zenon
    <2>3. q2 \in Seq(Bytes) /\ Leads(q2, status, __prefix, s \cup Modifier("LCONTROL"), "none", d)
      <3> HIDE DEF q1
      <3>1. Modifier("LCONTROL") # {} /\ "LCONTROL" \notin {"ACKNOWLEDGE", "E0", "E1", "NUMLOCK"}
        BY ModifierFacts
      <3>2. /\ Append(q1, Byte("LCONTROL", FALSE, "E1")) \in Seq(Bytes)
            /\ Leads(Append(q1, Byte("LCONTROL", FALSE, "E1")), status, __prefix,
                 IF FALSE THEN s \ Modifier("LCONTROL") ELSE s \cup Modifier("LCONTROL"), "none", d)
        BY <1>4, <1>5, <2>2, <3>1, ByteJoins, Zenon
      <3> QED BY <3>2, Zenon
    <2> HIDE DEF q2
    <2>4. Leads(q2, status, __prefix, t, "none", d)
      BY <2>3, ModifierFacts, Zenon
    <2> HIDE DEF t
    <2>5. q3 \in Seq(Bytes) /\ Leads(q3, status, __prefix, t, "none", d)
      <3>1. "NUMLOCK" \notin {"ACKNOWLEDGE", "E0", "E1"} /\ "NUMLOCK" \in {"ACKNOWLEDGE", "E0", "E1", "NUMLOCK"}
        OBVIOUS
      <3>2. /\ Append(q2, Byte("NUMLOCK", FALSE, "none")) \in Seq(Bytes)
            /\ Leads(Append(q2, Byte("NUMLOCK", FALSE, "none")), status, __prefix,
                 IF FALSE THEN t \ Modifier("NUMLOCK") ELSE t \cup Modifier("NUMLOCK"), "none", d)
        BY <1>5, <2>1, <2>3, <2>4, <3>1, ByteJoins, Zenon
      <3>3. (IF FALSE THEN t \ Modifier("NUMLOCK") ELSE t \cup Modifier("NUMLOCK")) = t
        BY ModifierFacts
      <3> QED BY <3>2, <3>3, Zenon
    <2> HIDE DEF q3
    <2>6. q4 \in Seq(Bytes) /\ Leads(q4, status, __prefix, t, "E1", d)
      BY <1>5, <2>1, <2>5, ByteJoins, Zenon
    <2> HIDE DEF q4
    <2>7. q5 \in Seq(Bytes) /\ Leads(q5, status, __prefix, u, "none", d)
      <3>1. Modifier("LCONTROL") # {} /\ "LCONTROL" \notin {"ACKNOWLEDGE", "E0", "E1", "NUMLOCK"}
        BY ModifierFacts
      <3>2. /\ Append(q4, Byte("LCONTROL", TRUE, "E1")) \in Seq(Bytes)
            /\ Leads(Append(q4, Byte("LCONTROL", TRUE, "E1")), status, __prefix,
                 IF TRUE THEN t \ Modifier("LCONTROL") ELSE t \cup Modifier("LCONTROL"), "none", d)
        BY <1>5, <2>1, <2>6, <3>1, ByteJoins, Zenon
      <3>3. (IF TRUE THEN t \ Modifier("LCONTROL") ELSE t \cup Modifier("LCONTROL")) = u
        BY ModifierFacts
      <3> QED BY <3>2, <3>3, Zenon
    <2> HIDE DEF q5, u
    <2>8. q6 \in Seq(Bytes) /\ Leads(q6, status, __prefix, u, "none", d)
      <3>1. "NUMLOCK" \notin {"ACKNOWLEDGE", "E0", "E1"} /\ "NUMLOCK" \in {"ACKNOWLEDGE", "E0", "E1", "NUMLOCK"}
        OBVIOUS
      <3>2. /\ Append(q5, Byte("NUMLOCK", TRUE, "none")) \in Seq(Bytes)
            /\ Leads(Append(q5, Byte("NUMLOCK", TRUE, "none")), status, __prefix,
                 IF TRUE THEN u \ Modifier("NUMLOCK") ELSE u \cup Modifier("NUMLOCK"), "none", d)
        BY <1>5, <2>1, <2>7, <3>1, ByteJoins, Zenon
      <3>3. (IF TRUE THEN u \ Modifier("NUMLOCK") ELSE u \cup Modifier("NUMLOCK")) = u
        BY ModifierFacts
      <3> QED BY <3>2, <3>3, Zenon
    <2>9. KbdUnread' = q6
      <3>1. KeyBytes(k, r) = <<e1, c1, n1, e1, c2, n2>>
        BY <1>7, KeyBytesForms, Zenon
      <3>2. e1 \in Bytes /\ c1 \in Bytes /\ n1 \in Bytes /\ c2 \in Bytes /\ n2 \in Bytes
        BY <1>5, ByteType, Zenon
      <3> HIDE DEF e1, c1, n1, c2, n2
      <3>3. q \o <<e1, c1, n1, e1, c2, n2>> = q6
        BY <1>2, <3>2 DEF q1, q2, q3, q4, q5, q6
      <3> QED BY <1>3, <3>1, <3>3
    <2> QED BY <1>1, <1>7, <2>1, <2>8, <2>9, Zenon
  <1>8. CASE k \in DOMAIN Extended
    <2> DEFINE b1 == Byte("E0", FALSE, "none")
               b2 == Byte(Extended[k], r, "E0")
               q1 == Append(q, b1)
               q2 == Append(q1, b2)
    <2>1. k # "PAUSE"
      BY <1>8 DEF Extended
    <2>2. q1 \in Seq(Bytes) /\ Leads(q1, status, __prefix, s, "E0", d)
      BY <1>2, <1>4, <1>5, ByteJoins, Zenon
    <2>3. /\ Extended[k] \in Codes /\ Extended[k] \notin {"ACKNOWLEDGE", "E0", "E1", "NUMLOCK"}
          /\ Modifier(Extended[k]) = Modifier(k)
      <3>1. Extended[k] \in {"LCONTROL", "LMENU", "UP", "INSERT"}
        BY <1>8 DEF Extended
      <3> QED BY <1>8, <3>1, CodeTypes, ModifierFacts
    <2>4. /\ q2 \in Seq(Bytes)
          /\ Leads(q2, status, __prefix,
                   IF r THEN s \ Modifier(Extended[k]) ELSE s \cup Modifier(Extended[k]), "none", d)
      <3> HIDE DEF q1
      <3> QED BY <1>4, <1>5, <2>2, <2>3, ByteJoins, Zenon
    <2>5. KbdUnread' = q2
      <3>1. KeyBytes(k, r) = <<b1, b2>>
        BY <1>8, KeyBytesForms, Zenon
      <3>2. b1 \in Bytes /\ b2 \in Bytes
        BY <1>5, <2>3, ByteType, Zenon
      <3> HIDE DEF b1, b2
      <3>3. q \o <<b1, b2>> = q2
        BY <1>2, <3>2
      <3> QED BY <1>3, <3>1, <3>3
    <2> QED BY <1>1, <2>1, <2>3, <2>4, <2>5, Zenon
  <1>9. CASE k # "PAUSE" /\ k \notin DOMAIN Extended
    <2> DEFINE b == Byte(k, r, "none")
    <2>1. /\ Append(q, b) \in Seq(Bytes)
          /\ Leads(Append(q, b), status, __prefix,
                   IF r THEN s \ Modifier(k) ELSE s \cup Modifier(k), "none", d)
      BY <1>2, <1>4, <1>5, <1>6, ByteJoins, Zenon
    <2>2. KbdUnread' = Append(q, b)
      <3>1. KeyBytes(k, r) = <<b>>
        BY <1>9, KeyBytesForms, Zenon
      <3>2. b \in Bytes
        BY <1>5, ByteType, Zenon
      <3> HIDE DEF b
      <3> QED BY <1>2, <1>3, <3>1, <3>2, AppendIsConcat
    <2> QED BY <1>1, <1>9, <2>1, <2>2, Zenon
  <1> QED BY <1>7, <1>8, <1>9

\* Keys leave the mouse alone.
LEMMA KeyEffect ==
    ASSUME Shape, NEW k \in Keys, KeyDown(k) \/ KeyUp(k)
    PROVE  Shape' /\ MouseQuiet /\ UNCHANGED <<out, status, __prefix>>
  <1>1. UNCHANGED <<controller, kbd, mouse, mfifo, pressed, hand, far, stray>>
    BY DEF KeyDown, KeyUp, UserStep
  <1>2. kfifo \in Seq(Bytes) /\ KeyBytes(k, FALSE) \in Seq(Bytes) /\ KeyBytes(k, TRUE) \in Seq(Bytes)
    <2>1. FALSE \in BOOLEAN /\ TRUE \in BOOLEAN
      OBVIOUS
    <2> QED BY <2>1, KeyBytesForms, Zenon DEF Shape
  <1>3. kfifo' = kfifo \o KeyBytes(k, FALSE) \/ kfifo' = kfifo \o KeyBytes(k, TRUE)
    BY Zenon DEF KeyDown, KeyUp
  <1>4. kfifo' \in Seq(Bytes)
    BY <1>2, <1>3, ConcatProperties, Zenon
  <1>5. UNCHANGED out /\ UNCHANGED buffer_mouse
    BY <1>1 DEF controller, mouse
  <1>6. UNCHANGED MouseUnread
    BY <1>1, <1>5 DEF MouseUnread
  <1>7. Shape'
    BY <1>1, <1>4, <1>5 DEF Shape
  <1> QED BY <1>1, <1>5, <1>6, <1>7 DEF MouseQuiet, MouseStill, kbd, mouse

LEMMA KeyDownStep ==
    ASSUME Shape, KbdInv, NEW k \in Keys, KeyDown(k)
    PROVE  KbdInv'
  <1>1. UNCHANGED <<out, status, __prefix>>
    BY KeyEffect
  <1>2. /\ kfifo' = kfifo \o KeyBytes(k, FALSE)
        /\ keys' = IF k = "PAUSE" THEN keys ELSE keys \cup {k}
        /\ doubled' = (doubled \/ \E j \in keys \ {k} : Modifier(j) \cap Touched(k) # {})
    BY Zenon DEF KeyDown
  <1>3. doubled \in BOOLEAN /\ doubled' \in BOOLEAN /\ (doubled => doubled')
    <2>1. doubled \in BOOLEAN
      BY DEF KbdInv
    <2> QED BY <1>2, <2>1, Zenon
  <1>4. ~doubled' => \A j \in keys \ {k} : Modifier(j) \cap Touched(k) = {}
    BY <1>2, Zenon
  <1>5. PICK s : /\ Known(s)
                 /\ Leads(KbdUnread', status, __prefix,
                          IF k = "PAUSE" THEN s \ {"ctrl"}
                          ELSE IF FALSE THEN s \ Modifier(k) ELSE s \cup Modifier(k), "none", doubled')
    <2>1. FALSE \in BOOLEAN
      OBVIOUS
    <2> QED BY <1>1, <1>2, <1>3, <2>1, KeyJoins, Zenon
  <1> DEFINE u == IF k = "PAUSE" THEN s \ {"ctrl"} ELSE s \cup Modifier(k)
  <1>6. Leads(KbdUnread', status', __prefix', u, "none", doubled')
    BY <1>1, <1>5, Zenon
  <1>7. s \in SUBSET Flags /\ s \subseteq Modifiers /\ (s = Modifiers \/ doubled)
    BY <1>5 DEF Known
  <1>8. keys \subseteq Keys /\ "PAUSE" \notin keys /\ (~doubled => Disjoint)
    BY DEF KbdInv
  <1>9. CASE k = "PAUSE"
    <2>1. keys' = keys /\ Modifiers' = Modifiers /\ Disjoint' = Disjoint /\ u = s \ {"ctrl"}
      BY <1>2, <1>9 DEF Modifiers, Disjoint
    <2>2. ~doubled' => "ctrl" \notin Modifiers
      <3>1. Touched(k) = {"ctrl"}
        BY <1>9, Zenon DEF Touched
      <3>2. keys \ {k} = keys
        BY <1>8, <1>9
      <3> QED BY <1>4, <3>1, <3>2, Zenon DEF Modifiers
    <2>3. ~doubled' => s = Modifiers
      BY <1>3, <1>7
    <2>4. u \in SUBSET Flags /\ u \subseteq Modifiers /\ (u = Modifiers \/ doubled')
      BY <1>7, <2>1, <2>2, <2>3
    <2>5. Known(u)'
      BY <2>1, <2>4 DEF Known
    <2>6. ~doubled' => Disjoint'
      BY <1>3, <1>8, <2>1
    <2>7. keys' \subseteq Keys /\ "PAUSE" \notin keys' /\ status' \in SUBSET Flags /\ __prefix' \in Prefixes
      BY <1>1, <1>8, <2>1 DEF KbdInv
    <2> HIDE DEF u
    <2> QED BY <1>3, <1>6, <2>5, <2>6, <2>7 DEF KbdInv
  <1>10. CASE k # "PAUSE"
    <2>1. keys' = keys \cup {k} /\ u = s \cup Modifier(k) /\ Touched(k) = Modifier(k)
      BY <1>2, <1>10 DEF Touched
    <2>2. Modifiers' = Modifiers \cup Modifier(k)
      BY <2>1 DEF Modifiers
    <2>3. u \in SUBSET Flags /\ u \subseteq Modifiers' /\ (u = Modifiers' \/ doubled')
      BY <1>3, <1>7, <2>1, <2>2, ModifierType
    <2>4. Known(u)'
      BY <2>3 DEF Known
    <2>5. ~doubled' => Disjoint'
      <3> SUFFICES ASSUME ~doubled', NEW i \in keys \cup {k}, NEW j \in keys \cup {k}, i # j
                   PROVE  Modifier(i) \cap Modifier(j) = {}
        BY <2>1 DEF Disjoint
      <3>1. Disjoint
        BY <1>3, <1>8
      <3>2. \A h \in keys \ {k} : Modifier(h) \cap Modifier(k) = {}
        BY <1>4, <2>1
      <3> QED BY <3>1, <3>2 DEF Disjoint
    <2>6. keys' \subseteq Keys /\ "PAUSE" \notin keys' /\ status' \in SUBSET Flags /\ __prefix' \in Prefixes
      BY <1>1, <1>8, <1>10, <2>1 DEF KbdInv
    <2> HIDE DEF u
    <2> QED BY <1>3, <1>6, <2>4, <2>5, <2>6 DEF KbdInv
  <1> QED BY <1>9, <1>10

LEMMA KeyUpStep ==
    ASSUME Shape, KbdInv, NEW k \in Keys, KeyUp(k)
    PROVE  KbdInv'
  <1>1. UNCHANGED <<out, status, __prefix>>
    BY KeyEffect
  <1>2. k \in keys /\ kfifo' = kfifo \o KeyBytes(k, TRUE) /\ keys' = keys \ {k} /\ doubled' = doubled
    BY Zenon DEF KeyUp
  <1>3. keys \subseteq Keys /\ "PAUSE" \notin keys /\ (~doubled => Disjoint) /\ doubled \in BOOLEAN
    BY DEF KbdInv
  <1>4. k # "PAUSE"
    BY <1>2, <1>3
  <1>5. PICK s : /\ Known(s)
                 /\ Leads(KbdUnread', status, __prefix,
                          IF k = "PAUSE" THEN s \ {"ctrl"}
                          ELSE IF TRUE THEN s \ Modifier(k) ELSE s \cup Modifier(k), "none", doubled)
    <2>1. TRUE \in BOOLEAN /\ (doubled => doubled)
      OBVIOUS
    <2> QED BY <1>1, <1>2, <1>4, <2>1, KeyJoins, Zenon
  <1> DEFINE u == s \ Modifier(k)
  <1>6. Leads(KbdUnread', status', __prefix', u, "none", doubled')
    BY <1>1, <1>2, <1>4, <1>5, Zenon
  <1>7. s \in SUBSET Flags /\ s \subseteq Modifiers /\ (s = Modifiers \/ doubled)
    BY <1>5 DEF Known
  <1>8. \A f : f \in Modifiers /\ f \notin Modifier(k) => f \in Modifiers'
    BY <1>2 DEF Modifiers
  <1>9. ~doubled => \A f : f \in Modifiers' => f \in Modifiers /\ f \notin Modifier(k)
    BY <1>2, <1>3 DEF Modifiers, Disjoint
  <1>10. u \in SUBSET Flags /\ u \subseteq Modifiers' /\ (u = Modifiers' \/ doubled')
    <2>1. u \in SUBSET Flags /\ u \subseteq Modifiers'
      BY <1>7, <1>8
    <2>2. ~doubled => Modifiers' \subseteq u
      BY <1>7, <1>9
    <2> QED BY <1>2, <2>1, <2>2
  <1>11. Known(u)'
    BY <1>10 DEF Known
  <1>12. ~doubled' => Disjoint'
    BY <1>2, <1>3 DEF Disjoint
  <1>13. keys' \subseteq Keys /\ "PAUSE" \notin keys' /\ status' \in SUBSET Flags /\ __prefix' \in Prefixes
         /\ doubled' \in BOOLEAN
    BY <1>1, <1>2, <1>3 DEF KbdInv
  <1> HIDE DEF u
  <1> QED BY <1>6, <1>11, <1>12, <1>13 DEF KbdInv

-----------------------------------------------------------------------------
(* Reading the bytes of the mouse.                                          *)

\* The number of bytes of k packets.
At(k) == IF has_wheel THEN 4 * k ELSE 3 * k

\* The position that packet p takes the kernel to, from position x.
Moved(x, p) == IF p.overflow = 0 THEN (x + Delta(p.dx % 256)) % POSITIONS ELSE x

\* The bytes w are those of the n packets ps, which take the position through H and the
\* buttons through B.
Parsing(w, n, ps, H, B) ==
    /\ Len(w) = At(n)
    /\ \A k \in 1 .. n :
          /\ w[At(k - 1) + 1] = HeadByte(ps[k]) /\ w[At(k - 1) + 2] = ps[k].dx % 256
          /\ H[k + 1] = Moved(H[k], ps[k]) /\ B[k + 1] = ps[k].buttons

\* The bytes w are whole packets that take position x to h and the buttons b to c.
Feeds(w, x, b, h, c) ==
    \E n \in Nat : \E ps \in [1 .. n -> Packets], H \in [1 .. n + 1 -> Int], B \in [1 .. n + 1 -> SUBSET Buttons] :
        Parsing(w, n, ps, H, B) /\ H[1] = x /\ B[1] = b /\ H[n + 1] = h /\ B[n + 1] = c

LEMMA AtFacts ==
    /\ PacketLength \in {3, 4} /\ At(0) = 0 /\ At(1) = PacketLength
    /\ \A k \in Int : At(k) \in Int /\ At(k + 1) = At(k) + PacketLength /\ At(k - 1) = At(k) - PacketLength
    /\ \A k \in Nat : At(k) >= k /\ At(k) % PacketLength = 0
  BY WheelAssumption DEF At, PacketLength

LEMMA MovedType ==
    ASSUME NEW x \in Int, NEW p \in Packets
    PROVE  /\ Moved(x, p) \in Int
           /\ x \in 0 .. POSITIONS - 1 => Moved(x, p) \in 0 .. POSITIONS - 1
  <1>1. Delta(p.dx % 256) \in Int
    BY PacketFields DEF Delta
  <1>2. POSITIONS \in Nat \ {0}
    BY ScreenAssumption
  <1>3. \A y \in Int : y % POSITIONS \in 0 .. POSITIONS - 1
    BY <1>2
  <1> QED BY <1>1, <1>2, <1>3 DEF Moved

LEMMA FeedsEmpty ==
    ASSUME NEW x \in Int, NEW b \in SUBSET Buttons
    PROVE  Feeds(<<>>, x, b, x, b)
  <1> DEFINE ps == [i \in 1 .. 0 |-> CHOOSE p \in Packets : TRUE]
             H == [i \in 1 .. 1 |-> x]
             B == [i \in 1 .. 1 |-> b]
  <1>1. 0 \in Nat /\ ps \in [1 .. 0 -> Packets] /\ H \in [1 .. 0 + 1 -> Int] /\ B \in [1 .. 0 + 1 -> SUBSET Buttons]
    OBVIOUS
  <1>2. Parsing(<<>>, 0, ps, H, B) /\ H[1] = x /\ B[1] = b /\ H[0 + 1] = x /\ B[0 + 1] = b
    BY AtFacts DEF Parsing
  <1> HIDE DEF ps, H, B
  <1> QED BY <1>1, <1>2 DEF Feeds

\* No byte left: nothing is to come.
LEMMA FeedsNothing ==
    ASSUME NEW w \in Seq(Int), NEW x, NEW b, NEW h, NEW c, Feeds(w, x, b, h, c)
    PROVE  /\ Len(w) % PacketLength = 0
           /\ Len(w) < PacketLength => x = h /\ b = c
  <1>0. PICK n \in Nat :
            \E ps \in [1 .. n -> Packets], H \in [1 .. n + 1 -> Int], B \in [1 .. n + 1 -> SUBSET Buttons] :
                Parsing(w, n, ps, H, B) /\ H[1] = x /\ B[1] = b /\ H[n + 1] = h /\ B[n + 1] = c
    BY DEF Feeds
  <1>1. PICK ps \in [1 .. n -> Packets], H \in [1 .. n + 1 -> Int], B \in [1 .. n + 1 -> SUBSET Buttons] :
            Parsing(w, n, ps, H, B) /\ H[1] = x /\ B[1] = b /\ H[n + 1] = h /\ B[n + 1] = c
    BY <1>0
  <1>2. Len(w) = At(n)
    BY <1>1 DEF Parsing
  <1>3. At(n) < PacketLength => n = 0
    BY WheelAssumption DEF At, PacketLength
  <1>4. At(n) % PacketLength = 0
    BY AtFacts
  <1> QED BY <1>1, <1>2, <1>3, <1>4

\* A packet comes.
LEMMA FeedsJoin ==
    ASSUME NEW w \in Seq(Int), NEW x, NEW b, NEW h \in Int, NEW c, Feeds(w, x, b, h, c),
           NEW p \in Packets, NEW v \in Seq(Int), Len(v) = PacketLength,
           v[1] = HeadByte(p), v[2] = p.dx % 256
    PROVE  Feeds(w \o v, x, b, Moved(h, p), p.buttons)
  <1>0. PICK n \in Nat :
            \E ps \in [1 .. n -> Packets], H \in [1 .. n + 1 -> Int], B \in [1 .. n + 1 -> SUBSET Buttons] :
                Parsing(w, n, ps, H, B) /\ H[1] = x /\ B[1] = b /\ H[n + 1] = h /\ B[n + 1] = c
    BY DEF Feeds
  <1>1. PICK ps \in [1 .. n -> Packets], H \in [1 .. n + 1 -> Int], B \in [1 .. n + 1 -> SUBSET Buttons] :
            Parsing(w, n, ps, H, B) /\ H[1] = x /\ B[1] = b /\ H[n + 1] = h /\ B[n + 1] = c
    BY <1>0
  <1> DEFINE L == PacketLength
             u == w \o v
             nh == Moved(h, p)
             qs == [k \in 1 .. n + 1 |-> IF k = n + 1 THEN p ELSE ps[k]]
             G == [k \in 1 .. n + 2 |-> IF k = n + 2 THEN nh ELSE H[k]]
             C == [k \in 1 .. n + 2 |-> IF k = n + 2 THEN p.buttons ELSE B[k]]
  <1>2. /\ L \in {3, 4} /\ Len(w) = At(n) /\ Len(v) = L /\ At(n) \in Nat /\ At(n + 1) = At(n) + L
    BY <1>1, AtFacts DEF Parsing
  <1>3. u \in Seq(Int) /\ Len(u) = Len(w) + Len(v)
        /\ \A i \in 1 .. Len(w) + Len(v) : u[i] = IF i <= Len(w) THEN w[i] ELSE v[i - Len(w)]
    BY ConcatProperties
  <1>4. p.buttons \in SUBSET Buttons /\ nh \in Int
    BY PacketFields, MovedType
  <1> HIDE DEF u, L, nh
  <1>5. qs \in [1 .. n + 1 -> Packets] /\ G \in [1 .. n + 2 -> Int] /\ C \in [1 .. n + 2 -> SUBSET Buttons]
    BY <1>4
  <1>6. /\ qs[n + 1] = p /\ G[n + 2] = nh /\ C[n + 2] = p.buttons
        /\ \A k \in 1 .. n : qs[k] = ps[k]
        /\ \A k \in 1 .. n + 1 : G[k] = H[k] /\ C[k] = B[k]
    OBVIOUS
  <1> HIDE DEF qs, G, C
  <1>7. ASSUME NEW k \in 1 .. n + 1
        PROVE  /\ u[At(k - 1) + 1] = HeadByte(qs[k]) /\ u[At(k - 1) + 2] = qs[k].dx % 256
               /\ G[k + 1] = Moved(G[k], qs[k]) /\ C[k + 1] = qs[k].buttons
    <2>1. CASE k = n + 1
      <3>1. At(k - 1) = At(n) /\ k + 1 = n + 2 /\ k \in 1 .. n + 1
        BY <2>1
      <3>2. u[At(n) + 1] = v[1] /\ u[At(n) + 2] = v[2]
        <4> DEFINE a == At(n)
        <4>1. a \in Nat /\ Len(w) = a /\ Len(v) = L
          BY <1>2
        <4> HIDE DEF a
        <4>2. u[a + 1] = v[1] /\ u[a + 2] = v[2]
          BY <1>2, <1>3, <4>1
        <4> QED BY <4>2 DEF a
      <3> QED BY <1>1, <1>6, <2>1, <3>1, <3>2 DEF nh
    <2>2. CASE k # n + 1
      <3>1. k \in 1 .. n /\ k + 1 \in 1 .. n + 1 /\ k \in 1 .. n + 1
        BY <2>2
      <3>2. At(k - 1) \in Nat /\ At(k - 1) + 2 <= At(n)
        BY <3>1, WheelAssumption DEF At
      <3>3. u[At(k - 1) + 1] = w[At(k - 1) + 1] /\ u[At(k - 1) + 2] = w[At(k - 1) + 2]
        <4> DEFINE a == At(k - 1)
                   z == At(n)
        <4>1. a \in Nat /\ z \in Nat /\ a + 2 <= z /\ Len(w) = z /\ Len(v) = L
          BY <1>2, <3>2
        <4> HIDE DEF a, z
        <4>2. u[a + 1] = w[a + 1] /\ u[a + 2] = w[a + 2]
          BY <1>2, <1>3, <4>1
        <4> QED BY <4>2 DEF a
      <3>4. /\ w[At(k - 1) + 1] = HeadByte(ps[k]) /\ w[At(k - 1) + 2] = ps[k].dx % 256
            /\ H[k + 1] = Moved(H[k], ps[k]) /\ B[k + 1] = ps[k].buttons
        BY <1>1, <3>1 DEF Parsing
      <3> QED BY <1>6, <3>1, <3>3, <3>4
    <2> QED BY <2>1, <2>2
  <1>8. Parsing(u, n + 1, qs, G, C)
    BY <1>2, <1>3, <1>7 DEF Parsing
  <1>9. n + 1 \in Nat /\ (n + 1) + 1 = n + 2 /\ G[1] = x /\ C[1] = b
    BY <1>1, <1>6
  <1>10. Feeds(u, x, b, nh, p.buttons)
    <2> DEFINE m == n + 1
    <2>1. m \in Nat /\ m + 1 = n + 2
      OBVIOUS
    <2>2. qs \in [1 .. m -> Packets] /\ G \in [1 .. m + 1 -> Int] /\ C \in [1 .. m + 1 -> SUBSET Buttons]
      BY <1>5, <2>1
    <2>3. Parsing(u, m, qs, G, C) /\ G[m + 1] = nh /\ C[m + 1] = p.buttons
      BY <1>6, <1>8, <2>1
    <2> HIDE DEF m
    <2> QED BY <1>9, <2>1, <2>2, <2>3 DEF Feeds
  <1> QED BY <1>10 DEF u, nh

\* The first packet is taken off: v is the rest.
LEMMA FeedsPop ==
    ASSUME NEW w \in Seq(Int), NEW x, NEW b, NEW h, NEW c, Feeds(w, x, b, h, c), w # <<>>
    PROVE  \E p \in Packets :
              /\ w[1] = HeadByte(p) /\ w[2] = p.dx % 256
              /\ \A v \in Seq(Int) :
                    Len(v) = Len(w) - PacketLength /\ (\A i \in 1 .. Len(v) : v[i] = w[i + PacketLength]) =>
                        Feeds(v, Moved(x, p), p.buttons, h, c)
  <1>0. PICK n \in Nat :
            \E ps \in [1 .. n -> Packets], H \in [1 .. n + 1 -> Int], B \in [1 .. n + 1 -> SUBSET Buttons] :
                Parsing(w, n, ps, H, B) /\ H[1] = x /\ B[1] = b /\ H[n + 1] = h /\ B[n + 1] = c
    BY DEF Feeds
  <1>1. PICK ps \in [1 .. n -> Packets], H \in [1 .. n + 1 -> Int], B \in [1 .. n + 1 -> SUBSET Buttons] :
            Parsing(w, n, ps, H, B) /\ H[1] = x /\ B[1] = b /\ H[n + 1] = h /\ B[n + 1] = c
    BY <1>0
  <1> DEFINE p == ps[1]
             m == n - 1
  <1>2. Len(w) = At(n) /\ Len(w) > 0 /\ n > 0
    <2>1. Len(w) = At(n) /\ Len(w) > 0
      BY <1>1 DEF Parsing
    <2> QED BY <2>1, AtFacts
  <1>3. m \in Nat /\ n = m + 1 /\ p \in Packets /\ At(n) = At(m) + PacketLength
    BY <1>2, AtFacts
  <1>4. \A k \in 1 .. n :
          /\ w[At(k - 1) + 1] = HeadByte(ps[k]) /\ w[At(k - 1) + 2] = ps[k].dx % 256
          /\ H[k + 1] = Moved(H[k], ps[k]) /\ B[k + 1] = ps[k].buttons
    BY <1>1 DEF Parsing
  <1>5. w[1] = HeadByte(p) /\ w[2] = p.dx % 256 /\ H[2] = Moved(x, p) /\ B[2] = p.buttons
    <2>1. 1 \in 1 .. n /\ At(1 - 1) = 0
      BY <1>2, AtFacts
    <2>2. w[0 + 1] = HeadByte(p) /\ w[0 + 2] = p.dx % 256 /\ H[1 + 1] = Moved(H[1], p) /\ B[1 + 1] = p.buttons
      BY <1>4, <2>1
    <2> QED BY <1>1, <2>2
  <1> HIDE DEF p, m
  <1>6. ASSUME NEW v \in Seq(Int), Len(v) = Len(w) - PacketLength,
               \A i \in 1 .. Len(v) : v[i] = w[i + PacketLength]
        PROVE  Feeds(v, Moved(x, p), p.buttons, h, c)
    <2> DEFINE qs == [k \in 1 .. m |-> ps[k + 1]]
               G == [k \in 1 .. m + 1 |-> H[k + 1]]
               C == [k \in 1 .. m + 1 |-> B[k + 1]]
    <2>1. qs \in [1 .. m -> Packets] /\ G \in [1 .. m + 1 -> Int] /\ C \in [1 .. m + 1 -> SUBSET Buttons]
      BY <1>3
    <2>2. /\ \A k \in 1 .. m : qs[k] = ps[k + 1]
          /\ \A k \in 1 .. m + 1 : G[k] = H[k + 1] /\ C[k] = B[k + 1]
      OBVIOUS
    <2> HIDE DEF qs, G, C
    <2>3. Len(v) = At(m)
      BY <1>2, <1>3, <1>6, AtFacts
    <2>4. ASSUME NEW k \in 1 .. m
          PROVE  /\ v[At(k - 1) + 1] = HeadByte(qs[k]) /\ v[At(k - 1) + 2] = qs[k].dx % 256
                 /\ G[k + 1] = Moved(G[k], qs[k]) /\ C[k + 1] = qs[k].buttons
      <3>1. k + 1 \in 1 .. n /\ k + 1 \in 1 .. m + 1 /\ k \in 1 .. m + 1 /\ (k + 1) - 1 = k /\ k - 1 \in Nat
        BY <1>3
      <3>2. At(k - 1) \in Nat /\ At(k - 1) + 2 <= At(m) /\ At(k) = At(k - 1) + PacketLength
            /\ PacketLength \in Nat
        BY <1>3, WheelAssumption DEF At, PacketLength
      <3>3. At(k - 1) + 1 \in 1 .. Len(v) /\ At(k - 1) + 2 \in 1 .. Len(v)
        <4> DEFINE a == At(k - 1)
                   z == At(m)
        <4>1. a \in Nat /\ z \in Nat /\ a + 2 <= z /\ Len(v) = z
          BY <2>3, <3>2
        <4> HIDE DEF a, z
        <4>2. a + 1 \in 1 .. Len(v) /\ a + 2 \in 1 .. Len(v)
          BY <4>1
        <4> QED BY <4>2 DEF a
      <3>4. v[At(k - 1) + 1] = w[At(k) + 1] /\ v[At(k - 1) + 2] = w[At(k) + 2]
        <4>1. At(k - 1) + 1 + PacketLength = At(k) + 1 /\ At(k - 1) + 2 + PacketLength = At(k) + 2
          <5> DEFINE a == At(k - 1)
                     z == At(k)
          <5>1. a \in Nat /\ z = a + PacketLength /\ PacketLength \in Nat
            BY <3>2
          <5> HIDE DEF a, z
          <5>2. a + 1 + PacketLength = z + 1 /\ a + 2 + PacketLength = z + 2
            BY <5>1
          <5> QED BY <5>2 DEF a, z
        <4> QED BY <1>6, <3>3, <4>1
      <3>5. /\ w[At(k) + 1] = HeadByte(ps[k + 1]) /\ w[At(k) + 2] = ps[k + 1].dx % 256
            /\ H[(k + 1) + 1] = Moved(H[k + 1], ps[k + 1]) /\ B[(k + 1) + 1] = ps[k + 1].buttons
        BY <1>4, <3>1
      <3> QED BY <2>2, <3>1, <3>4, <3>5
    <2>5. Parsing(v, m, qs, G, C)
      BY <2>3, <2>4 DEF Parsing
    <2>6. G[1] = Moved(x, p) /\ C[1] = p.buttons /\ G[m + 1] = h /\ C[m + 1] = c
      BY <1>1, <1>3, <1>5, <2>2
    <2> QED BY <1>3, <2>1, <2>5, <2>6 DEF Feeds
  <1> QED BY <1>3, <1>5, <1>6 DEF p

-----------------------------------------------------------------------------
(* The mouse's invariant.  Unless an answer was left, the bytes of the mouse, *)
(* read or not, are whole packets that take what the kernel knows to what     *)
(* the user did.  In any case, counted from the end, each byte that begins a  *)
(* packet of the mouse can be told to be a first one.                         *)

Stream == buffer_mouse \o MouseUnread

\* The buttons that two states differ in.
Differ(b, c) == (b \ c) \cup (c \ b)

Following ==
    \E b \in SUBSET Buttons : \E h \in Int :
        /\ Feeds(Stream, mouse_x, b, h, pressed) /\ Differ(b, told) \subseteq swallowed
        /\ far \/ h = hand % POSITIONS

Marked ==
    \A i \in 1 .. Len(MouseUnread) :
        (Len(MouseUnread) - i + 1) % PacketLength = 0 => Bit(MouseUnread[i], 8)

MouseInv ==
    /\ Len(buffer_mouse) < PacketLength
    /\ pressed \in SUBSET Buttons /\ mbuttons_old_state \in SUBSET Buttons
    /\ told \in SUBSET Buttons /\ swallowed \in SUBSET Buttons
    /\ mouse_x \in 0 .. POSITIONS - 1 /\ hand \in Int
    /\ shown \in 1 .. deviceWidth - 1 /\ late \in BOOLEAN /\ stray \in BOOLEAN /\ far \in BOOLEAN
    /\ late \/ shown = Limit(mouse_x)
    /\ Differ(mbuttons_old_state, told) \subseteq swallowed
    /\ Marked
    /\ stray \/ Following

\* The first byte of a packet: its buttons, its overflow and the bit that is always set.
LEMMA HeadBits ==
    ASSUME NEW p \in Packets, NEW h, h = HeadByte(p)
    PROVE  /\ {b \in {1, 2, 4} : Bit(h, b)} = p.buttons
           /\ Bit(h, 8) /\ (Bit(h, 64) \/ Bit(h, 128) <=> p.overflow # 0)
  <1> DEFINE x1 == IF 1 \in p.buttons THEN 1 ELSE 0
             x2 == IF 2 \in p.buttons THEN 1 ELSE 0
             x4 == IF 4 \in p.buttons THEN 1 ELSE 0
             n == IF p.dx < 0 THEN 1 ELSE 0
             m == IF p.dy < 0 THEN 1 ELSE 0
             o == p.overflow \div 64
  <1>1. p.buttons \subseteq {1, 2, 4} /\ p.dx \in Int /\ p.dy \in Int /\ p.overflow \in {0, 64, 128, 192}
    BY PacketFields DEF Buttons
  <1>2. x1 \in {0, 1} /\ x2 \in {0, 1} /\ x4 \in {0, 1} /\ n \in {0, 1} /\ m \in {0, 1}
    OBVIOUS
  <1>3. o \in {0, 1, 2, 3} /\ p.overflow = 64 * o
    BY <1>1
  <1>4. HeadByte(p) = x1 + 2 * x2 + 4 * x4 + 8 + 16 * n + 32 * m + 64 * o
    <2> HIDE DEF o
    <2> QED BY <1>1, <1>3 DEF HeadByte, Sum
  <1>5. /\ 1 \in p.buttons <=> x1 = 1
        /\ 2 \in p.buttons <=> x2 = 1
        /\ 4 \in p.buttons <=> x4 = 1
        /\ p.overflow # 0 <=> o # 0
    BY <1>1
  <1> HIDE DEF x1, x2, x4, n, m, o
  <1> DEFINE y == x1 + 2 * x2 + 4 * x4 + 8 + 16 * n + 32 * m + 64 * o
  <1>6. /\ Bit(y, 1) <=> x1 = 1
        /\ Bit(y, 2) <=> x2 = 1
        /\ Bit(y, 4) <=> x4 = 1
        /\ Bit(y, 8)
    BY <1>2, <1>3 DEF Bit
  <1>7. Bit(y, 64) \/ Bit(y, 128) <=> o # 0
    <2>1. y \div 64 = o /\ y \div 128 = o \div 2
      BY <1>2, <1>3
    <2> HIDE DEF y
    <2> QED BY <1>3, <2>1 DEF Bit
  <1> HIDE DEF y
  <1>8. h = y
    BY <1>4 DEF y
  <1>9. \A b \in {1, 2, 4} : Bit(y, b) <=> b \in p.buttons
    BY <1>5, <1>6
  <1>10. {b \in {1, 2, 4} : Bit(h, b)} = p.buttons
    BY <1>1, <1>8, <1>9
  <1> QED BY <1>5, <1>6, <1>7, <1>8, <1>10

\* A delta that fits into a char comes back with its sign.
LEMMA DeltaBack == \A d \in -128 .. 127 : Delta(d % 256) = d
  BY DEF Delta

\* One of the buttons that changed is the first.
LEMMA FirstChanged ==
    ASSUME NEW S \in SUBSET Buttons, S # {}
    PROVE  First(S) \in S
  <1>1. \E b \in S : \A c \in S : b <= c
    <2>1. CASE 1 \in S
      BY <2>1 DEF Buttons
    <2>2. CASE 1 \notin S /\ 2 \in S
      BY <2>2 DEF Buttons
    <2>3. CASE 1 \notin S /\ 2 \notin S
      <3>1. S = {4}
        BY <2>3 DEF Buttons
      <3> QED BY <3>1
    <2> QED BY <2>1, <2>2, <2>3
  <1> QED BY <1>1, Zenon DEF First

LEMMA LimitType ==
    ASSUME NEW x \in Int
    PROVE  Limit(x) \in 1 .. deviceWidth - 1
  BY ScreenAssumption DEF Limit

LEMMA StreamShape ==
    ASSUME Shape
    PROVE  /\ Stream \in Seq(Int) /\ Len(Stream) = Len(buffer_mouse) + Len(MouseUnread)
           /\ \A i \in 1 .. Len(buffer_mouse) : Stream[i] = buffer_mouse[i]
  <1>1. buffer_mouse \in Seq(Int) /\ MouseUnread \in Seq(Int)
    BY UnreadShape DEF Shape
  <1>2. /\ Stream \in Seq(Int) /\ Len(Stream) = Len(buffer_mouse) + Len(MouseUnread)
        /\ \A i \in 1 .. Len(buffer_mouse) + Len(MouseUnread) :
              Stream[i] = IF i <= Len(buffer_mouse) THEN buffer_mouse[i] ELSE MouseUnread[i - Len(buffer_mouse)]
    BY <1>1, ConcatProperties DEF Stream
  <1>3. Len(buffer_mouse) \in Nat /\ Len(MouseUnread) \in Nat
    BY <1>1
  <1> QED BY <1>2, <1>3

\* Every byte that is read leaves the ones behind it marked.
LEMMA MarkedRead ==
    ASSUME NEW d \in Int, NEW f \in Seq(Int), MouseUnread = <<d>> \o f, MouseUnread' = f, Marked
    PROVE  Marked'
  <1> DEFINE u == <<d>> \o f
             n == Len(f)
  <1>1. <<d>> \in Seq(Int) /\ Len(<<d>>) = 1 /\ n \in Nat
    OBVIOUS
  <1>2. Len(u) = 1 + n /\ \A i \in 1 .. 1 + n : u[i] = IF i <= 1 THEN <<d>>[i] ELSE f[i - 1]
    BY <1>1, ConcatProperties
  <1>3. \A i \in 1 .. Len(u) : (Len(u) - i + 1) % PacketLength = 0 => Bit(u[i], 8)
    BY DEF Marked
  <1> HIDE DEF u, n
  <1>4. ASSUME NEW i \in 1 .. n, (n - i + 1) % PacketLength = 0
        PROVE  Bit(f[i], 8)
    <2>1. i + 1 \in 1 .. Len(u) /\ i + 1 \in 1 .. 1 + n /\ Len(u) - (i + 1) + 1 = n - i + 1
          /\ (i + 1) - 1 = i /\ ~(i + 1 <= 1)
      BY <1>1, <1>2
    <2>2. Bit(u[i + 1], 8)
      BY <1>3, <1>4, <2>1
    <2> QED BY <1>2, <2>1, <2>2
  <1> QED BY <1>4 DEF Marked, n

LEMMA FirstOfPacket ==
    ASSUME NEW L \in {3, 4}, NEW j \in 1 .. L, (L - j + 1) % L = 0
    PROVE  j = 1
  <1>1. CASE L = 3
    BY <1>1
  <1>2. CASE L = 4
    BY <1>2
  <1> QED BY <1>1, <1>2

\* A packet joins the queue with a mark on its first byte.
LEMMA MarkedJoin ==
    ASSUME Shape, NEW v \in Seq(Int), Len(v) = PacketLength, Bit(v[1], 8),
           MouseUnread' = MouseUnread \o v, Marked
    PROVE  Marked'
  <1> DEFINE u == MouseUnread
             n == Len(u)
             L == PacketLength
             w == u \o v
  <1>1. u \in Seq(Int) /\ n \in Nat /\ L \in {3, 4}
    BY UnreadShape, AtFacts
  <1>2. \A i \in 1 .. n : (n - i + 1) % L = 0 => Bit(u[i], 8)
    BY DEF Marked
  <1> HIDE DEF u, L
  <1>3. Len(v) = L /\ Len(w) = n + L /\ \A i \in 1 .. n + L : w[i] = IF i <= n THEN u[i] ELSE v[i - n]
    <2>1. Len(v) = L
      BY DEF L
    <2> QED BY <1>1, <2>1, ConcatProperties
  <1> HIDE DEF n, w
  <1>4. ASSUME NEW i \in 1 .. n + L, (n + L - i + 1) % L = 0
        PROVE  Bit(w[i], 8)
    <2>1. CASE i <= n
      <3>1. (n - i + 1) % L = 0
        <4>1. CASE L = 3
          BY <1>1, <1>4, <4>1
        <4>2. CASE L = 4
          BY <1>1, <1>4, <4>2
        <4> QED BY <1>1, <4>1, <4>2
      <3>2. i \in 1 .. n
        BY <1>1, <2>1
      <3>3. w[i] = u[i]
        BY <1>3, <2>1
      <3> QED BY <1>2, <3>1, <3>2, <3>3
    <2>2. CASE i > n
      <3>1. i - n = 1
        <4> DEFINE j == i - n
        <4>1. j \in 1 .. L /\ n + L - i + 1 = L - j + 1
          BY <1>1, <2>2
        <4>2. (L - j + 1) % L = 0
          BY <1>4, <4>1
        <4> HIDE DEF j
        <4>5. j = 1
          BY <1>1, <4>1, <4>2, FirstOfPacket
        <4> QED BY <4>5 DEF j
      <3>2. w[i] = v[1]
        BY <1>1, <1>3, <2>2, <3>1
      <3> QED BY <3>2
    <2> QED BY <1>1, <2>1, <2>2
  <1>5. MouseUnread' = w
    BY DEF w, u
  <1>6. ASSUME NEW i \in 1 .. Len(w), (Len(w) - i + 1) % L = 0 PROVE Bit(w[i], 8)
    <2>1. i \in 1 .. n + L /\ Len(w) - i + 1 = n + L - i + 1
      BY <1>1, <1>3
    <2> QED BY <1>4, <1>6, <2>1
  <1> QED BY <1>5, <1>6 DEF Marked, L

LEMMA InitMouse == Init => MouseInv
  <1> SUFFICES ASSUME Init PROVE MouseInv
    OBVIOUS
  <1>1. Shape /\ out.from = "none" /\ buffer_mouse = <<>>
    BY InitShape, EmptyFacts DEF Init
  <1>2. MouseUnread = mfifo
    BY <1>1, UnreadShape
  <1>3. mfifo = <<>> \/ \E a \in Answers : mfifo = <<a>>
    BY Zenon DEF Init
  <1>4. Marked
    <2> DEFINE n == Len(mfifo)
    <2>1. n = 0 \/ n = 1
      BY <1>3
    <2> HIDE DEF n
    <2>2. \A i \in 1 .. n : n - i + 1 = 1
      BY <2>1
    <2>3. 1 % PacketLength = 1
      BY AtFacts, 1 % 3 = 1, 1 % 4 = 1
    <2> USE DEF n
    <2> QED BY <1>2, <2>2, <2>3 DEF Marked
  <1> DEFINE x == deviceWidth \div 2
  <1>5. x \in Int /\ x \in 0 .. POSITIONS - 1 /\ x \in 1 .. deviceWidth - 1 /\ Limit(x) = x /\ x = x % POSITIONS
    BY ScreenAssumption DEF Limit
  <1>6. mouse_x = x /\ hand = x /\ shown = x
    BY DEF Init
  <1> HIDE DEF x
  <1>7. pressed = {} /\ mbuttons_old_state = {} /\ told = {} /\ swallowed = {} /\ late = FALSE /\ far = FALSE
    BY DEF Init
  <1>8. Len(buffer_mouse) < PacketLength
    BY <1>1, AtFacts
  <1>9. Differ({}, {}) = {}
    BY DEF Differ
  <1>10. stray = (mfifo # <<>>)
    BY DEF Init
  <1>11. ASSUME ~stray PROVE Following
    <2>0. mfifo = <<>>
      BY <1>10, <1>11, Zenon
    <2>1. Stream = <<>>
      BY <1>1, <1>2, <2>0 DEF Stream
    <2>2. Feeds(Stream, mouse_x, {}, x, pressed)
      BY <1>5, <1>6, <1>7, <2>1, FeedsEmpty
    <2>3. x = hand % POSITIONS
      BY <1>5, <1>6
    <2> QED BY <1>5, <1>7, <1>9, <2>2, <2>3 DEF Following
  <1> QED BY <1>4, <1>5, <1>6, <1>7, <1>8, <1>9, <1>10, <1>11 DEF MouseInv

LEMMA MouseQuietStep == MouseInv /\ MouseQuiet => MouseInv'
  <1> SUFFICES ASSUME MouseInv, MouseQuiet PROVE MouseInv'
    OBVIOUS
  <1>1. /\ Stream' = Stream /\ MouseUnread' = MouseUnread
        /\ UNCHANGED <<pressed, hand, far, stray, buffer_mouse, mbuttons_old_state, mouse_x, told, shown, swallowed, late>>
    BY DEF MouseQuiet, MouseStill, Stream
  <1>2. Limit(mouse_x)' = Limit(mouse_x)
    BY <1>1 DEF Limit
  <1>3. Marked' = Marked
    BY <1>1, Zenon DEF Marked
  <1>4. Following' = Following
    BY <1>1, Zenon DEF Following
  <1> QED BY <1>1, <1>2, <1>3, <1>4, Zenon DEF MouseInv

\* The user and the kernel add the same movement if it fits.
LEMMA SameMove ==
    ASSUME NEW p \in Packets, NEW a \in Int, p.overflow = 0 => p.dx \in -128 .. 127
    PROVE  Moved(a % POSITIONS, p) = (IF p.overflow = 0 THEN a + p.dx ELSE a) % POSITIONS
  <1>1. p.dx \in Int /\ POSITIONS \in Nat \ {0}
    BY PacketFields, ScreenAssumption
  <1>2. CASE p.overflow = 0
    <2>1. Delta(p.dx % 256) = p.dx
      BY <1>2, DeltaBack
    <2>2. ((a % POSITIONS) + p.dx) % POSITIONS = (a + p.dx) % POSITIONS
      BY <1>1, WrapLate
    <2> QED BY <1>2, <2>1, <2>2 DEF Moved
  <1>3. CASE p.overflow # 0
    BY <1>3 DEF Moved
  <1> QED BY <1>2, <1>3

\* A packet comes.
LEMMA PacketStep ==
    ASSUME Shape, MouseInv, NEW p \in Packets, MousePacket(p)
    PROVE  Shape' /\ KbdQuiet /\ MouseInv'
  <1> DEFINE v == Sent(p)
  <1>1. /\ mfifo' = mfifo \o v /\ pressed' = p.buttons
        /\ hand' = (IF p.overflow = 0 THEN hand + p.dx ELSE hand)
        /\ far' = (far \/ (p.overflow = 0 /\ p.dx \notin -128 .. 127))
        /\ UNCHANGED <<controller, kbd, mouse, kfifo, keys, doubled, stray>>
    BY DEF MousePacket, UserStep, HeadByte, Sent
  <1>2. v \in Seq(Int) /\ Len(v) = PacketLength /\ v[1] = HeadByte(p) /\ v[2] = p.dx % 256
    BY PacketBytes
  <1> HIDE DEF v
  <1>3. mfifo \in Seq(Int) /\ mfifo \o v \in Seq(Int)
    BY <1>2, ConcatProperties DEF Shape
  <1>4. UNCHANGED <<out, buffer_mouse, mbuttons_old_state, mouse_x, told, shown, swallowed, late>>
    BY <1>1 DEF controller, mouse
  <1>5. Shape'
    BY <1>1, <1>3, <1>4 DEF Shape
  <1>6. MouseUnread' = MouseUnread \o v
    BY <1>1, <1>2, <1>4, UnreadGrows
  <1>7. UNCHANGED KbdUnread
    BY <1>1, <1>4 DEF KbdUnread
  <1>8. Stream' = Stream \o v
    <2>1. buffer_mouse \in Seq(Int) /\ MouseUnread \in Seq(Int) /\ v \in Seq(Int)
      BY <1>2, UnreadShape DEF Shape
    <2>2. Stream' = buffer_mouse \o (MouseUnread \o v) /\ Stream = buffer_mouse \o MouseUnread
      BY <1>4, <1>6 DEF Stream
    <2>3. (buffer_mouse \o MouseUnread) \o v = buffer_mouse \o (MouseUnread \o v)
      <3> DEFINE m == MouseUnread
      <3>1. m \in Seq(Int)
        BY <2>1
      <3> HIDE DEF m
      <3>2. (buffer_mouse \o m) \o v = buffer_mouse \o (m \o v)
        BY <2>1, <3>1, ConcatAssociative
      <3> QED BY <3>2 DEF m
    <2> QED BY <2>2, <2>3
  <1>9. Marked'
    <2>1. Bit(v[1], 8)
      BY <1>2, HeadBits
    <2> QED BY <1>2, <1>6, <2>1, MarkedJoin DEF MouseInv
  <1>10. hand \in Int /\ far \in BOOLEAN /\ p.dx \in Int /\ p.buttons \in SUBSET Buttons
    BY PacketFields DEF MouseInv
  <1>11. hand' \in Int /\ far' \in BOOLEAN /\ pressed' \in SUBSET Buttons
    BY <1>1, <1>10
  <1>12. ASSUME ~stray PROVE Following'
    <2>1. PICK b \in SUBSET Buttons : \E h \in Int :
              /\ Feeds(Stream, mouse_x, b, h, pressed) /\ Differ(b, told) \subseteq swallowed
              /\ far \/ h = hand % POSITIONS
      BY <1>12 DEF MouseInv, Following
    <2>2. PICK h \in Int :
              /\ Feeds(Stream, mouse_x, b, h, pressed) /\ Differ(b, told) \subseteq swallowed
              /\ far \/ h = hand % POSITIONS
      BY <2>1
    <2>3. Stream \in Seq(Int)
      BY StreamShape
    <2>4. Feeds(Stream \o v, mouse_x, b, Moved(h, p), p.buttons)
      BY <1>2, <2>2, <2>3, FeedsJoin
    <2>5. Feeds(Stream', mouse_x', b, Moved(h, p), pressed') /\ Differ(b, told') \subseteq swallowed'
      BY <1>1, <1>4, <1>8, <2>2, <2>4
    <2>6. Moved(h, p) \in Int
      BY MovedType
    <2>7. far' \/ Moved(h, p) = hand' % POSITIONS
      <3> SUFFICES ASSUME ~far' PROVE Moved(h, p) = hand' % POSITIONS
        OBVIOUS
      <3>1. ~far /\ (p.overflow = 0 => p.dx \in -128 .. 127)
        BY <1>1
      <3>2. h = hand % POSITIONS
        BY <2>2, <3>1
      <3>3. Moved(hand % POSITIONS, p) = (IF p.overflow = 0 THEN hand + p.dx ELSE hand) % POSITIONS
        BY <1>10, <3>1, SameMove
      <3> QED BY <1>1, <3>2, <3>3
    <2> QED BY <2>5, <2>6, <2>7, Zenon DEF Following
  <1>13. Limit(mouse_x)' = Limit(mouse_x)
    BY <1>4 DEF Limit
  <1>14. MouseInv'
    BY <1>1, <1>4, <1>9, <1>11, <1>12, <1>13, Zenon DEF MouseInv
  <1> QED BY <1>1, <1>5, <1>7, <1>14 DEF KbdQuiet, kbd

\* A byte of the mouse is read: what the two cases have in common.
LEMMA MouseReadEffect ==
    ASSUME Shape, MouseCollect \/ MouseCommit
    PROVE  /\ out.from = "aux" /\ out.data \in Int /\ MouseUnread = <<out.data>> \o mfifo
           /\ MouseUnread' = mfifo /\ KbdQuiet /\ UNCHANGED <<mfifo, kfifo, pressed, hand, far, stray>>
           /\ out' = Empty /\ Len(Stream) = Len(buffer_mouse) + 1 + Len(mfifo)
           /\ Stream[Len(buffer_mouse) + 1] = out.data
           /\ \A i \in 1 .. Len(mfifo) : Stream[Len(buffer_mouse) + 1 + i] = mfifo[i]
  <1>1. out.from = "aux" /\ out' = Empty /\ UNCHANGED <<kfifo, mfifo, user, kbd>>
    BY DEF MouseCollect, MouseCommit, ReadMouse
  <1>2. out'.from = "none"
    BY <1>1, EmptyFacts
  <1>3. kfifo \in Seq(Bytes) /\ mfifo \in Seq(Int) /\ buffer_mouse \in Seq(Int)
    BY DEF Shape
  <1>4. KbdUnread' = <<>> \o kfifo /\ MouseUnread' = <<>> \o mfifo
    BY <1>1, <1>2 DEF KbdUnread, MouseUnread
  <1>5. KbdUnread' = kfifo /\ MouseUnread' = mfifo
    BY <1>3, <1>4, ConcatEmptySeq
  <1>6. KbdUnread = kfifo /\ MouseUnread = <<out.data>> \o mfifo /\ out.data \in Int
    BY <1>1, UnreadShape, OutFacts
  <1> DEFINE d == out.data
             w == <<d>> \o mfifo
             n == Len(buffer_mouse)
             m == Len(mfifo)
  <1>7. d \in Int /\ n \in Nat /\ m \in Nat
    BY <1>3, <1>6
  <1>8. w \in Seq(Int) /\ Len(w) = 1 + m /\ \A i \in 1 .. 1 + m : w[i] = IF i <= 1 THEN <<d>>[i] ELSE mfifo[i - 1]
    <2> HIDE DEF d
    <2>1. <<d>> \in Seq(Int) /\ Len(<<d>>) = 1
      BY <1>7
    <2> QED BY <1>3, <2>1, ConcatProperties
  <1>9. Stream = buffer_mouse \o w
    BY <1>6 DEF Stream
  <1> HIDE DEF w
  <1>10. Len(Stream) = n + Len(w) /\ \A i \in 1 .. n + Len(w) : Stream[i] = IF i <= n THEN buffer_mouse[i] ELSE w[i - n]
    BY <1>3, <1>8, <1>9, ConcatProperties
  <1> HIDE DEF n, m, d
  <1>11. Len(Stream) = n + 1 + m
    BY <1>7, <1>8, <1>10
  <1>12. Stream[n + 1] = d
    <2>1. n + 1 \in 1 .. n + Len(w) /\ ~(n + 1 <= n) /\ (n + 1) - n = 1 /\ 1 \in 1 .. 1 + m
      BY <1>7, <1>8
    <2>2. w[1] = <<d>>[1]
      BY <1>8, <2>1
    <2> QED BY <1>10, <2>1, <2>2
  <1>13. ASSUME NEW i \in 1 .. m PROVE Stream[n + 1 + i] = mfifo[i]
    <2>1. /\ n + 1 + i \in 1 .. n + Len(w) /\ ~(n + 1 + i <= n) /\ (n + 1 + i) - n = 1 + i
          /\ 1 + i \in 1 .. 1 + m /\ ~(1 + i <= 1) /\ (1 + i) - 1 = i
      BY <1>7, <1>8
    <2>2. Stream[n + 1 + i] = w[1 + i]
      BY <1>10, <2>1
    <2>3. w[1 + i] = mfifo[i]
      BY <1>8, <2>1
    <2> QED BY <2>2, <2>3
  <1>14. KbdQuiet /\ UNCHANGED <<mfifo, kfifo, pressed, hand, far, stray>>
    BY <1>1, <1>5, <1>6 DEF KbdQuiet, user, kbd
  <1> QED BY <1>1, <1>5, <1>6, <1>11, <1>12, <1>13, <1>14 DEF n, m, d

\* A byte in the middle of a packet is only skipped when an answer was left.
LEMMA CollectStep ==
    ASSUME Shape, MouseInv, MouseCollect
    PROVE  Shape' /\ KbdQuiet /\ MouseInv'
  <1>1. /\ out.data \in Int /\ MouseUnread = <<out.data>> \o mfifo
        /\ MouseUnread' = mfifo /\ KbdQuiet /\ UNCHANGED <<mfifo, kfifo, pressed, hand, far, stray>> /\ out' = Empty
        /\ Len(Stream) = Len(buffer_mouse) + 1 + Len(mfifo) /\ Stream[Len(buffer_mouse) + 1] = out.data
    BY MouseReadEffect
  <1>2. buffer_mouse \in Seq(Int) /\ mfifo \in Seq(Int) /\ kfifo \in Seq(Bytes) /\ Stream \in Seq(Int)
    BY StreamShape DEF Shape
  <1>3. mouse_stage + 1 < PacketLength /\ UNCHANGED <<mbuttons_old_state, mouse_x, told, shown, swallowed, late>>
    BY DEF MouseCollect
  <1>4. Limit(mouse_x)' = Limit(mouse_x)
    BY <1>3 DEF Limit
  <1>5. Marked'
    <2> DEFINE d == out.data
    <2>1. d \in Int /\ MouseUnread = <<d>> \o mfifo /\ Marked
      BY <1>1 DEF MouseInv
    <2> HIDE DEF d
    <2> QED BY <1>1, <1>2, <2>1, MarkedRead
  <1>6. CASE mouse_stage = 0 /\ ~Bit(out.data, 8)
    <2>1. buffer_mouse' = buffer_mouse
      BY <1>6, Zenon DEF MouseCollect
    <2>2. stray
      <3> SUFFICES ASSUME ~stray PROVE FALSE
        OBVIOUS
      <3>1. \E b \in SUBSET Buttons, h \in Int : Feeds(Stream, mouse_x, b, h, pressed)
        BY Zenon DEF MouseInv, Following
      <3>2. Stream[1] = out.data /\ Stream # <<>>
        BY <1>1, <1>2, <1>6 DEF mouse_stage
      <3>3. \E p \in Packets : Stream[1] = HeadByte(p)
        BY <1>2, <3>1, <3>2, FeedsPop
      <3> QED BY <1>6, <3>2, <3>3, HeadBits
    <2>3. Shape'
      BY <1>1, <1>2, <2>1 DEF Shape
    <2>4. MouseInv'
      BY <1>1, <1>3, <1>4, <1>5, <2>1, <2>2, Zenon DEF MouseInv
    <2> QED BY <1>1, <2>3, <2>4
  <1>7. CASE ~(mouse_stage = 0 /\ ~Bit(out.data, 8))
    <2>1. buffer_mouse' = Append(buffer_mouse, out.data)
      BY <1>7, Zenon DEF MouseCollect
    <2>2. buffer_mouse' \in Seq(Int) /\ Len(buffer_mouse') = Len(buffer_mouse) + 1
      BY <1>1, <1>2, <2>1, AppendProperties
    <2>3. Len(buffer_mouse)' < PacketLength
      BY <1>3, <2>2 DEF mouse_stage
    <2>4. Shape'
      BY <1>1, <1>2, <2>2 DEF Shape
    <2>5. Stream' = Stream
      <3>1. Stream' = Append(buffer_mouse, out.data) \o mfifo
        BY <1>1, <2>1 DEF Stream
      <3>2. Stream = buffer_mouse \o (<<out.data>> \o mfifo)
        BY <1>1 DEF Stream
      <3> DEFINE d == out.data
      <3>3. d \in Int
        BY <1>1
      <3>4. buffer_mouse \o (<<d>> \o mfifo) = Append(buffer_mouse, d) \o mfifo
        <4> HIDE DEF d
        <4> QED BY <1>2, <3>3, OneMoreByte
      <3> QED BY <3>1, <3>2, <3>4
    <2>6. Following' = Following
      BY <1>1, <1>3, <2>5, Zenon DEF Following
    <2>7. MouseInv'
      BY <1>1, <1>3, <1>4, <1>5, <2>3, <2>6, Zenon DEF MouseInv
    <2> QED BY <1>1, <2>4, <2>7
  <1> QED BY <1>6, <1>7

\* A button's change is reported, or noted as swallowed.
LEMMA ButtonsStep ==
    ASSUME MouseInv, NEW B \in SUBSET Buttons,
           \/ swallowed' = swallowed \cup Changed(B) /\ UNCHANGED <<mbuttons_old_state, told>>
           \/ /\ mbuttons_old_state' = B
              /\ \/ /\ Changed(B) # {}
                    /\ told' = IF First(Changed(B)) \in B THEN told \cup {First(Changed(B))}
                                                           ELSE told \ {First(Changed(B))}
                    /\ swallowed' = (swallowed \cup Changed(B)) \ {First(Changed(B))}
                 \/ Changed(B) = {} /\ UNCHANGED <<told, swallowed>>
    PROVE  /\ mbuttons_old_state' \in SUBSET Buttons /\ told' \in SUBSET Buttons /\ swallowed' \in SUBSET Buttons
           /\ Differ(mbuttons_old_state', told') \subseteq swallowed'
           /\ Differ(B, told') \subseteq swallowed'
  <1> DEFINE C == Changed(B)
             f == First(C)
  <1>1. /\ mbuttons_old_state \in SUBSET Buttons /\ told \in SUBSET Buttons /\ swallowed \in SUBSET Buttons
        /\ Differ(mbuttons_old_state, told) \subseteq swallowed
    BY DEF MouseInv
  <1>2. C = (B \ mbuttons_old_state) \cup (mbuttons_old_state \ B) /\ C \in SUBSET Buttons
    BY <1>1 DEF Changed
  <1>3. C # {} => f \in C
    BY <1>2, FirstChanged
  <1> HIDE DEF C, f
  <1>4. CASE swallowed' = swallowed \cup C /\ UNCHANGED <<mbuttons_old_state, told>>
    BY <1>1, <1>2, <1>4 DEF Differ
  <1>5. CASE /\ mbuttons_old_state' = B /\ C # {}
             /\ told' = IF f \in B THEN told \cup {f} ELSE told \ {f}
             /\ swallowed' = (swallowed \cup C) \ {f}
    <2>1. f \in Buttons
      BY <1>2, <1>3, <1>5
    <2>2. told' \in SUBSET Buttons /\ swallowed' \in SUBSET Buttons
      BY <1>1, <1>2, <1>5, <2>1
    <2>3. Differ(B, told') \subseteq swallowed'
      BY <1>1, <1>2, <1>5 DEF Differ
    <2> QED BY <1>5, <2>2, <2>3
  <1>6. CASE mbuttons_old_state' = B /\ C = {} /\ UNCHANGED <<told, swallowed>>
    BY <1>1, <1>2, <1>6 DEF Differ
  <1> QED BY <1>4, <1>5, <1>6 DEF C, f

\* The last byte of a packet: the packet that is parsed is the one the mouse sent, unless
\* an answer was left.
LEMMA CommitStep ==
    ASSUME Shape, MouseInv, MouseCommit
    PROVE  Shape' /\ KbdQuiet /\ MouseInv'
  <1>1. /\ out.data \in Int /\ MouseUnread = <<out.data>> \o mfifo
        /\ MouseUnread' = mfifo /\ KbdQuiet /\ UNCHANGED <<mfifo, kfifo, pressed, hand, far, stray>> /\ out' = Empty
        /\ Len(Stream) = Len(buffer_mouse) + 1 + Len(mfifo)
        /\ \A i \in 1 .. Len(mfifo) : Stream[Len(buffer_mouse) + 1 + i] = mfifo[i]
    BY MouseReadEffect
  <1>2. /\ buffer_mouse \in Seq(Int) /\ mfifo \in Seq(Int) /\ kfifo \in Seq(Bytes) /\ Stream \in Seq(Int)
        /\ \A i \in 1 .. Len(buffer_mouse) : Stream[i] = buffer_mouse[i]
    BY StreamShape DEF Shape
  <1>3. Len(buffer_mouse) + 1 = PacketLength /\ PacketLength \in {3, 4} /\ buffer_mouse' = <<>>
        /\ __ps2mouse_parse_data_packet
    BY AtFacts DEF MouseCommit, mouse_stage
  <1>4. Marked'
    <2> DEFINE d == out.data
    <2>1. d \in Int /\ MouseUnread = <<d>> \o mfifo /\ Marked
      BY <1>1 DEF MouseInv
    <2> HIDE DEF d
    <2> QED BY <1>1, <1>2, <2>1, MarkedRead
  <1>5. Stream # <<>> /\ 1 \in 1 .. Len(buffer_mouse) /\ 2 \in 1 .. Len(buffer_mouse)
    <2>1. Len(buffer_mouse) \in {2, 3} /\ Len(mfifo) \in Nat
      <3>1. Len(buffer_mouse) \in Nat /\ Len(mfifo) \in Nat
        BY <1>2
      <3>2. Len(buffer_mouse) + 1 = 3 \/ Len(buffer_mouse) + 1 = 4
        BY <1>3
      <3> DEFINE n == Len(buffer_mouse)
      <3>3. n \in Nat /\ (n + 1 = 3 \/ n + 1 = 4)
        BY <3>1, <3>2
      <3> HIDE DEF n
      <3>4. n = 2 \/ n = 3
        BY <3>3
      <3> QED BY <3>1, <3>4 DEF n
    <2>2. 1 \in 1 .. Len(buffer_mouse) /\ 2 \in 1 .. Len(buffer_mouse)
      BY <2>1
    <2>3. Stream # <<>>
      <3>1. Len(Stream) = Len(buffer_mouse) + 1 + Len(mfifo)
        BY <1>1
      <3>2. Len(Stream) # 0
        BY <2>1, <3>1
      <3> QED BY <3>2
    <2> QED BY <2>2, <2>3
  <1> DEFINE packet == Append(buffer_mouse, out.data)
             B == {c \in {1, 2, 4} : Bit(packet[1], c)}
             over == Bit(packet[1], 64) \/ Bit(packet[1], 128)
             y == (mouse_x + Delta(packet[2])) % POSITIONS
             turns == Delta(packet[3]) % POSITIONS # 0
             x == IF over THEN mouse_x ELSE y
  <1>6. packet[1] = buffer_mouse[1] /\ packet[2] = buffer_mouse[2]
        /\ buffer_mouse[1] \in Int /\ buffer_mouse[2] \in Int
    BY <1>1, <1>2, <1>5, AppendProperties
  <1>7. /\ mouse_x \in 0 .. POSITIONS - 1 /\ mouse_x \in Int /\ late \in BOOLEAN
        /\ shown \in 1 .. deviceWidth - 1 /\ (late \/ shown = Limit(mouse_x))
    <2>1. mouse_x \in 0 .. POSITIONS - 1 /\ late \in BOOLEAN
          /\ shown \in 1 .. deviceWidth - 1 /\ (late \/ shown = Limit(mouse_x))
      BY DEF MouseInv
    <2> QED BY <2>1
  <1>8. x \in 0 .. POSITIONS - 1 /\ y \in Int /\ x \in Int /\ B \in SUBSET Buttons
    <2>1. Delta(packet[2]) \in Int
      <3> HIDE DEF packet
      <3> QED BY <1>6 DEF Delta
    <2> HIDE DEF packet
    <2>2. POSITIONS \in Nat \ {0}
      BY ScreenAssumption
    <2>3. mouse_x + Delta(packet[2]) \in Int
      BY <1>7, <2>1
    <2>4. y \in 0 .. POSITIONS - 1
      BY <2>2, <2>3, Division
    <2>5. B \in SUBSET Buttons
      BY DEF Buttons
    <2> HIDE DEF y, over
    <2> QED BY <1>7, <2>4, <2>5
  <1>9. \/ /\ over /\ swallowed' = swallowed \cup Changed(B)
           /\ UNCHANGED <<mbuttons_old_state, mouse_x, told, shown, late>>
        \/ /\ ~over /\ mouse_x' = y /\ mbuttons_old_state' = B
           /\ Changed(B) # {}
           /\ told' = IF First(Changed(B)) \in B THEN told \cup {First(Changed(B))}
                                                  ELSE told \ {First(Changed(B))}
           /\ swallowed' = (swallowed \cup Changed(B)) \ {First(Changed(B))}
           /\ late' = TRUE /\ UNCHANGED shown
        \/ /\ ~over /\ mouse_x' = y /\ mbuttons_old_state' = B
           /\ Changed(B) = {} /\ UNCHANGED <<told, swallowed>>
           /\ shown' = IF y # mouse_x \/ turns THEN Limit(y) ELSE shown
           /\ late' = (late /\ ~(y # mouse_x \/ turns))
    BY <1>3, Zenon DEF __ps2mouse_parse_data_packet
  <1> HIDE DEF B, over, y, turns, packet
  <1>10. mouse_x' = x
    BY <1>9
  <1>11. /\ mbuttons_old_state' \in SUBSET Buttons /\ told' \in SUBSET Buttons /\ swallowed' \in SUBSET Buttons
         /\ Differ(mbuttons_old_state', told') \subseteq swallowed' /\ Differ(B, told') \subseteq swallowed'
    BY <1>8, <1>9, ButtonsStep
  <1>12. late' \in BOOLEAN /\ shown' \in 1 .. deviceWidth - 1 /\ (late' \/ shown' = Limit(mouse_x'))
    <2>1. Limit(y) \in 1 .. deviceWidth - 1
      BY <1>8, LimitType
    <2>2. CASE over \/ Changed(B) # {}
      BY <1>7, <1>9, <2>2, Zenon
    <2>3. CASE ~over /\ Changed(B) = {} /\ (y # mouse_x \/ turns)
      BY <1>9, <2>1, <2>3, Zenon
    <2>4. CASE ~over /\ Changed(B) = {} /\ ~(y # mouse_x \/ turns)
      BY <1>7, <1>9, <2>4, Zenon
    <2> QED BY <2>2, <2>3, <2>4
  <1>13. ASSUME ~stray PROVE Following'
    <2>1. PICK b \in SUBSET Buttons : \E h \in Int :
              Feeds(Stream, mouse_x, b, h, pressed) /\ (far \/ h = hand % POSITIONS)
      BY <1>13, Zenon DEF MouseInv, Following
    <2>2. PICK h \in Int : Feeds(Stream, mouse_x, b, h, pressed) /\ (far \/ h = hand % POSITIONS)
      BY <2>1
    <2>3. PICK p \in Packets :
              /\ Stream[1] = HeadByte(p) /\ Stream[2] = p.dx % 256
              /\ \A v \in Seq(Int) :
                    Len(v) = Len(Stream) - PacketLength /\ (\A i \in 1 .. Len(v) : v[i] = Stream[i + PacketLength]) =>
                        Feeds(v, Moved(mouse_x, p), p.buttons, h, pressed)
      BY <1>2, <1>5, <2>2, FeedsPop
    <2>4. Feeds(mfifo, Moved(mouse_x, p), p.buttons, h, pressed)
      <3>1. Len(mfifo) = Len(Stream) - PacketLength
        BY <1>1, <1>2, <1>3
      <3>2. ASSUME NEW i \in 1 .. Len(mfifo) PROVE mfifo[i] = Stream[i + PacketLength]
        <4>1. i + PacketLength = Len(buffer_mouse) + 1 + i
          BY <1>2, <1>3
        <4> QED BY <1>1, <4>1
      <3> QED BY <1>2, <2>3, <3>1, <3>2
    <2>5. Stream' = mfifo
      <3>1. Stream' = <<>> \o mfifo
        BY <1>1, <1>3 DEF Stream
      <3> QED BY <1>2, <3>1, ConcatEmptySeq
    <2>6. packet[1] = HeadByte(p) /\ packet[2] = p.dx % 256
      BY <1>2, <1>5, <1>6, <2>3
    <2>7. B = p.buttons /\ (over <=> p.overflow # 0)
      BY <2>6, HeadBits DEF B, over
    <2>8. Moved(mouse_x, p) = x
      BY <2>6, <2>7 DEF Moved, y
    <2>9. Feeds(Stream', mouse_x', B, h, pressed')
      BY <1>1, <1>10, <2>4, <2>5, <2>7, <2>8
    <2>10. far' \/ h = hand' % POSITIONS
      BY <1>1, <2>2
    <2> QED BY <1>8, <1>11, <2>9, <2>10, Zenon DEF Following
  <1>14. Shape'
    BY <1>1, <1>2, <1>3 DEF Shape
  <1>15. Len(buffer_mouse') < PacketLength
    BY <1>3
  <1>16. Limit(mouse_x)' = Limit(mouse_x')
    BY DEF Limit
  <1>17. pressed' \in SUBSET Buttons /\ hand' \in Int /\ stray' \in BOOLEAN /\ far' \in BOOLEAN
         /\ mouse_x' \in 0 .. POSITIONS - 1 /\ stray' = stray
    BY <1>1, <1>8, <1>10 DEF MouseInv
  <1>18. MouseInv'
    BY <1>4, <1>11, <1>12, <1>13, <1>15, <1>16, <1>17, Zenon DEF MouseInv
  <1> QED BY <1>1, <1>14, <1>18

-----------------------------------------------------------------------------
(* The rest of the types.                                                   *)

Controls ==
    /\ kport \in BOOLEAN /\ mport \in BOOLEAN /\ irq1 \in BOOLEAN /\ irq12 \in BOOLEAN
    /\ ShellFlag \in BOOLEAN /\ at \in {"out", "kbd", "aux", "reset"}
    /\ packets \in 0 .. MaxPackets /\ Len(kfifo) <= KbdRoom /\ Len(mfifo) <= MouseRoom

InputInv == Shape /\ KbdInv /\ MouseInv /\ Controls

LEMMA InitControls == Init => Controls
  <1> SUFFICES ASSUME Init PROVE Controls
    OBVIOUS
  <1>1. kfifo = <<>> \/ kfifo = <<Byte("ACKNOWLEDGE", FALSE, "none")>>
    BY Zenon DEF Init
  <1>2. \A b : Len(<<b>>) = 1 /\ Len(<<>>) = 0
    OBVIOUS
  <1>3. Len(kfifo) = 1 \/ Len(kfifo) = 0
    BY <1>1, <1>2, Zenon
  <1>0. KbdRoom \in Nat /\ KbdRoom > 0 /\ MouseRoom \in Nat /\ MouseRoom > 0 /\ MaxPackets \in Nat
    BY RoomAssumption
  <1>4. Len(kfifo) <= KbdRoom /\ packets \in 0 .. MaxPackets
    <2>1. packets = 0
      BY DEF Init
    <2> QED BY <1>0, <1>3, <2>1
  <1>5. Len(mfifo) <= MouseRoom
    <2>1. mfifo = <<>> \/ \E a \in Answers : mfifo = <<a>>
      BY Zenon DEF Init
    <2>2. Len(mfifo) = 0 \/ Len(mfifo) = 1
      BY <1>2, <2>1
    <2> QED BY <1>0, <2>2
  <1>6. /\ kport \in BOOLEAN /\ mport \in BOOLEAN /\ irq1 \in BOOLEAN /\ irq12 \in BOOLEAN
        /\ ShellFlag \in BOOLEAN /\ at \in {"out", "kbd", "aux", "reset"}
    BY DEF Init
  <1> QED BY <1>4, <1>5, <1>6 DEF Controls

\* The queues stay within their bounds.
LEMMA QueuesStep ==
    ASSUME Shape, Controls, Next \/ UNCHANGED vars
    PROVE  Len(kfifo') <= KbdRoom /\ Len(mfifo') <= MouseRoom
  <1>1. /\ Len(kfifo) <= KbdRoom /\ Len(mfifo) <= MouseRoom
        /\ kfifo \in Seq(Bytes) /\ mfifo \in Seq(Int) /\ KbdRoom \in Nat /\ MouseRoom \in Nat
    BY RoomAssumption DEF Controls, Shape
  <1>2. ASSUME NEW k \in Keys, KeyDown(k) \/ KeyUp(k)
        PROVE  Len(kfifo') <= KbdRoom /\ mfifo' = mfifo
    <2>1. PICK r \in BOOLEAN : kfifo' = kfifo \o KeyBytes(k, r) /\ Len(kfifo) + Len(KeyBytes(k, r)) <= KbdRoom
      BY <1>2, Zenon DEF KeyDown, KeyUp
    <2> DEFINE f == KeyBytes(k, r)
    <2>2. f \in Seq(Bytes)
      BY KeyBytesForms, Zenon
    <2> HIDE DEF f
    <2>3. Len(kfifo \o f) = Len(kfifo) + Len(f)
      BY <1>1, <2>2, ConcatProperties
    <2>4. Len(kfifo') <= KbdRoom
      BY <2>1, <2>3 DEF f
    <2> QED BY <1>2, <2>4 DEF KeyDown, KeyUp
  <1>3. ASSUME NEW p \in Packets, MousePacket(p)
        PROVE  Len(mfifo') <= MouseRoom /\ kfifo' = kfifo
    <2> DEFINE f == Sent(p)
    <2>1. mfifo' = mfifo \o f /\ Len(mfifo) + PacketLength <= MouseRoom /\ kfifo' = kfifo
      BY <1>3 DEF MousePacket, HeadByte, Sent
    <2>2. f \in Seq(Int) /\ Len(f) = PacketLength
      BY PacketBytes
    <2> HIDE DEF f
    <2>3. Len(mfifo \o f) = Len(mfifo) + Len(f)
      BY <1>1, <2>2, ConcatProperties
    <2> QED BY <2>1, <2>2, <2>3
  <1>4. CASE LoadKbd
    <2>1. kfifo # <<>> /\ kfifo' = Tail(kfifo) /\ mfifo' = mfifo
      BY <1>4 DEF LoadKbd
    <2>2. Len(Tail(kfifo)) = Len(kfifo) - 1
      BY <1>1, <2>1, HeadTailProperties
    <2> QED BY <1>1, <2>1, <2>2
  <1>5. CASE LoadMouse
    <2>1. mfifo # <<>> /\ mfifo' = Tail(mfifo) /\ kfifo' = kfifo
      BY <1>5 DEF LoadMouse
    <2>2. Len(Tail(mfifo)) = Len(mfifo) - 1
      BY <1>1, <2>1, HeadTailProperties
    <2> QED BY <1>1, <2>1, <2>2
  <1>6. CASE irq1_KEYBOARD \/ irq12_MOUSE \/ Handlers \/ UNCHANGED vars
    <2>1. kfifo' = kfifo /\ mfifo' = mfifo
      BY <1>6 DEF irq1_KEYBOARD, irq12_MOUSE, Handlers, KbdReturn, KbdAck, KbdPrefix, KbdByte,
                  MouseReturn, MouseCollect, MouseCommit, vars
    <2> QED BY <1>1, <2>1
  <1> QED BY <1>1, <1>2, <1>3, <1>4, <1>5, <1>6 DEF Next, UserActs, Restart

LEMMA ControlsStep ==
    ASSUME Shape, Controls, Next \/ UNCHANGED vars
    PROVE  Controls'
  <1>1. /\ kport' \in BOOLEAN /\ mport' \in BOOLEAN /\ irq1' \in BOOLEAN /\ irq12' \in BOOLEAN
        /\ at' \in {"out", "kbd", "aux", "reset"}
    <2>1. /\ kport \in BOOLEAN /\ mport \in BOOLEAN /\ irq1 \in BOOLEAN /\ irq12 \in BOOLEAN
          /\ at \in {"out", "kbd", "aux", "reset"}
      BY DEF Controls
    <2>2. CASE UserActs \/ UNCHANGED vars
      <3>1. UNCHANGED <<kport, mport, irq1, irq12, at>>
        BY <2>2 DEF UserActs, KeyDown, KeyUp, MousePacket, UserStep, controller, vars
      <3> QED BY <2>1, <3>1
    <2>3. CASE LoadKbd \/ LoadMouse
      BY <2>1, <2>3 DEF LoadKbd, LoadMouse
    <2>4. CASE irq1_KEYBOARD \/ irq12_MOUSE
      BY <2>1, <2>4 DEF irq1_KEYBOARD, irq12_MOUSE
    <2>5. CASE KbdReturn \/ KbdAck \/ KbdPrefix
      BY <2>1, <2>5 DEF KbdReturn, KbdAck, KbdPrefix, KbdExit, ReadKbd
    <2>6. CASE KbdByte
      <3>1. UNCHANGED <<kport, mport, irq1, irq12>>
        BY <2>6 DEF KbdByte, ReadKbd
      <3>2. at' \in {"reset", at}
        BY <2>6 DEF KbdByte
      <3> QED BY <2>1, <3>1, <3>2
    <2>7. CASE MouseReturn \/ MouseCollect \/ MouseCommit
      BY <2>1, <2>7 DEF MouseReturn, MouseCollect, MouseCommit, MouseExit, ReadMouse
    <2> QED BY <2>2, <2>3, <2>4, <2>5, <2>6, <2>7 DEF Next, Handlers, Restart
  <1>2. ShellFlag' \in BOOLEAN
    <2>1. ShellFlag' = ShellFlag \/ KbdByte
      BY DEF Next, UserActs, KeyDown, KeyUp, MousePacket, UserStep, LoadKbd, LoadMouse, irq1_KEYBOARD,
             irq12_MOUSE, Handlers, KbdReturn, KbdAck, KbdPrefix, MouseReturn, MouseCollect, MouseCommit,
             Restart, vars, kbd
    <2>2. CASE KbdByte
      BY <2>2, Zenon DEF KbdByte
    <2>3. CASE ShellFlag' = ShellFlag
      BY <2>3 DEF Controls
    <2> QED BY <2>1, <2>2, <2>3
  <1>3. packets' \in 0 .. MaxPackets
    <2>1. packets \in 0 .. MaxPackets /\ MaxPackets \in Nat
      BY RoomAssumption DEF Controls
    <2>2. packets' = packets \/ (packets < MaxPackets /\ packets' = packets + 1)
      BY DEF Next, UserActs, KeyDown, KeyUp, MousePacket, UserStep, LoadKbd, LoadMouse, irq1_KEYBOARD,
             irq12_MOUSE, Handlers, KbdReturn, KbdAck, KbdPrefix, KbdByte, MouseReturn, MouseCollect, MouseCommit,
             Restart, vars, user
    <2> QED BY <2>1, <2>2
  <1> QED BY <1>1, <1>2, <1>3, QueuesStep DEF Controls

-----------------------------------------------------------------------------
(* Theorems.                                                                *)

LEMMA InputInit == Init => InputInv
  BY InitKbd, InitMouse, InitControls DEF InputInv

LEMMA InputStep == InputInv /\ [Next]_vars => InputInv'
  <1> SUFFICES ASSUME InputInv, Next \/ UNCHANGED vars PROVE InputInv'
    OBVIOUS
  <1> USE DEF InputInv
  <1>1. Controls'
    BY ControlsStep
  <1>2. ASSUME NEW k \in Keys, KeyDown(k) \/ KeyUp(k) PROVE InputInv'
    BY <1>1, <1>2, KeyEffect, KeyDownStep, KeyUpStep, MouseQuietStep
  <1>3. ASSUME NEW p \in Packets, MousePacket(p) PROVE InputInv'
    BY <1>1, <1>3, PacketStep, KbdQuietStep
  <1>4. CASE LoadKbd \/ LoadMouse
    BY <1>1, <1>4, LoadKbdEffect, LoadMouseEffect, KbdQuietStep, MouseQuietStep
  <1>5. CASE irq1_KEYBOARD \/ irq12_MOUSE \/ KbdReturn \/ MouseReturn \/ UNCHANGED vars
    BY <1>1, <1>5, IdleEffect, KbdQuietStep, MouseQuietStep
  <1>6. CASE KbdAck \/ KbdPrefix \/ KbdByte
    BY <1>1, <1>6, KbdReadEffect, KbdReadStep, MouseQuietStep
  <1>7. CASE MouseCollect
    BY <1>1, <1>7, CollectStep, KbdQuietStep
  <1>8. CASE MouseCommit
    BY <1>1, <1>8, CommitStep, KbdQuietStep
  <1> QED BY <1>2, <1>3, <1>4, <1>5, <1>6, <1>7, <1>8 DEF Next, UserActs, Handlers, Restart

LEMMA InputAlways == Spec => []InputInv
  BY InputInit, InputStep, PTL DEF Spec

\* The state of the two drivers, of the controller and of the devices keeps its types: the
\* pointer stays on the screen and the buffer of the packet below its length.
THEOREM InputTypeCorrect == Spec => []TypeOK
  <1>1. InputInv => TypeOK
    <2> SUFFICES ASSUME InputInv PROVE TypeOK
      OBVIOUS
    <2> USE DEF InputInv
    <2>1. out = Empty \/ out.from \in {"kbd", "aux"}
      BY OutFacts
    <2>2. \A flag \in {kport, mport, irq1, irq12, ShellFlag, doubled, late, stray, far} : flag \in BOOLEAN
      BY Zenon DEF Controls, KbdInv, MouseInv
    <2>3. Len(kfifo) <= KbdRoom /\ Len(mfifo) <= MouseRoom /\ at \in {"out", "kbd", "aux", "reset"}
          /\ packets \in 0 .. MaxPackets
      BY DEF Controls
    <2>4. keys \subseteq Keys /\ __prefix \in {"none", "E0", "E1"} /\ status \subseteq {"shift", "ctrl", "alt"}
      BY DEF KbdInv, Prefixes, Flags
    <2>5. /\ pressed \subseteq Buttons /\ mbuttons_old_state \subseteq Buttons
          /\ told \subseteq Buttons /\ swallowed \subseteq Buttons
          /\ mouse_x \in 0 .. (POSITIONS - 1) /\ hand \in Int
          /\ shown \in 1 .. (deviceWidth - 1)
      BY DEF MouseInv
    <2>6. mouse_stage \in 0 .. (PacketLength - 1)
      <3>1. buffer_mouse \in Seq(Int) /\ Len(buffer_mouse) < PacketLength /\ PacketLength \in {3, 4}
        BY AtFacts DEF MouseInv, Shape
      <3> QED BY <3>1 DEF mouse_stage
    <2> QED BY <2>1, <2>2, <2>3, <2>4, <2>5, <2>6 DEF TypeOK
  <1> QED BY <1>1, InputAlways, PTL

\* The lengths before and after a byte is read.
LEMMA ReadLengths ==
    ASSUME Shape, MouseCollect \/ MouseCommit
    PROVE  /\ Len(MouseUnread) = Len(mfifo) + 1 /\ Len(MouseUnread)' = Len(mfifo)
           /\ Len(mfifo) \in Nat /\ mouse_stage \in Nat /\ Head(MouseUnread) = out.data
           /\ MouseUnread[1] = out.data
  <1>1. out.data \in Int /\ MouseUnread = <<out.data>> \o mfifo /\ MouseUnread' = mfifo
    BY MouseReadEffect
  <1>2. mfifo \in Seq(Int) /\ mouse_stage \in Nat
    BY DEF Shape, mouse_stage
  <1> DEFINE d == out.data
  <1>3. d \in Int /\ MouseUnread = <<d>> \o mfifo
    BY <1>1
  <1> HIDE DEF d
  <1>4. Len(MouseUnread) = Len(mfifo) + 1 /\ Head(MouseUnread) = d
    BY <1>2, <1>3, OneByte
  <1>5. MouseUnread[1] = Head(MouseUnread)
    OBVIOUS
  <1> QED BY <1>1, <1>2, <1>4, <1>5 DEF d

\* No step brings a handler that is in step out of it.
LEMMA InStepKept ==
    ASSUME InputInv, Next \/ UNCHANGED vars, InStep
    PROVE  InStep'
  <1> USE DEF InputInv
  <1> DEFINE L == PacketLength
             n == Len(MouseUnread)
             g == mouse_stage
  <1>1. L \in {3, 4} /\ n \in Nat /\ g \in Nat /\ (g + n) % L = 0 /\ g < L
    <2>1. L \in {3, 4} /\ g < L
      BY AtFacts DEF mouse_stage, MouseInv
    <2>2. n \in Nat /\ g \in Nat
      BY UnreadShape DEF mouse_stage, Shape
    <2>3. (g + n) % L = 0
      BY DEF InStep
    <2> QED BY <2>1, <2>2, <2>3
  <1>2. ASSUME UNCHANGED <<MouseUnread, buffer_mouse>> PROVE InStep'
    BY <1>2 DEF InStep, mouse_stage
  <1>3. ASSUME NEW k \in Keys, KeyDown(k) \/ KeyUp(k) PROVE InStep'
    BY <1>2, <1>3, KeyEffect DEF MouseQuiet, MouseStill
  <1>4. CASE \/ LoadKbd \/ LoadMouse \/ irq1_KEYBOARD \/ irq12_MOUSE \/ KbdReturn \/ MouseReturn
             \/ KbdAck \/ KbdPrefix \/ KbdByte \/ UNCHANGED vars
    <2>1. MouseQuiet
      BY <1>4, LoadKbdEffect, LoadMouseEffect, IdleEffect, KbdReadEffect
    <2> QED BY <1>2, <2>1 DEF MouseQuiet, MouseStill
  <1>5. ASSUME NEW p \in Packets, MousePacket(p) PROVE InStep'
    <2> DEFINE v == Sent(p)
    <2>1. v \in Seq(Int) /\ Len(v) = L
      BY PacketBytes
    <2>2. mfifo' = mfifo \o v /\ UNCHANGED <<out, buffer_mouse>>
      BY <1>5 DEF MousePacket, UserStep, HeadByte, Sent, controller, mouse
    <2> HIDE DEF v
    <2>3. MouseUnread' = MouseUnread \o v /\ MouseUnread \in Seq(Int)
      BY <2>1, <2>2, UnreadGrows, UnreadShape
    <2>4. Len(MouseUnread') = n + L
      <3> DEFINE u == MouseUnread
      <3> HIDE DEF u
      <3>1. u \in Seq(Int)
        BY <2>3 DEF u
      <3>2. Len(u \o v) = Len(u) + L
        BY <2>1, <3>1, ConcatProperties
      <3> QED BY <2>3, <3>2 DEF u
    <2> HIDE DEF n, g, L
    <2>5. (g + (n + L)) % L = 0
      BY <1>1
    <2> QED BY <2>2, <2>4, <2>5 DEF InStep, mouse_stage, n, g, L
  <1>6. CASE MouseCollect
    <2>1. /\ n = Len(mfifo) + 1 /\ Len(MouseUnread)' = Len(mfifo) /\ Len(mfifo) \in Nat
          /\ MouseUnread[1] = out.data
      BY <1>6, ReadLengths
    <2>2. ~(g = 0 /\ ~Bit(out.data, 8))
      <3> SUFFICES ASSUME g = 0 PROVE Bit(out.data, 8)
        OBVIOUS
      <3>1. 1 \in 1 .. n /\ n % L = 0 /\ n - 1 + 1 = n
        BY <1>1, <2>1
      <3> QED BY <2>1, <3>1 DEF MouseInv, Marked
    <2>3. buffer_mouse' = Append(buffer_mouse, out.data)
      BY <1>6, <2>2, Zenon DEF MouseCollect
    <2>4. Len(buffer_mouse') = g + 1
      <3>1. buffer_mouse \in Seq(Int) /\ out.data \in Int
        BY <1>6, MouseReadEffect DEF Shape
      <3> QED BY <2>3, <3>1, AppendProperties DEF mouse_stage
    <2> HIDE DEF n, g, L
    <2>5. (g + 1) + Len(mfifo) = g + n
      BY <1>1, <2>1
    <2> QED BY <1>1, <2>1, <2>4, <2>5 DEF InStep, mouse_stage, L
  <1>7. CASE MouseCommit
    <2>1. n = Len(mfifo) + 1 /\ Len(MouseUnread)' = Len(mfifo) /\ Len(mfifo) \in Nat
      BY <1>7, ReadLengths
    <2>2. g + 1 = L /\ Len(buffer_mouse') = 0
      BY <1>7 DEF MouseCommit
    <2> HIDE DEF n, g, L
    <2>3. (0 + Len(mfifo)) % L = 0
      <3>1. CASE L = 3
        BY <1>1, <2>1, <2>2, <3>1
      <3>2. CASE L = 4
        BY <1>1, <2>1, <2>2, <3>2
      <3> QED BY <1>1, <3>1, <3>2
    <2> QED BY <2>1, <2>2, <2>3 DEF InStep, mouse_stage, L
  <1> QED BY <1>3, <1>4, <1>5, <1>6, <1>7 DEF Next, UserActs, Handlers, Restart

\* The mouse's handler is in step with the packets of three or four bytes, in every order
\* of the interrupts, from the moment it is in step: no byte is lost, skipped or counted to
\* the wrong packet.
THEOREM PacketsAlwaysWhole == Spec => PacketsWhole
  <1>1. InputInv /\ [Next]_vars => [InStep => InStep']_vars
    BY InStepKept
  <1> QED BY <1>1, InputAlways, PTL DEF Spec, PacketsWhole

\* That moment is the start, unless the initialisation left an answer of the mouse.
THEOREM InStepWithoutAnswer == Spec => [](stray \/ InStep)
  <1>1. InputInv => stray \/ InStep
    <2> SUFFICES ASSUME InputInv, ~stray PROVE InStep
      OBVIOUS
    <2> USE DEF InputInv
    <2>1. PICK b \in SUBSET Buttons, h \in Int : Feeds(Stream, mouse_x, b, h, pressed)
      BY Zenon DEF MouseInv, Following
    <2>2. Stream \in Seq(Int) /\ Len(Stream) = Len(buffer_mouse) + Len(MouseUnread)
      BY StreamShape
    <2>3. Len(Stream) % PacketLength = 0
      BY <2>1, <2>2, FeedsNothing
    <2> QED BY <2>2, <2>3 DEF InStep, mouse_stage
  <1> QED BY <1>1, InputAlways, PTL

\* At every byte of a key the handler has the prefix that the keyboard sent and the
\* modifiers that the user held, whatever waits in between.
THEOREM KeysReadAsTyped == Spec => []AsTyped
  <1>1. InputInv => AsTyped
    <2> SUFFICES ASSUME InputInv, KbdUnread # <<>>
                 PROVE  Fits(status, __prefix, Head(KbdUnread), doubled)
      BY Zenon DEF AsTyped, Fits
    <2> USE DEF InputInv
    <2>1. PICK s : Leads(KbdUnread, status, __prefix, s, "none", doubled)
      BY DEF KbdInv
    <2>2. KbdUnread \in Seq(Bytes)
      BY UnreadShape
    <2> QED BY <2>1, <2>2, LeadsPop
  <1> QED BY <1>1, InputAlways, PTL

\* With everything read, nothing is to come from the mouse.
LEMMA MouseDone ==
    ASSUME InputInv, MouseUnread = <<>>, ~stray
    PROVE  (far \/ mouse_x = hand % POSITIONS) /\ Differ(pressed, told) \subseteq swallowed
  <1> USE DEF InputInv
  <1>1. PICK b \in SUBSET Buttons : \E h \in Int :
            /\ Feeds(Stream, mouse_x, b, h, pressed) /\ Differ(b, told) \subseteq swallowed
            /\ far \/ h = hand % POSITIONS
    BY DEF MouseInv, Following
  <1>2. PICK h \in Int :
            /\ Feeds(Stream, mouse_x, b, h, pressed) /\ Differ(b, told) \subseteq swallowed
            /\ far \/ h = hand % POSITIONS
    BY <1>1
  <1>3. Stream \in Seq(Int) /\ Len(Stream) = Len(buffer_mouse) + Len(MouseUnread)
    BY StreamShape
  <1>4. Len(Stream) < PacketLength
    <2>1. buffer_mouse \in Seq(Int) /\ Len(buffer_mouse) < PacketLength
      BY DEF MouseInv, Shape
    <2>2. Len(Stream) = Len(buffer_mouse)
      BY <1>3, <2>1
    <2> QED BY <2>1, <2>2
  <1>5. mouse_x = h /\ b = pressed
    BY <1>2, <1>3, <1>4, FeedsNothing
  <1> QED BY <1>2, <1>5

\* The display server is told of every change of a button, except of those that came with
\* another one or with an overflow, as long as no answer was taken for a packet.
THEOREM ButtonsAlwaysTold == Spec => []ButtonsTold
  <1>1. InputInv => ButtonsTold
    BY MouseDone DEF ButtonsTold, Differ
  <1> QED BY <1>1, InputAlways, PTL

\* Up to the wrap, the pointer ends where the user moved the mouse to, for every movement
\* of nine bits that a char can hold, and the display server knows it unless a button
\* changed in the last packet.
THEOREM PointerAlwaysFollows == Spec => []PointerFollows
  <1>1. InputInv => PointerFollows
    <2> SUFFICES ASSUME InputInv, MouseUnread = <<>>
                 PROVE  /\ stray \/ far \/ mouse_x = hand % POSITIONS
                        /\ late \/ shown = Limit(mouse_x)
      BY DEF PointerFollows
    <2>1. stray \/ far \/ mouse_x = hand % POSITIONS
      BY MouseDone
    <2>2. late \/ shown = Limit(mouse_x)
      BY DEF InputInv, MouseInv
    <2> QED BY <2>1, <2>2
  <1> QED BY <1>1, InputAlways, PTL

\* What a hot key needs.
LEMMA HotKeyFacts ==
    ASSUME NEW c, NEW m
    PROVE  /\ "reboot" \in HotKey(c, m) => c = "F9" /\ "shift" \in m
           /\ HotKey(c, m) \cap {"enter_shell", "exit_shell", "MSG_SHORTCUT", "MSG_COMMAND"} # {}
                 => c \in {"F1", "F9", "F10"} /\ "ctrl" \in m
           /\ "stdin" \notin HotKey(c, m)
  <1>1. /\ m \cap {"ctrl", "shift"} = {"ctrl"} => "ctrl" \in m
        /\ m \cap {"ctrl", "shift"} = {"shift"} => "shift" \in m
    OBVIOUS
  <1>2. \/ HotKey(c, m) = {"MSG_COMMAND"} /\ c = "F1" /\ m \cap {"ctrl", "shift"} = {"ctrl"}
        \/ HotKey(c, m) = {"reboot"} /\ c = "F9" /\ m \cap {"ctrl", "shift"} = {"shift"}
        \/ HotKey(c, m) = {"enter_shell"} /\ c = "F9" /\ "ctrl" \in m
        \/ HotKey(c, m) = {"exit_shell"} /\ c = "F10" /\ "ctrl" \in m
        \/ HotKey(c, m) \in {{"switch_console"}, {"MSG_HOTKEY"}, {}}
    <2> DEFINE a == m \cap {"ctrl", "shift"} = {"ctrl"}
               s == m \cap {"ctrl", "shift"} = {"shift"}
               k == "ctrl" \in m
    <2>1. HotKey(c, m) = CASE c = "F1" /\ a -> {"MSG_COMMAND"}
                           [] c = "F1" /\ s -> {"switch_console"}
                           [] c = "F8" /\ s -> {"MSG_HOTKEY"}
                           [] c = "F9" /\ k -> {"enter_shell"}
                           [] c = "F9" /\ s -> {"reboot"}
                           [] c = "F10" /\ k -> {"exit_shell"}
                           [] OTHER -> {}
      BY Zenon DEF HotKey
    <2> HIDE DEF a, s, k
    <2>2. \/ HotKey(c, m) = {"MSG_COMMAND"} /\ c = "F1" /\ a
          \/ HotKey(c, m) = {"reboot"} /\ c = "F9" /\ s
          \/ HotKey(c, m) = {"enter_shell"} /\ c = "F9" /\ k
          \/ HotKey(c, m) = {"exit_shell"} /\ c = "F10" /\ k
          \/ HotKey(c, m) = {"switch_console"} \/ HotKey(c, m) = {"MSG_HOTKEY"} \/ HotKey(c, m) = {}
      BY <2>1, ZenonT(60)
    <2> QED BY <2>2, Zenon DEF a, s, k
  <1> QED BY <1>1, <1>2

\* Which bytes have the effects that Intended is about, and with which modifiers.
LEMMA EffectFacts ==
    ASSUME NEW b \in Bytes, NEW m
    PROVE  LET effects == wmRawKeyEvent(b, m) IN
           /\ "reboot" \in effects => b.code = "F9" /\ "shift" \in m
           /\ effects \cap {"enter_shell", "exit_shell", "MSG_SHORTCUT", "MSG_COMMAND"} # {}
                 => b.code \in {"F1", "F9", "F10", "LETTER"} /\ "ctrl" \in m
           /\ "stdin" \in effects => __prefix = "none" /\ ~IsSystemKey(b) /\ ~b.brk /\ "alt" \notin m
  <1> DEFINE con == __consoleProcessKeyboardInput(b, m)
             hot == HotKey(b.code, m)
             typed == IF ~IsSystemKey(b) /\ ~b.brk /\ "alt" \notin m THEN {"stdin"} ELSE {}
             ext == __ProcessExtendedKeyboardKeyStroke(b, m)
             effects == wmRawKeyEvent(b, m)
  <1>1. ext \in {{"MSG_INSERT"}, {"MSG_CONTROL_ARROW_UP"}, {}}
    BY Zenon DEF __ProcessExtendedKeyboardKeyStroke
  <1>2. \/ con = hot \/ con \in {{"prompt"}, {}}
        \/ con = {"MSG_SHORTCUT"} /\ b.code = "LETTER" /\ "ctrl" \in m
    BY Zenon DEF __consoleProcessKeyboardInput
  <1>3. \/ effects = ext \/ effects = con
        \/ __prefix = "none" /\ (effects = typed \cup con \/ effects = typed \cup {"MSG_SYSKEY"} \/ effects = typed \cup {})
    BY Zenon DEF wmRawKeyEvent
  <1>4. typed = {} \/ (typed = {"stdin"} /\ ~IsSystemKey(b) /\ ~b.brk /\ "alt" \notin m)
    BY Zenon
  <1>5. /\ "reboot" \in hot => b.code = "F9" /\ "shift" \in m
        /\ hot \cap {"enter_shell", "exit_shell", "MSG_SHORTCUT", "MSG_COMMAND"} # {}
              => b.code \in {"F1", "F9", "F10"} /\ "ctrl" \in m
        /\ "stdin" \notin hot
    BY HotKeyFacts
  <1> HIDE DEF con, hot, typed, ext, effects
  <1>6. /\ "reboot" \in con => b.code = "F9" /\ "shift" \in m
        /\ con \cap {"enter_shell", "exit_shell", "MSG_SHORTCUT", "MSG_COMMAND"} # {}
              => b.code \in {"F1", "F9", "F10", "LETTER"} /\ "ctrl" \in m
        /\ "stdin" \notin con
    BY <1>2, <1>5
  <1>7. "reboot" \in effects => b.code = "F9" /\ "shift" \in m
    BY <1>1, <1>3, <1>4, <1>6
  <1>8. effects \cap {"enter_shell", "exit_shell", "MSG_SHORTCUT", "MSG_COMMAND"} # {}
            => b.code \in {"F1", "F9", "F10", "LETTER"} /\ "ctrl" \in m
    BY <1>1, <1>3, <1>4, <1>6
  <1>9. "stdin" \in effects => __prefix = "none" /\ typed = {"stdin"}
    BY <1>1, <1>3, <1>4, <1>6
  <1> QED BY <1>4, <1>7, <1>8, <1>9 DEF effects

\* What a key does is what the user meant by it: no restart without shift, no console or
\* shortcut without control, nothing typed with alt or from the extended keys.
THEOREM KeysDoAsIntended == Spec => Intended
  <1> DEFINE Meant ==
               LET b == out.byte
                   effects == wmRawKeyEvent(b, AfterByte(b))
               IN
               /\ "reboot" \in effects => "shift" \in b.mods
               /\ effects \cap {"enter_shell", "exit_shell", "MSG_SHORTCUT", "MSG_COMMAND"} # {} => "ctrl" \in b.mods
               /\ "stdin" \in effects => b.ext = "none" /\ (doubled \/ "alt" \notin b.mods)
  <1>1. InputInv /\ [Next]_vars => [KbdByte => Meant]_vars
    <2> SUFFICES ASSUME InputInv, KbdByte PROVE Meant
      OBVIOUS
    <2> DEFINE b == out.byte
               m == AfterByte(b)
               effects == wmRawKeyEvent(b, m)
    <2>1. b \in Bytes /\ Fits(status, __prefix, b, doubled) /\ b.code \notin {"ACKNOWLEDGE", "E0", "E1"}
      BY KbdReadStep, KbdReadEffect DEF InputInv, KbdByte
    <2>2. /\ "reboot" \in effects => b.code = "F9" /\ "shift" \in m
          /\ effects \cap {"enter_shell", "exit_shell", "MSG_SHORTCUT", "MSG_COMMAND"} # {}
                => b.code \in {"F1", "F9", "F10", "LETTER"} /\ "ctrl" \in m
          /\ "stdin" \in effects => __prefix = "none" /\ ~IsSystemKey(b) /\ ~b.brk /\ "alt" \notin m
      BY <2>1, EffectFacts
    <2>3. \A c \in {"F1", "F9", "F10", "LETTER"} : Modifier(c) = {}
      BY Zenon DEF Modifier
    <2>4. Modifier(b.code) = {} => m = status
      BY DEF AfterByte
    <2>5. b.code \in {"F1", "F9", "F10", "LETTER"} => m \subseteq b.mods
      BY <2>1, <2>3, <2>4 DEF Fits
    <2>6. ~IsSystemKey(b) /\ ~b.brk => Modifier(b.code) = {} /\ b.code # "NUMLOCK"
      BY DEF IsSystemKey
    <2>7. ~IsSystemKey(b) /\ ~b.brk => __prefix = b.ext /\ (m = b.mods \/ doubled)
      BY <2>1, <2>4, <2>6 DEF Fits
    <2> HIDE DEF b, m, effects
    <2>8. /\ "reboot" \in effects => "shift" \in b.mods
          /\ effects \cap {"enter_shell", "exit_shell", "MSG_SHORTCUT", "MSG_COMMAND"} # {} => "ctrl" \in b.mods
          /\ "stdin" \in effects => b.ext = "none" /\ (doubled \/ "alt" \notin b.mods)
      BY <2>2, <2>5, <2>7
    <2> QED BY <2>8 DEF b, m, effects
  <1> QED BY <1>1, InputAlways, PTL DEF Spec, Intended
=============================================================================
