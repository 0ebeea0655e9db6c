---------------------------- MODULE KeyboardProofs ----------------------------
(***************************************************************************)
(* For every set of keys, every length of the ring and of pressed_keys,    *)
(* and every interleaving of the handler with the reader: the decoder      *)
(* keeps in step, the ring keeps its order, and the list of pressed keys     *)
(* does not forget the latest.                                             *)
(***************************************************************************)
EXTENDS Keyboard, SequenceTheorems, TLAPS

Modifiers == Shifts \cup Ctrls \cup Alts

-----------------------------------------------------------------------------
(* The inductive invariant. The bytes collected and those still to come    *)
(* are one of a few pairs, by which a key under way is known.              *)

Quiet == buffer = <<>> /\ wire = <<>>

CodeByte(k, offset) == LowByte(k) + offset

KeySplit(k, offset, b, w) ==
  \/ k <= 255 /\ b = <<>> /\ w = <<CodeByte(k, offset)>>
  \/ k > 255 /\ b = <<>> /\ w = <<E0, CodeByte(k, offset)>>
  \/ k > 255 /\ b = <<E0>> /\ w = <<CodeByte(k, offset)>>

PauseSplit(b, w) ==
  \/ b = <<>> /\ w = PauseKey
  \/ b = <<E1>> /\ w = <<29, 69, E1, 157, 197>>
  \/ b = <<E1, 29>> /\ w = <<69, E1, 157, 197>>
  \/ b = <<>> /\ w = <<E1, 157, 197>>
  \/ b = <<E1>> /\ w = <<157, 197>>
  \/ b = <<E1, 157>> /\ w = <<197>>

Underway(k, offset) == KeySplit(k, offset, buffer, wire)

Pressing(k) == k \in Keys /\ k \in down /\ Underway(k, 0)
Releasing(k) == k \in Keys /\ k \notin down /\ Underway(k, 128)
Pausing == PauseSplit(buffer, wire)

InStep == Quiet \/ (\E k \in Keys : Pressing(k)) \/ (\E k \in Keys : Releasing(k)) \/ Pausing

\* The place n entries behind place p in the ring.
Behind(p, n) == IF p >= n THEN p - n ELSE p - n + CACHE_SIZE

\* The key put into the ring last stays listed from the end of its make code
\* on; while a repeated one is under way it need not be there yet, when it was
\* let go in between.
Latest == keycache[Behind(WritePointer, 1)].key
IsListed(key) == \E i \in 1 .. Slots : pressed_keys[i] = key

LatestIsKept ==
  Latest \in down \ Unlisted /\ ~Pressing(Latest) => IsListed(Latest)

\* The same for the flags of the only shift key.
ShiftIsKept ==
  \A s \in Shifts :
    Keys \cap Shifts = {s} /\ s \in down /\ ~Pressing(s) =>
      keyboard_keys.shift /\ keys_state.shift

\* The whole ring is in order, not only what the reader has still before
\* it: a reader that was lapped after it had compared the pointers takes the
\* oldest entry of all. What the reader missed are whole laps.
RingInOrder ==
  /\ \A j \in 1 .. CACHE_SIZE :
       j <= puts => keycache[Behind(WritePointer, j)].n = puts - j + 1
  /\ \A i \in 0 .. CACHE_SIZE - 1 : keycache[i].key = Foreign => i >= CacheEntries
  /\ \E laps \in Nat :
       /\ puts = lastTaken + Behind(WritePointer, ReadPointer) + laps * CACHE_SIZE
       /\ pc = "load" /\ WritePointer = ReadPointer => laps # 0

IInv == /\ TypeOK
        /\ InStep
        /\ LatestIsKept
        /\ ShiftIsKept
        /\ RingInOrder

-----------------------------------------------------------------------------
(* Short sequences *)

LEMMA AppendLast ==
  ASSUME NEW S, NEW x \in S, NEW s \in Seq(S), NEW n \in Int, n = Len(s) + 1
  PROVE  Append(s, x)[n] = x
OBVIOUS

LEMMA AppendFirst ==
  ASSUME NEW S, NEW x \in S, NEW s \in Seq(S), Len(s) = 1
  PROVE  Append(s, x)[1] = s[1]
<1>1. \A n \in 1 .. Len(s) : Append(s, x)[n] = s[n]
  BY AppendProperties
<1>2. 1 \in 1 .. Len(s)
  OBVIOUS
<1>3. QED
  BY <1>1, <1>2, Zenon

LEMMA AppendPair ==
  ASSUME NEW y, NEW x
  PROVE  Append(<<y>>, x) = <<y, x>>
<1> DEFINE S == {x, y}
           s == <<y>>
           t == <<y, x>>
<1>0. s \in Seq(S) /\ x \in S /\ t \in Seq(S)
  OBVIOUS
<1>1. Len(s) = 1 /\ s[1] = y /\ Len(t) = 2 /\ t[1] = y /\ t[2] = x
  OBVIOUS
<1> HIDE DEF S, s, t
<1>8. Append(s, x) \in Seq(S) /\ Len(Append(s, x)) = Len(s) + 1
  BY <1>0, AppendProperties
<1>2. Append(s, x) \in Seq(S) /\ Len(Append(s, x)) = 2
  BY <1>1, <1>8
<1>7. Append(s, x)[1] = y
  BY <1>0, <1>1, AppendFirst, Zenon
<1>3. 2 \in Int /\ 2 = Len(s) + 1
  BY <1>1
<1>4. Append(s, x)[2] = x
  BY <1>0, <1>3, AppendLast, Zenon
<1>5. Append(s, x) = t
  BY <1>0, <1>1, <1>2, <1>4, <1>7, SeqEqual
<1>6. QED
  BY <1>5 DEF s, t

LEMMA AppendTriple ==
  ASSUME NEW y, NEW z, NEW x
  PROVE  Append(<<y, z>>, x) = <<y, z, x>>
<1> DEFINE S == {x, y, z}
           s == <<y, z>>
           t == <<y, z, x>>
<1>1. /\ s \in Seq(S) /\ x \in S /\ t \in Seq(S)
      /\ Len(s) = 2 /\ s[1] = y /\ s[2] = z /\ Len(t) = 3 /\ t[1] = y /\ t[2] = z /\ t[3] = x
  OBVIOUS
<1> HIDE DEF S, s, t
<1>2. /\ Append(s, x) \in Seq(S) /\ Len(Append(s, x)) = 3
      /\ Append(s, x)[1] = y /\ Append(s, x)[2] = z /\ Append(s, x)[3] = x
  <2>1. /\ Append(s, x) \in Seq(S) /\ Len(Append(s, x)) = Len(s) + 1
        /\ \A n \in 1 .. Len(s) : Append(s, x)[n] = s[n]
        /\ Append(s, x)[Len(s) + 1] = x
    BY <1>1, AppendProperties
  <2>2. 1 \in 1 .. Len(s) /\ 2 \in 1 .. Len(s) /\ Len(s) + 1 = 3
    BY <1>1
  <2>3. QED
    BY <1>1, <2>1, <2>2, Zenon
<1>3. Append(s, x) = t
  BY <1>1, <1>2, SeqEqual
<1>4. QED
  BY <1>3 DEF s, t

-----------------------------------------------------------------------------
(* Codes *)

LEMMA KeyCodes ==
  ASSUME NEW k \in Keys
  PROVE  /\ k \in Int /\ k # 0 /\ LowByte(k) \in 1 .. 127
         /\ k <= 255 => k \in 1 .. 127 /\ k \notin {96, 97} /\ LowByte(k) = k
         /\ k > 255 => k = 256 * 224 + LowByte(k)
         /\ LowByte(k + 128) = LowByte(k) + 128
BY KeyboardAssumption DEF LowByte, E0

LEMMA CodeBytes ==
  ASSUME NEW k \in Keys, NEW o \in {0, 128}
  PROVE  /\ CodeByte(k, o) \in 1 .. 255
         /\ CodeByte(k, o) = LowByte(k) + o
         /\ k <= 255 => CodeByte(k, o) = k + o
<1>1. LowByte(k) \in 1 .. 127 /\ (k <= 255 => LowByte(k) = k)
  BY KeyCodes
<1>2. QED
  BY <1>1 DEF CodeByte

LEMMA MakeAndBreak ==
  ASSUME NEW k \in Keys
  PROVE  /\ Make(k) = (IF k > 255 THEN <<E0, CodeByte(k, 0)>> ELSE <<CodeByte(k, 0)>>)
         /\ Break(k) = (IF k > 255 THEN <<E0, CodeByte(k, 128)>> ELSE <<CodeByte(k, 128)>>)
         /\ Make(k) \in Seq(0 .. 255) /\ Break(k) \in Seq(0 .. 255)
<1>1. /\ k \in Int /\ LowByte(k) \in Int
      /\ CodeByte(k, 0) = LowByte(k) /\ CodeByte(k, 128) = LowByte(k) + 128
      /\ (~(k > 255) => k = LowByte(k))
      /\ CodeByte(k, 0) \in 0 .. 255 /\ CodeByte(k, 128) \in 0 .. 255 /\ E0 \in 0 .. 255
  BY KeyCodes, CodeBytes DEF E0
<1>2. CASE k > 255
  <2>1. Make(k) = <<E0, CodeByte(k, 0)>> /\ Break(k) = <<E0, CodeByte(k, 128)>>
    BY <1>1, <1>2 DEF Make, Break
  <2>2. QED
    BY <1>1, <1>2, <2>1
<1>3. CASE ~(k > 255)
  <2>1. Make(k) = <<CodeByte(k, 0)>> /\ Break(k) = <<CodeByte(k, 128)>>
    BY <1>1, <1>3 DEF Make, Break
  <2>2. QED
    BY <1>1, <1>3, <2>1
<1>4. QED
  BY <1>2, <1>3

\* Only one key is under way, and one way; none is when nothing is, or a pause.
LEMMA SameByte ==
  ASSUME NEW k \in Keys, NEW o \in {0, 128}, NEW j \in Keys, NEW q \in {0, 128},
         CodeByte(k, o) = CodeByte(j, q), k > 255 <=> j > 255
  PROVE  j = k /\ q = o
<1>1. /\ k \in Int /\ LowByte(k) \in 1 .. 127 /\ (k <= 255 => k = LowByte(k))
      /\ (k > 255 => k = 256 * 224 + LowByte(k))
      /\ j \in Int /\ LowByte(j) \in 1 .. 127 /\ (j <= 255 => j = LowByte(j))
      /\ (j > 255 => j = 256 * 224 + LowByte(j))
      /\ LowByte(k) + o = LowByte(j) + q
  BY KeyCodes, CodeBytes
<1> DEFINE m == LowByte(k)
           n == LowByte(j)
<1> HIDE DEF m, n
<1>2. m \in 1 .. 127 /\ n \in 1 .. 127 /\ m + o = n + q
  BY <1>1 DEF m, n
<1>3. m = n /\ o = q
  BY <1>2
<1>4. QED
  BY <1>1, <1>3 DEF m, n

LEMMA OneUnderway ==
  ASSUME NEW b, NEW w,
         NEW k \in Keys, NEW o \in {0, 128}, KeySplit(k, o, b, w),
         NEW j \in Keys, NEW q \in {0, 128}, KeySplit(j, q, b, w)
  PROVE  j = k /\ q = o
<1>1. CodeByte(k, o) = CodeByte(j, q) /\ (k > 255 <=> j > 255)
  <2>1. k \in Int /\ j \in Int
    BY KeyCodes
  <2>2. QED
    BY <2>1 DEF KeySplit
<1>2. QED
  BY <1>1, SameByte

LEMMA NoneUnderway ==
  ASSUME NEW k \in Keys, NEW o \in {0, 128}, NEW b, NEW w,
         PauseSplit(b, w) \/ (b = <<>> /\ w = <<>>)
  PROVE  ~KeySplit(k, o, b, w)
<1> DEFINE quiet == b = <<>> /\ w = <<>>
           n == CodeByte(k, o)
           many == Len(w) \notin {1, 2}
           two  == Len(w) = 2
           one  == Len(w) = 1
<1>1. KeySplit(k, o, b, w) => (two \/ one) /\ (two => b = <<>>) /\ (one => b \in {<<>>, <<E0>>})
  <2> HIDE DEF n
  <2>1. KeySplit(k, o, b, w) => \/ b = <<>> /\ w = <<n>>
                                \/ b = <<>> /\ w = <<E0, n>>
                                \/ b = <<E0>> /\ w = <<n>>
    BY Zenon DEF KeySplit, n
  <2>2. QED
    BY <2>1
<1>2. quiet => many
  OBVIOUS
<1>3. PauseSplit(b, w) => many \/ (two /\ b = <<E1>>) \/ (one /\ b = <<E1, 157>>)
  <2>1. /\ Len(PauseKey) \notin {1, 2} /\ Len(<<29, 69, E1, 157, 197>>) \notin {1, 2}
        /\ Len(<<69, E1, 157, 197>>) \notin {1, 2} /\ Len(<<E1, 157, 197>>) \notin {1, 2}
        /\ Len(<<157, 197>>) = 2 /\ Len(<<197>>) = 1
    BY DEF PauseKey
  <2>2. QED
    BY <2>1, Zenon DEF PauseSplit
<1>4. b = <<E1>> => b # <<>>
  OBVIOUS
<1>5. b = <<E1, 157>> => b \notin {<<>>, <<E0>>}
  OBVIOUS
<1>6. (two => ~one) /\ (many => ~two /\ ~one)
  OBVIOUS
<1> HIDE DEF many, two, one
<1>7. QED
  BY <1>1, <1>2, <1>3, <1>4, <1>5, <1>6, Zenon

-----------------------------------------------------------------------------
(* What one interrupt does, read off the bytes: it collects, or ends half   *)
(* of the pause key, or ends a key.                                         *)

Collects == /\ UNCHANGED <<held, ring>>
            /\ \A k \in Keys : /\ Pressing(k)' <=> Pressing(k)
                               /\ Releasing(k)' <=> Releasing(k)
            /\ InStep'

EndsPress(k) == Pressing(k) /\ Quiet' /\ PutBuffer(k) /\ ProcessKeyValue(k)
EndsRelease(k) == Releasing(k) /\ Quiet' /\ UNCHANGED ring /\ ProcessKeyValue(k + 128)

\* One byte, as long as the code is not complete.
LEMMA ByteCollected ==
  ASSUME Interrupt, NEW b, Append(buffer, Head(wire)) = b, ~Complete(b)
  PROVE  buffer' = b /\ wire' = Tail(wire) /\ UNCHANGED <<held, ring, down>>
BY DEF Interrupt

LEMMA CodeEnds ==
  ASSUME Interrupt, NEW b, Append(buffer, Head(wire)) = b, Complete(b)
  PROVE  /\ buffer' = <<>> /\ wire' = Tail(wire) /\ UNCHANGED down
         /\ IF KeyValue(b) # 0 /\ IsPress(KeyValue(b)) THEN PutBuffer(KeyValue(b)) ELSE UNCHANGED ring
         /\ IF KeyValue(b) # 0 THEN ProcessKeyValue(KeyValue(b)) ELSE UNCHANGED held
BY DEF Interrupt

\* What the bytes of a key's code amount to.
LEMMA KeyOfBytes ==
  ASSUME NEW k \in Keys, NEW o \in {0, 128}, NEW n, n = CodeByte(k, o)
  PROVE  /\ k <= 255 => Complete(<<n>>) /\ KeyValue(<<n>>) = k + o
         /\ k > 255 => Complete(<<E0, n>>) /\ KeyValue(<<E0, n>>) = k + o
         /\ IsPress(k + o) <=> o = 0
         /\ k + o # 0
<1>1. /\ k \in Int /\ k # 0 /\ LowByte(k) \in 1 .. 127 /\ LowByte(k + 128) = LowByte(k) + 128
      /\ (k <= 255 => k \in 1 .. 127 /\ k \notin {96, 97} /\ LowByte(k) = k)
      /\ (k > 255 => k = 256 * 224 + LowByte(k))
  BY KeyCodes
<1>2. n = LowByte(k) + o /\ n \in Int
  BY CodeBytes
<1>3. (IsPress(k + o) <=> o = 0) /\ k + o # 0
  <2>1. CASE o = 0
    BY <1>1, <2>1 DEF IsPress
  <2>2. CASE o = 128
    BY <1>1, <2>2 DEF IsPress
  <2>3. QED
    BY <2>1, <2>2
<1>4. k <= 255 => n # E0 /\ n # E1 /\ n = k + o
  BY <1>1, <1>2 DEF E0, E1
<1>5. k > 255 => k + o = 256 * E0 + n
  BY <1>1, <1>2 DEF E0
<1>6. ASSUME n # E0, n # E1 PROVE Complete(<<n>>) /\ KeyValue(<<n>>) = n
  BY <1>6 DEF Complete, KeyValue
<1>7. Complete(<<E0, n>>) /\ KeyValue(<<E0, n>>) = 256 * E0 + n
  BY DEF Complete, KeyValue, E0, E1
<1>8. QED
  BY <1>3, <1>4, <1>5, <1>6, <1>7, Zenon

\* The last byte of a key's code.
LEMMA LastByte ==
  ASSUME NEW k \in Keys, NEW o \in {0, 128}, Interrupt,
         Head(wire) = CodeByte(k, o), Tail(wire) = <<>>,
         \/ k <= 255 /\ buffer = <<>>
         \/ k > 255 /\ buffer = <<E0>>
  PROVE  /\ Quiet' /\ UNCHANGED down
         /\ IF o = 0 THEN PutBuffer(k) ELSE UNCHANGED ring
         /\ ProcessKeyValue(k + o)
<1>0. PICK n : n = CodeByte(k, o) /\ Head(wire) = n
  OBVIOUS
<1>1. PICK b : b = Append(buffer, Head(wire))
  OBVIOUS
<1>2. Complete(b) /\ KeyValue(b) = k + o
  <2>1. CASE k <= 255 /\ buffer = <<>>
    <3>1. b = <<n>>
      BY <1>0, <1>1, <2>1
    <3>2. Complete(<<n>>) /\ KeyValue(<<n>>) = k + o
      BY <1>0, <2>1, KeyOfBytes, Zenon
    <3>3. QED
      BY <3>1, <3>2, Zenon
  <2>2. CASE k > 255 /\ buffer = <<E0>>
    <3>1. b = <<E0, n>>
      BY <1>0, <1>1, <2>2, AppendPair
    <3>2. Complete(<<E0, n>>) /\ KeyValue(<<E0, n>>) = k + o
      BY <1>0, <2>2, KeyOfBytes, Zenon
    <3>3. QED
      BY <3>1, <3>2, Zenon
  <2>3. QED
    BY <2>1, <2>2
<1>3. k + o # 0 /\ (IsPress(k + o) <=> o = 0)
  BY KeyOfBytes
<1>4. /\ buffer' = <<>> /\ wire' = Tail(wire) /\ UNCHANGED down
      /\ IF KeyValue(b) # 0 /\ IsPress(KeyValue(b)) THEN PutBuffer(KeyValue(b)) ELSE UNCHANGED ring
      /\ IF KeyValue(b) # 0 THEN ProcessKeyValue(KeyValue(b)) ELSE UNCHANGED held
  BY <1>1, <1>2, CodeEnds, Zenon
<1>5. o = 0 => k + o = k
  BY KeyCodes
<1>6. QED
  BY <1>2, <1>3, <1>4, <1>5, Zenon DEF Quiet

\* The first byte of an extended key.
LEMMA PrefixByte ==
  ASSUME NEW k \in Keys, NEW o \in {0, 128}, Interrupt,
         k > 255, buffer = <<>>, wire = <<E0, CodeByte(k, o)>>
  PROVE  /\ buffer' = <<E0>> /\ wire' = <<CodeByte(k, o)>> /\ UNCHANGED <<held, ring, down>>
         /\ \A j \in Keys, q \in {0, 128} : Underway(j, q)' <=> Underway(j, q)
<1>1. Append(buffer, Head(wire)) = <<E0>> /\ Tail(wire) = <<CodeByte(k, o)>>
  OBVIOUS
<1>2. ~Complete(<<E0>>)
  BY DEF Complete, E0, E1
<1>3. buffer' = <<E0>> /\ wire' = <<CodeByte(k, o)>> /\ UNCHANGED <<held, ring, down>>
  BY <1>1, <1>2, ByteCollected
<1>4. ASSUME NEW j \in Keys, NEW q \in {0, 128} PROVE Underway(j, q)' <=> Underway(j, q)
  <2>1. Underway(j, q) <=> j > 255 /\ CodeByte(j, q) = CodeByte(k, o)
    BY DEF Underway, KeySplit
  <2>2. Underway(j, q)' <=> j > 255 /\ CodeByte(j, q) = CodeByte(k, o)
    BY <1>3 DEF Underway, KeySplit, CodeByte, LowByte
  <2>3. QED
    BY <2>1, <2>2
<1>5. QED
  BY <1>3, <1>4

\* A byte of the pause key, of which nothing is made.
LEMMA PauseByte ==
  ASSUME Interrupt, Pausing
  PROVE  /\ Quiet' \/ Pausing'
         /\ UNCHANGED <<held, ring, down>>
<1>1. ASSUME NEW b, Append(buffer, Head(wire)) = b, ~Complete(b), PauseSplit(b, Tail(wire))
      PROVE  Pausing' /\ UNCHANGED <<held, ring, down>>
  BY <1>1, ByteCollected DEF Pausing
<1>2. ASSUME NEW b, Append(buffer, Head(wire)) = b, Complete(b), KeyValue(b) = 0,
             Tail(wire) = <<>> \/ PauseSplit(<<>>, Tail(wire))
      PROVE  (Quiet' \/ Pausing') /\ UNCHANGED <<held, ring, down>>
  BY <1>2, CodeEnds DEF Quiet, Pausing
<1>3. ASSUME NEW x
      PROVE  /\ ~Complete(<<E1>>) /\ ~Complete(<<E1, x>>)
  BY DEF Complete, E0, E1
<1>4. ASSUME NEW x, NEW y PROVE Complete(<<E1, x, y>>) /\ KeyValue(<<E1, x, y>>) = 0
  BY DEF Complete, KeyValue, E0, E1
<1>5. CASE buffer = <<>> /\ wire = PauseKey
  <2>1. Append(buffer, Head(wire)) = <<E1>> /\ Tail(wire) = <<29, 69, E1, 157, 197>>
    BY <1>5 DEF PauseKey
  <2>2. QED
    BY <1>1, <1>3, <2>1 DEF PauseSplit
<1>6. CASE buffer = <<E1>> /\ wire = <<29, 69, E1, 157, 197>>
  <2>1. Head(wire) = 29 /\ Tail(wire) = <<69, E1, 157, 197>>
    BY <1>6
  <2>2. Append(buffer, Head(wire)) = <<E1, 29>>
    BY <1>6, <2>1, AppendPair
  <2>3. QED
    BY <1>1, <1>3, <2>1, <2>2 DEF PauseSplit
<1>7. CASE buffer = <<E1, 29>> /\ wire = <<69, E1, 157, 197>>
  <2>1. Head(wire) = 69 /\ Tail(wire) = <<E1, 157, 197>>
    BY <1>7
  <2>2. Append(buffer, Head(wire)) = <<E1, 29, 69>>
    BY <1>7, <2>1, AppendTriple
  <2>3. Complete(<<E1, 29, 69>>) /\ KeyValue(<<E1, 29, 69>>) = 0
    BY <1>4
  <2>4. PauseSplit(<<>>, Tail(wire))
    BY <2>1, Zenon DEF PauseSplit
  <2>5. QED
    BY <1>2, <2>2, <2>3, <2>4, Zenon
<1>8. CASE buffer = <<>> /\ wire = <<E1, 157, 197>>
  <2>1. Append(buffer, Head(wire)) = <<E1>> /\ Tail(wire) = <<157, 197>>
    BY <1>8
  <2>2. QED
    BY <1>1, <1>3, <2>1 DEF PauseSplit
<1>9. CASE buffer = <<E1>> /\ wire = <<157, 197>>
  <2>1. Head(wire) = 157 /\ Tail(wire) = <<197>>
    BY <1>9
  <2>2. Append(buffer, Head(wire)) = <<E1, 157>>
    BY <1>9, <2>1, AppendPair
  <2>3. ~Complete(<<E1, 157>>)
    BY <1>3
  <2>4. PauseSplit(<<E1, 157>>, Tail(wire))
    BY <2>1, Zenon DEF PauseSplit
  <2>5. QED
    BY <1>1, <2>2, <2>3, <2>4, Zenon
<1>10. CASE buffer = <<E1, 157>> /\ wire = <<197>>
  <2>1. Head(wire) = 197 /\ Tail(wire) = <<>>
    BY <1>10
  <2>2. Append(buffer, Head(wire)) = <<E1, 157, 197>>
    BY <1>10, <2>1, AppendTriple
  <2>3. Complete(<<E1, 157, 197>>) /\ KeyValue(<<E1, 157, 197>>) = 0
    BY <1>4
  <2>4. QED
    BY <1>2, <2>1, <2>2, <2>3, Zenon
<1>11. QED
  BY <1>5, <1>6, <1>7, <1>8, <1>9, <1>10, Zenon DEF Pausing, PauseSplit

LEMMA InterruptCases ==
  ASSUME InStep, Interrupt
  PROVE  /\ UNCHANGED <<down, reader>>
         /\ \/ Collects
            \/ \E k \in Keys : EndsPress(k)
            \/ \E k \in Keys : EndsRelease(k)
<1>1. UNCHANGED <<down, reader>> /\ wire # <<>>
  BY DEF Interrupt
<1>2. ASSUME NEW k \in Keys, NEW o \in {0, 128}, Underway(k, o)
      PROVE  \/ /\ Quiet'
                /\ IF o = 0 THEN PutBuffer(k) ELSE UNCHANGED ring
                /\ ProcessKeyValue(k + o)
             \/ /\ UNCHANGED <<held, ring>> /\ Underway(k, o)'
                /\ \A j \in Keys, q \in {0, 128} : Underway(j, q)' <=> Underway(j, q)
  <2>1. CASE k > 255 /\ buffer = <<>> /\ wire = <<E0, CodeByte(k, o)>>
    BY <1>2, <2>1, PrefixByte
  <2>2. ASSUME wire = <<CodeByte(k, o)>>
        PROVE  Head(wire) = CodeByte(k, o) /\ Tail(wire) = <<>>
    BY <2>2
  <2>3. CASE k <= 255 /\ buffer = <<>> /\ wire = <<CodeByte(k, o)>>
    BY <2>2, <2>3, LastByte, Zenon
  <2>4. CASE k > 255 /\ buffer = <<E0>> /\ wire = <<CodeByte(k, o)>>
    BY <2>2, <2>4, LastByte, Zenon
  <2>5. QED
    BY <1>2, <2>1, <2>3, <2>4, Zenon DEF Underway, KeySplit
<1>3. ASSUME NEW k \in Keys, Pressing(k)
      PROVE  Collects \/ EndsPress(k)
  <2>1. k \in Int /\ k + 0 = k
    BY KeyCodes
  <2>2. CASE Quiet' /\ PutBuffer(k) /\ ProcessKeyValue(k + 0)
    BY <1>3, <2>1, <2>2 DEF EndsPress
  <2>3. CASE /\ UNCHANGED <<held, ring>> /\ Underway(k, 0)'
             /\ \A j \in Keys, q \in {0, 128} : Underway(j, q)' <=> Underway(j, q)
    BY <1>1, <1>3, <2>3 DEF Collects, InStep, Pressing, Releasing
  <2>4. QED
    BY <1>2, <1>3, <2>2, <2>3 DEF Pressing
<1>4. ASSUME NEW k \in Keys, Releasing(k)
      PROVE  Collects \/ EndsRelease(k)
  <2>1. CASE Quiet' /\ UNCHANGED ring /\ ProcessKeyValue(k + 128)
    BY <1>4, <2>1 DEF EndsRelease
  <2>2. CASE /\ UNCHANGED <<held, ring>> /\ Underway(k, 128)'
             /\ \A j \in Keys, q \in {0, 128} : Underway(j, q)' <=> Underway(j, q)
    BY <1>1, <1>4, <2>2 DEF Collects, InStep, Pressing, Releasing
  <2>3. QED
    BY <1>2, <1>4, <2>1, <2>2 DEF Releasing
<1>5. ASSUME Pausing
      PROVE  Collects
  <2>1. (Quiet' \/ Pausing') /\ UNCHANGED <<held, ring, down>>
    BY <1>5, PauseByte
  <2>2. \A j \in Keys, q \in {0, 128} : ~Underway(j, q) /\ ~Underway(j, q)'
    BY <1>5, <2>1, NoneUnderway DEF Quiet, Pausing, Underway
  <2>3. QED
    BY <2>1, <2>2 DEF Collects, InStep, Pressing, Releasing
<1>6. QED
  BY <1>1, <1>3, <1>4, <1>5, Zenon DEF InStep, Quiet

-----------------------------------------------------------------------------
(* The ring *)

Places == 0 .. CACHE_SIZE - 1

LEMMA BehindIsPlace ==
  ASSUME NEW p \in Places, NEW j \in 0 .. CACHE_SIZE
  PROVE  /\ Behind(p, j) \in Places
         /\ Behind(p, j) = (p - j) % CACHE_SIZE
         /\ Behind(p, j) = p <=> j \in {0, CACHE_SIZE}
         /\ Advance(p) \in Places
<1>1. CACHE_SIZE \in Nat /\ CACHE_SIZE > 1
  BY KeyboardAssumption
<1>2. /\ Behind(p, j) \in Places /\ (Behind(p, j) = p <=> j \in {0, CACHE_SIZE})
      /\ Advance(p) \in Places
  BY <1>1 DEF Behind, Places, Advance
<1>3. CASE p >= j
  <2>1. p - j \in 0 .. CACHE_SIZE - 1 /\ Behind(p, j) = p - j
    BY <1>1, <1>3 DEF Places, Behind
  <2>2. QED
    BY <1>1, <1>2, <2>1
<1>4. CASE p < j
  <2>1. /\ Behind(p, j) = p - j + CACHE_SIZE
        /\ p - j = Behind(p, j) - CACHE_SIZE
    BY <1>1, <1>4 DEF Places, Behind
  <2>2. \A x \in 0 .. CACHE_SIZE - 1 : (x - CACHE_SIZE) % CACHE_SIZE = x
    BY <1>1
  <2>3. QED
    BY <1>2, <2>1, <2>2 DEF Places
<1>5. QED
  BY <1>1, <1>3, <1>4 DEF Places

LEMMA BehindAdvance ==
  ASSUME NEW p \in Places, NEW r \in Places
  PROVE  /\ Behind(Advance(p), 1) = p
         /\ \A j \in 2 .. CACHE_SIZE : Behind(Advance(p), j) = Behind(p, j - 1)
         /\ Behind(Advance(p), r) =
              (IF Behind(p, r) = CACHE_SIZE - 1 THEN 0 ELSE Behind(p, r) + 1)
         /\ Behind(p, Advance(r)) =
              (IF p = r THEN CACHE_SIZE - 1 ELSE Behind(p, r) - 1)
         /\ Behind(p, r) = 0 <=> p = r
         /\ Behind(p, Behind(p, r)) = r
<1>1. CACHE_SIZE \in Nat /\ CACHE_SIZE > 1
  BY KeyboardAssumption
<1>2. QED
  BY <1>1 DEF Behind, Advance, Places

LEMMA PutKeepsRing ==
  ASSUME TypeOK, RingInOrder, NEW k \in Keys, PutBuffer(k), UNCHANGED reader
  PROVE  RingInOrder'
<1>0. k # Foreign
  <2>1. k \in Int /\ (k <= 255 => k \in 1 .. 127)
    BY KeyCodes
  <2>2. QED
    BY <2>1 DEF Foreign
<1>1. /\ CACHE_SIZE \in Nat /\ CACHE_SIZE > 1 /\ k # Foreign /\ puts \in Nat /\ lastTaken \in Nat
      /\ WritePointer \in Places /\ ReadPointer \in Places
      /\ keycache \in [Places -> Numbered]
  BY <1>0, KeyboardAssumption DEF TypeOK, Places
<1> DEFINE e == [key |-> k, n |-> puts + 1]
<1>2. /\ puts' = puts + 1 /\ WritePointer' = Advance(WritePointer)
      /\ keycache' = [keycache EXCEPT ![WritePointer] = e]
      /\ ReadPointer' = ReadPointer /\ lastTaken' = lastTaken /\ pc' = pc
  BY DEF PutBuffer, reader
<1>3. ASSUME NEW j \in 1 .. CACHE_SIZE, j <= puts'
      PROVE  keycache'[Behind(WritePointer', j)].n = puts' - j + 1
  <2>1. CASE j = 1
    <3>1. keycache'[WritePointer] = e
      BY <1>1, <1>2
    <3>2. QED
      BY <1>1, <1>2, <2>1, <3>1, BehindAdvance
  <2>2. CASE j # 1
    <3>1. j - 1 \in 1 .. CACHE_SIZE /\ j - 1 <= puts /\ j - 1 \notin {0, CACHE_SIZE}
      BY <1>1, <1>2, <1>3, <2>2
    <3>2. Behind(WritePointer', j) = Behind(WritePointer, j - 1)
      BY <1>1, <1>2, <2>2, BehindAdvance
    <3>3. Behind(WritePointer, j - 1) \in Places /\ Behind(WritePointer, j - 1) # WritePointer
      BY <1>1, <3>1, BehindIsPlace
    <3>4. keycache'[Behind(WritePointer, j - 1)] = keycache[Behind(WritePointer, j - 1)]
      BY <1>1, <1>2, <3>3
    <3>5. keycache[Behind(WritePointer, j - 1)].n = puts - (j - 1) + 1
      BY <3>1 DEF RingInOrder
    <3>6. QED
      BY <1>1, <1>2, <3>2, <3>4, <3>5
  <2>3. QED
    BY <2>1, <2>2
<1>4. ASSUME NEW i \in Places, keycache'[i].key = Foreign
      PROVE  i >= CacheEntries
  <2>1. i # WritePointer
    BY <1>1, <1>2, <1>4
  <2>2. QED
    BY <1>1, <1>2, <1>4, <2>1 DEF RingInOrder, Places
<1>5. PICK laps \in Nat :
         /\ puts = lastTaken + Behind(WritePointer, ReadPointer) + laps * CACHE_SIZE
         /\ pc = "load" /\ WritePointer = ReadPointer => laps # 0
  BY DEF RingInOrder
<1> DEFINE d == Behind(WritePointer, ReadPointer)
           m == laps * CACHE_SIZE
<1>6. /\ d \in Places /\ Behind(WritePointer', ReadPointer') = (IF d = CACHE_SIZE - 1 THEN 0 ELSE d + 1)
      /\ (Behind(WritePointer', ReadPointer') = 0 <=> WritePointer' = ReadPointer')
      /\ WritePointer' \in Places
  <2>1. ReadPointer \in 0 .. CACHE_SIZE
    BY <1>1 DEF Places
  <2>2. d \in Places /\ WritePointer' \in Places
    BY <1>1, <1>2, <2>1, BehindIsPlace
  <2>3. QED
    BY <1>1, <1>2, <2>2, BehindAdvance
<1>7. m \in Nat /\ (laps + 1) * CACHE_SIZE = m + CACHE_SIZE
  BY <1>1
<1>8. \E l \in Nat :
        /\ puts' = lastTaken' + Behind(WritePointer', ReadPointer') + l * CACHE_SIZE
        /\ pc' = "load" /\ WritePointer' = ReadPointer' => l # 0
  <2>1. CASE d = CACHE_SIZE - 1
    <3> HIDE DEF d, m
    <3>1. puts' = lastTaken' + Behind(WritePointer', ReadPointer') + (laps + 1) * CACHE_SIZE
      BY <1>1, <1>2, <1>5, <1>6, <1>7, <2>1 DEF d, m
    <3>2. laps + 1 \in Nat /\ laps + 1 # 0
      OBVIOUS
    <3>3. QED
      BY <3>1, <3>2, Zenon
  <2>2. CASE d # CACHE_SIZE - 1
    <3>1. Behind(WritePointer', ReadPointer') = d + 1 /\ d + 1 # 0
      BY <1>1, <1>6, <2>2 DEF Places
    <3>2. puts' = lastTaken' + (d + 1) + m
      <4> HIDE DEF d, m
      <4>1. puts = lastTaken + d + m /\ d \in Int
        BY <1>5, <1>6 DEF d, m, Places
      <4>2. QED
        BY <1>1, <1>2, <1>7, <4>1
    <3>3. WritePointer' # ReadPointer'
      BY <1>6, <3>1
    <3>4. QED
      BY <3>1, <3>2, <3>3
  <2>3. QED
    BY <2>1, <2>2
<1>9. QED
  BY <1>3, <1>4, <1>8 DEF RingInOrder, Places

\* What a load takes: the oldest entry that is still there.
LEMMA LoadTakesOldest ==
  ASSUME TypeOK, RingInOrder, Load
  PROVE  /\ RingInOrder'
         /\ lastTaken' > lastTaken /\ (lastTaken' - lastTaken - 1) % CACHE_SIZE = 0
<1>1. /\ CACHE_SIZE \in Nat /\ CACHE_SIZE > 1 /\ puts \in Nat /\ lastTaken \in Nat
      /\ WritePointer \in Places /\ ReadPointer \in Places /\ ReadPointer \in 0 .. CACHE_SIZE
      /\ keycache \in [Places -> Numbered]
  BY KeyboardAssumption DEF TypeOK, Places
<1>2. /\ pc = "load" /\ pc' = "translate" /\ ReadPointer' = Advance(ReadPointer)
      /\ lastTaken' = keycache[ReadPointer].n
      /\ keycache' = keycache /\ WritePointer' = WritePointer /\ puts' = puts
  BY DEF Load, ring
<1>3. PICK laps \in Nat :
         /\ puts = lastTaken + Behind(WritePointer, ReadPointer) + laps * CACHE_SIZE
         /\ WritePointer = ReadPointer => laps # 0
  BY <1>2 DEF RingInOrder
<1> DEFINE d == Behind(WritePointer, ReadPointer)
           m == laps * CACHE_SIZE
<1>4. /\ d \in Places /\ (d = 0 <=> WritePointer = ReadPointer)
      /\ Behind(WritePointer, d) = ReadPointer
      /\ Behind(WritePointer', ReadPointer') = (IF d = 0 THEN CACHE_SIZE - 1 ELSE d - 1)
  <2>1. d \in Places
    BY <1>1, BehindIsPlace
  <2>2. /\ d = 0 <=> WritePointer = ReadPointer
        /\ Behind(WritePointer, d) = ReadPointer
        /\ Behind(WritePointer, Advance(ReadPointer)) =
             (IF WritePointer = ReadPointer THEN CACHE_SIZE - 1 ELSE d - 1)
    BY <1>1, BehindAdvance
  <2>3. QED
    BY <1>2, <2>1, <2>2
<1>5. m \in Nat /\ m % CACHE_SIZE = 0 /\ (m - CACHE_SIZE) % CACHE_SIZE = 0
      /\ (laps # 0 => m - CACHE_SIZE >= 0)
  <2>1. m \in Nat /\ m % CACHE_SIZE = 0 /\ (laps - 1) * CACHE_SIZE = m - CACHE_SIZE
    BY <1>1
  <2>2. \A l \in Int : (l * CACHE_SIZE) % CACHE_SIZE = 0 /\ (l >= 0 => l * CACHE_SIZE >= 0)
    BY <1>1
  <2>3. laps - 1 \in Int /\ (laps # 0 => laps - 1 >= 0)
    OBVIOUS
  <2> HIDE DEF m
  <2>4. QED
    BY <2>1, <2>2, <2>3
<1>6. puts = lastTaken + d + m
  BY <1>3
<1> HIDE DEF d, m
<1>7. CASE d = 0
  <2>1. m >= CACHE_SIZE
    BY <1>1, <1>3, <1>4, <1>5, <1>7
  <2>2. CACHE_SIZE \in 1 .. CACHE_SIZE /\ CACHE_SIZE <= puts
    BY <1>1, <1>5, <1>6, <1>7, <2>1
  <2>3. Behind(WritePointer, CACHE_SIZE) = ReadPointer
    BY <1>1, <1>4, <1>7, BehindIsPlace
  <2>4. lastTaken' = puts - CACHE_SIZE + 1
    BY <1>2, <2>2, <2>3 DEF RingInOrder
  <2>5. lastTaken' > lastTaken /\ lastTaken' - lastTaken - 1 = m - CACHE_SIZE
    BY <1>1, <1>5, <1>6, <1>7, <2>1, <2>4
  <2>6. puts' = lastTaken' + Behind(WritePointer', ReadPointer') + 0 * CACHE_SIZE
    BY <1>1, <1>2, <1>4, <1>7, <2>4
  <2>7. QED
    BY <1>2, <1>5, <2>5, <2>6 DEF RingInOrder
<1>8. CASE d # 0
  <2>1. d \in 1 .. CACHE_SIZE /\ d <= puts /\ d \in Int
    BY <1>1, <1>4, <1>5, <1>6, <1>8 DEF Places
  <2>2. lastTaken' = puts - d + 1
    BY <1>2, <1>4, <2>1 DEF RingInOrder
  <2>3. lastTaken' > lastTaken /\ lastTaken' - lastTaken - 1 = m
    BY <1>1, <1>5, <1>6, <2>1, <2>2
  <2>4. puts' = lastTaken' + Behind(WritePointer', ReadPointer') + 0 * CACHE_SIZE
    BY <1>1, <1>2, <1>4, <1>8, <2>1, <2>2
  <2>5. QED
    BY <1>2, <1>5, <2>3, <2>4 DEF RingInOrder
<1>9. QED
  BY <1>7, <1>8

-----------------------------------------------------------------------------
(* What is held *)

HeldTypes ==
  /\ keyboard_keys \in [shift : BOOLEAN, ctrl : BOOLEAN, alt : BOOLEAN]
  /\ keys_state \in [shift : BOOLEAN, ctrl : BOOLEAN, alt : BOOLEAN]
  /\ pressed_keys \in [1 .. Slots -> Keys \cup {0}]
  /\ capslock \in BOOLEAN

\* Which branch of the handler a press and a release take.
LEMMA PressBranches ==
  ASSUME NEW k \in Keys, ProcessKeyValue(k), IsPress(k)
  PROVE  \/ k \in Modifiers /\ Hold(k \in Shifts, k \in Ctrls, k \in Alts)
         \/ /\ k \notin Modifiers /\ UNCHANGED <<keyboard_keys, keys_state>>
            /\ (k \in Unlisted /\ UNCHANGED pressed_keys) \/ AddPressed(k)
            /\ capslock' \in {capslock, ~capslock}
BY DEF ProcessKeyValue, Modifiers, held, AddPressed, Unlisted

LEMMA ReleaseBranches ==
  ASSUME NEW k \in Keys, ProcessKeyValue(k + 128), ~IsPress(k + 128)
  PROVE  \/ k \in Modifiers /\ LetGo(k \in Shifts, k \in Ctrls, k \in Alts)
         \/ k \notin Modifiers /\ DropPressed(k)
<1>1. PICK key : key = k + 128 /\ ProcessKeyValue(key) /\ ~IsPress(key)
  OBVIOUS
<1>2. PICK j : j = key - 128
  OBVIOUS
<1>3. j = k
  BY <1>1, <1>2, KeyCodes
<1>4. \/ j \in Shifts \cup Ctrls \cup Alts /\ LetGo(j \in Shifts, j \in Ctrls, j \in Alts)
      \/ j \notin Shifts \cup Ctrls \cup Alts /\ DropPressed(j)
  BY <1>1, <1>2, Zenon DEF ProcessKeyValue
<1>5. QED
  BY <1>3, <1>4, Zenon DEF Modifiers

LEMMA HoldKeeps ==
  ASSUME HeldTypes, NEW k, Hold(k \in Shifts, k \in Ctrls, k \in Alts)
  PROVE  /\ HeldTypes' /\ UNCHANGED <<pressed_keys, capslock>>
         /\ keys_state'.shift = keyboard_keys'.shift
         /\ (k \in Shifts \/ keyboard_keys.shift) => keyboard_keys'.shift
BY DEF HeldTypes, Hold

LEMMA LetGoKeeps ==
  ASSUME HeldTypes, NEW k, LetGo(k \in Shifts, k \in Ctrls, k \in Alts)
  PROVE  /\ HeldTypes' /\ UNCHANGED <<pressed_keys, capslock, keys_state>>
         /\ k \notin Shifts /\ keyboard_keys.shift => keyboard_keys'.shift
BY DEF HeldTypes, LetGo

LEMMA AddKeeps ==
  ASSUME HeldTypes, NEW k \in Keys, AddPressed(k)
  PROVE  pressed_keys' \in [1 .. Slots -> Keys \cup {0}] /\ IsListed(k)'
<1>1. Slots \in Nat \ {0} /\ 1 \in 1 .. Slots
  BY KeyboardAssumption
<1>2. CASE \E i \in 1 .. Slots : pressed_keys[i] = k
  BY <1>2 DEF AddPressed, HeldTypes, IsListed
<1>3. CASE ~\E i \in 1 .. Slots : pressed_keys[i] = k
  <2>1. pressed_keys' = [i \in 1 .. Slots |-> IF i = 1 THEN k ELSE pressed_keys[1]]
    BY <1>3 DEF AddPressed
  <2>2. pressed_keys'[1] = k
    BY <1>1, <2>1
  <2>3. QED
    BY <1>1, <2>1, <2>2 DEF HeldTypes, IsListed
<1>4. QED
  BY <1>2, <1>3

\* Only the key that is let go leaves the list.
LEMMA DropKeeps ==
  ASSUME HeldTypes, NEW k \in Keys, DropPressed(k)
  PROVE  /\ pressed_keys' \in [1 .. Slots -> Keys \cup {0}]
         /\ \A i \in 1 .. Slots : pressed_keys[i] # k => pressed_keys'[i] = pressed_keys[i]
BY DEF DropPressed, HeldTypes

-----------------------------------------------------------------------------
(* Each action keeps the invariant. *)

\* Nothing but a new press makes the list owe anything.
LEMMA LatestStays ==
  ASSUME LatestIsKept, UNCHANGED <<held, ring>>, down' \subseteq Keys,
         \A k \in Keys : k \in down' /\ ~Pressing(k)' => k \in down /\ ~Pressing(k)
  PROVE  LatestIsKept'
<1>1. Latest' = Latest /\ UNCHANGED pressed_keys
  BY DEF held, ring, Latest, Behind
<1>2. QED
  BY <1>1 DEF LatestIsKept, IsListed, Unlisted, Shifts, Ctrls, Alts, Locks

LEMMA QuietMeans ==
  ASSUME InStep, wire = <<>>
  PROVE  Quiet /\ \A k \in Keys : ~Pressing(k) /\ ~Releasing(k)
<1>1. \A x, y : <<x>> # <<>> /\ <<x, y>> # <<>>
  OBVIOUS
<1>2. \A k \in Keys, o \in {0, 128} : ~Underway(k, o)
  BY <1>1 DEF Underway, KeySplit
<1>3. ~Pausing
  BY DEF Pausing, PauseSplit, PauseKey
<1>4. QED
  BY <1>2, <1>3 DEF InStep, Pressing, Releasing

\* The codes of a key, and the pause key's, are under way once sent.
LEMMA Sent ==
  ASSUME NEW k \in Keys, buffer' = <<>>
  PROVE  /\ wire' = Make(k) => Underway(k, 0)' /\ wire' \in Seq(0 .. 255)
         /\ wire' = Break(k) => Underway(k, 128)' /\ wire' \in Seq(0 .. 255)
<1>1. k \in Int
  BY KeyCodes
<1>2. k <= 255 <=> ~(k > 255)
  BY <1>1
<1>3. \A o \in {0, 128} : Underway(k, o)' <=> KeySplit(k, o, buffer', wire')
  BY DEF Underway, KeySplit, CodeByte, LowByte
<1>4. QED
  BY <1>2, <1>3, MakeAndBreak DEF KeySplit

LEMMA PressKeeps ==
  ASSUME IInv, NEW k \in Keys, Press(k)
  PROVE  IInv'
<1>1. Quiet /\ \A j \in Keys : ~Pressing(j) /\ ~Releasing(j)
  BY QuietMeans DEF IInv, Press
<1>2. /\ down' = down \cup {k} /\ wire' = Make(k) /\ buffer' = <<>>
      /\ UNCHANGED <<buffer, held, ring, reader>>
  BY <1>1 DEF Press, Quiet
<1>3. Underway(k, 0)' /\ wire' \in Seq(0 .. 255) /\ Pressing(k)'
  BY <1>2, Sent DEF Pressing
<1>4. \A j \in Keys : ~Releasing(j)' /\ (Pressing(j)' => j = k)
  BY <1>3, OneUnderway DEF Releasing, Pressing, Underway
<1>5. TypeOK'
  BY <1>2, <1>3 DEF IInv, TypeOK, held, ring, reader
<1>6. InStep'
  BY <1>3 DEF InStep
<1>7. LatestIsKept'
  BY <1>1, <1>2, <1>3, <1>5, LatestStays DEF IInv, TypeOK
<1>8. ShiftIsKept'
  BY <1>1, <1>2, <1>3 DEF IInv, ShiftIsKept, held, Shifts
<1>9. RingInOrder'
  BY <1>2 DEF IInv, RingInOrder, ring, reader, Behind
<1>10. QED
  BY <1>5, <1>6, <1>7, <1>8, <1>9 DEF IInv

LEMMA ReleaseKeeps ==
  ASSUME IInv, NEW k \in down, Release(k)
  PROVE  IInv'
<1>1. Quiet /\ k \in Keys /\ \A j \in Keys : ~Pressing(j) /\ ~Releasing(j)
  BY QuietMeans DEF IInv, Release, TypeOK
<1>2. /\ down' = down \ {k} /\ wire' = Break(k) /\ buffer' = <<>>
      /\ UNCHANGED <<buffer, held, ring, reader>>
  BY <1>1 DEF Release, Quiet
<1>3. Underway(k, 128)' /\ wire' \in Seq(0 .. 255) /\ Releasing(k)'
  BY <1>1, <1>2, Sent DEF Releasing
<1>4. TypeOK'
  BY <1>2, <1>3 DEF IInv, TypeOK, held, ring, reader
<1>5. InStep'
  BY <1>1, <1>3 DEF InStep
<1>6. LatestIsKept'
  BY <1>1, <1>2, <1>4, LatestStays DEF IInv, TypeOK
<1>7. ShiftIsKept'
  BY <1>1, <1>2 DEF IInv, ShiftIsKept, held, Shifts
<1>8. RingInOrder'
  BY <1>2 DEF IInv, RingInOrder, ring, reader, Behind
<1>9. QED
  BY <1>4, <1>5, <1>6, <1>7, <1>8 DEF IInv

LEMMA PressPauseKeeps ==
  ASSUME IInv, PressPause
  PROVE  IInv'
<1>1. Quiet /\ \A j \in Keys : ~Pressing(j) /\ ~Releasing(j)
  BY QuietMeans DEF IInv, PressPause
<1>2. /\ wire' = PauseKey /\ buffer' = <<>> /\ down' = down
      /\ UNCHANGED <<buffer, held, ring, reader>>
  BY <1>1 DEF PressPause, Quiet
<1>3. wire' \in Seq(0 .. 255) /\ Pausing'
  BY <1>2 DEF PauseKey, E1, Pausing, PauseSplit
<1>4. TypeOK'
  BY <1>2, <1>3 DEF IInv, TypeOK, held, ring, reader
<1>5. InStep'
  BY <1>3 DEF InStep
<1>6. LatestIsKept'
  BY <1>1, <1>2, <1>4, LatestStays DEF IInv, TypeOK
<1>7. ShiftIsKept'
  BY <1>1, <1>2 DEF IInv, ShiftIsKept, held, Shifts
<1>8. RingInOrder'
  BY <1>2 DEF IInv, RingInOrder, ring, reader, Behind
<1>9. QED
  BY <1>4, <1>5, <1>6, <1>7, <1>8 DEF IInv

LEMMA InterruptTypes ==
  ASSUME TypeOK, Interrupt
  PROVE  wire' \in Seq(0 .. 255) /\ buffer' \in Seq(0 .. 255)
<1>1. wire' = Tail(wire) /\ wire # <<>> /\ buffer' \in {<<>>, Append(buffer, Head(wire))}
  BY DEF Interrupt
<1>2. Tail(wire) \in Seq(0 .. 255) /\ Head(wire) \in 0 .. 255
  BY <1>1, HeadTailProperties DEF TypeOK
<1>3. <<>> \in Seq(0 .. 255) /\ Append(buffer, Head(wire)) \in Seq(0 .. 255)
  BY <1>2, EmptySeq, AppendProperties DEF TypeOK
<1>4. QED
  BY <1>1, <1>2, <1>3

LEMMA PutTypes ==
  ASSUME TypeOK, NEW k \in Keys, PutBuffer(k)
  PROVE  /\ keycache' \in [0 .. CACHE_SIZE - 1 -> Numbered] /\ puts' \in Nat
         /\ WritePointer' \in 0 .. CACHE_SIZE - 1
<1>1. /\ puts \in Nat /\ WritePointer \in 0 .. CACHE_SIZE - 1
      /\ keycache \in [0 .. CACHE_SIZE - 1 -> Numbered] /\ CACHE_SIZE \in Nat /\ CACHE_SIZE > 1
  BY KeyboardAssumption DEF TypeOK
<1>2. k \in Int /\ puts' = puts + 1
  BY KeyCodes DEF PutBuffer
<1>3. [key |-> k, n |-> puts'] \in Numbered
  BY <1>1, <1>2 DEF Numbered
<1>4. keycache' = [keycache EXCEPT ![WritePointer] = [key |-> k, n |-> puts']]
  BY DEF PutBuffer
<1>5. keycache' \in [0 .. CACHE_SIZE - 1 -> Numbered]
  BY <1>1, <1>3, <1>4
<1>6. QED
  BY <1>1, <1>2, <1>5 DEF PutBuffer, Advance

\* The end of a press and of a release, as the variables about held keys see it.
LEMMA PressEnds ==
  ASSUME TypeOK, ShiftIsKept, NEW k \in Keys, EndsPress(k), UNCHANGED down
  PROVE  HeldTypes' /\ LatestIsKept' /\ ShiftIsKept'
<1>1. k \in down /\ ProcessKeyValue(k) /\ IsPress(k) /\ PutBuffer(k)
      /\ \A j \in Keys : Pressing(j) => j = k
  <2>1. Underway(k, 0)
    BY DEF EndsPress, Pressing
  <2>2. \A j \in Keys : Pressing(j) => j = k
    BY <2>1, OneUnderway DEF Pressing, Underway
  <2>3. IsPress(k)
    <3>1. LowByte(k) \in 1 .. 127
      BY KeyCodes
    <3>2. QED
      BY <3>1 DEF IsPress
  <2>4. QED
    BY <2>2, <2>3 DEF EndsPress, Pressing
<1>2. HeldTypes
  BY DEF TypeOK, HeldTypes
<1>3. ASSUME NEW s \in Shifts, Keys \cap Shifts = {s}, s \in down, s # k
      PROVE  keyboard_keys.shift /\ keys_state.shift
  BY <1>1, <1>3 DEF ShiftIsKept
<1>4. Latest' = k
  <2>1. WritePointer \in Places /\ keycache \in [Places -> Numbered]
    BY DEF TypeOK, Places
  <2>2. Behind(WritePointer, 1)' = WritePointer
    <3>1. Behind(Advance(WritePointer), 1) = WritePointer
      BY <2>1, BehindAdvance
    <3>2. WritePointer' = Advance(WritePointer)
      BY <1>1 DEF PutBuffer
    <3>3. QED
      BY <3>1, <3>2 DEF Behind
  <2>3. keycache'[WritePointer].key = k
    BY <1>1, <2>1 DEF PutBuffer
  <2>4. QED
    BY <2>2, <2>3 DEF Latest
<1>5. CASE k \in Modifiers /\ Hold(k \in Shifts, k \in Ctrls, k \in Alts)
  <2>1. /\ HeldTypes'
        /\ keys_state'.shift = keyboard_keys'.shift
        /\ (k \in Shifts \/ keyboard_keys.shift) => keyboard_keys'.shift
    BY <1>2, <1>5, HoldKeeps
  <2>2. LatestIsKept'
    BY <1>4, <1>5 DEF LatestIsKept, Modifiers, Unlisted, Shifts, Ctrls, Alts, Locks
  <2>3. ShiftIsKept'
    BY <1>3, <2>1 DEF ShiftIsKept, Shifts
  <2>4. QED
    BY <2>1, <2>2, <2>3
<1>6. CASE /\ k \notin Modifiers /\ UNCHANGED <<keyboard_keys, keys_state>>
           /\ (k \in Unlisted /\ UNCHANGED pressed_keys) \/ AddPressed(k)
           /\ capslock' \in {capslock, ~capslock}
  <2>1. /\ pressed_keys' \in [1 .. Slots -> Keys \cup {0}]
        /\ k \in Unlisted \/ IsListed(k)'
    BY <1>2, <1>6, AddKeeps DEF HeldTypes
  <2>2. HeldTypes'
    BY <1>2, <1>6, <2>1 DEF HeldTypes
  <2>3. LatestIsKept'
    BY <1>4, <2>1 DEF LatestIsKept, IsListed, Unlisted, Shifts, Ctrls, Alts, Locks
  <2>4. ShiftIsKept'
    BY <1>3, <1>6 DEF ShiftIsKept, Modifiers, Shifts
  <2>5. QED
    BY <2>2, <2>3, <2>4
<1>7. QED
  BY <1>1, <1>5, <1>6, PressBranches

LEMMA ReleaseEnds ==
  ASSUME TypeOK, LatestIsKept, ShiftIsKept, NEW k \in Keys, EndsRelease(k), UNCHANGED down
  PROVE  HeldTypes' /\ LatestIsKept' /\ ShiftIsKept'
<1>1. k \notin down /\ Releasing(k) /\ ProcessKeyValue(k + 128) /\ ~IsPress(k + 128)
      /\ \A j \in Keys : ~Pressing(j)
  <2>1. Underway(k, 128)
    BY DEF EndsRelease, Releasing
  <2>2. \A j \in Keys : ~Pressing(j)
    BY <2>1, OneUnderway DEF Pressing, Underway
  <2>3. ~IsPress(k + 128)
    <3>1. LowByte(k) \in 1 .. 127 /\ LowByte(k + 128) = LowByte(k) + 128
      BY KeyCodes
    <3>2. QED
      BY <3>1 DEF IsPress
  <2>4. QED
    BY <2>2, <2>3 DEF EndsRelease, Releasing
<1>2. HeldTypes
  BY DEF TypeOK, HeldTypes
<1>3. ASSUME NEW s \in Shifts, Keys \cap Shifts = {s}, s \in down
      PROVE  keyboard_keys.shift /\ keys_state.shift /\ k \notin Shifts
  BY <1>1, <1>3 DEF ShiftIsKept
<1>4. /\ Latest' = Latest
      /\ Latest \in down \ Unlisted => Latest # k /\ IsListed(Latest)
  <2>1. Latest' = Latest
    BY DEF EndsRelease, ring, Latest, Behind
  <2>2. ~Pressing(Latest)
    BY <1>1 DEF Pressing
  <2>3. QED
    BY <1>1, <2>1, <2>2 DEF LatestIsKept
<1>5. CASE k \in Modifiers /\ LetGo(k \in Shifts, k \in Ctrls, k \in Alts)
  <2>1. /\ HeldTypes' /\ UNCHANGED <<pressed_keys, capslock, keys_state>>
        /\ k \notin Shifts /\ keyboard_keys.shift => keyboard_keys'.shift
    BY <1>2, <1>5, LetGoKeeps
  <2>2. LatestIsKept'
    BY <1>4, <2>1 DEF LatestIsKept, IsListed, Unlisted, Shifts, Ctrls, Alts, Locks
  <2>3. ShiftIsKept'
    BY <1>3, <2>1 DEF ShiftIsKept, Shifts
  <2>4. QED
    BY <2>1, <2>2, <2>3
<1>6. CASE k \notin Modifiers /\ DropPressed(k)
  <2>1. UNCHANGED <<keyboard_keys, keys_state, capslock>>
    BY <1>6 DEF DropPressed
  <2>2. /\ pressed_keys' \in [1 .. Slots -> Keys \cup {0}]
        /\ \A i \in 1 .. Slots : pressed_keys[i] # k => pressed_keys'[i] = pressed_keys[i]
    BY <1>2, <1>6, DropKeeps
  <2>3. HeldTypes'
    BY <1>2, <2>1, <2>2 DEF HeldTypes
  <2>4. LatestIsKept'
    BY <1>4, <2>2 DEF LatestIsKept, IsListed, Unlisted, Shifts, Ctrls, Alts, Locks
  <2>5. ShiftIsKept'
    BY <1>3, <2>1 DEF ShiftIsKept, Shifts
  <2>6. QED
    BY <2>3, <2>4, <2>5
<1>7. QED
  BY <1>1, <1>5, <1>6, ReleaseBranches

LEMMA InterruptKeeps ==
  ASSUME IInv, Interrupt
  PROVE  IInv'
<1> USE DEF IInv
<1>1. UNCHANGED <<down, reader>> /\ wire' \in Seq(0 .. 255) /\ buffer' \in Seq(0 .. 255)
  BY InterruptCases, InterruptTypes
<1>2. CASE Collects
  <2>1. InStep' /\ UNCHANGED <<held, ring>>
        /\ \A k \in Keys : (Pressing(k)' <=> Pressing(k)) /\ (Releasing(k)' <=> Releasing(k))
    BY <1>2 DEF Collects
  <2>2. TypeOK'
    BY <1>1, <2>1 DEF TypeOK, held, ring, reader
  <2>3. LatestIsKept'
    BY <1>1, <2>1, <2>2, LatestStays DEF TypeOK
  <2>4. ShiftIsKept'
    BY <1>1, <2>1 DEF ShiftIsKept, held, Shifts
  <2>5. RingInOrder'
    BY <1>1, <2>1 DEF RingInOrder, ring, reader, Behind
  <2>6. QED
    BY <2>1, <2>2, <2>3, <2>4, <2>5
<1>3. CASE \E k \in Keys : EndsPress(k)
  <2>1. PICK k \in Keys : EndsPress(k)
    BY <1>3
  <2>2. HeldTypes' /\ LatestIsKept' /\ ShiftIsKept'
    BY <1>1, <2>1, PressEnds
  <2>3. PutBuffer(k) /\ InStep'
    BY <2>1 DEF EndsPress, InStep
  <2>4. RingInOrder'
    BY <1>1, <2>3, PutKeepsRing
  <2>5. /\ keycache' \in [0 .. CACHE_SIZE - 1 -> Numbered] /\ puts' \in Nat
        /\ WritePointer' \in 0 .. CACHE_SIZE - 1
    BY <2>3, PutTypes
  <2>6. TypeOK'
    BY <1>1, <2>2, <2>5 DEF TypeOK, HeldTypes, reader
  <2>7. QED
    BY <2>2, <2>3, <2>4, <2>6
<1>4. CASE \E k \in Keys : EndsRelease(k)
  <2>1. PICK k \in Keys : EndsRelease(k)
    BY <1>4
  <2>2. HeldTypes' /\ LatestIsKept' /\ ShiftIsKept'
    BY <1>1, <2>1, ReleaseEnds
  <2>3. UNCHANGED ring /\ InStep'
    BY <2>1 DEF EndsRelease, InStep
  <2>4. RingInOrder'
    BY <1>1, <2>3 DEF RingInOrder, ring, reader, Behind
  <2>5. TypeOK'
    BY <1>1, <2>2, <2>3 DEF TypeOK, HeldTypes, ring, reader
  <2>6. QED
    BY <2>2, <2>3, <2>4, <2>5
<1>5. QED
  BY <1>2, <1>3, <1>4, InterruptCases

LEMMA NeighbourKeeps ==
  ASSUME IInv, Neighbour
  PROVE  IInv'
<1>1. PICK i \in CacheEntries .. CACHE_SIZE - 1 : keycache' = [keycache EXCEPT ![i].key = Foreign]
  BY DEF Neighbour
<1>2. /\ UNCHANGED <<down, wire, buffer, WritePointer, puts, ReadPointer, pc, data, lastTaken>>
      /\ UNCHANGED <<keyboard_keys, pressed_keys, keys_state, capslock>>
  BY DEF Neighbour, device, held, reader
<1>3. /\ CACHE_SIZE \in Nat /\ CacheEntries \in Nat /\ i \in Places
      /\ keycache \in [Places -> Numbered]
  BY KeyboardAssumption DEF IInv, TypeOK, Places
<1>4. \A j \in Places : /\ keycache'[j] \in Numbered /\ keycache'[j].n = keycache[j].n
                        /\ keycache'[j].key = Foreign => j >= CacheEntries \/ keycache[j].key = Foreign
  BY <1>1, <1>3 DEF Numbered, Foreign
<1>5. keycache' \in [Places -> Numbered]
  BY <1>1, <1>3, <1>4
<1>6. TypeOK'
  BY <1>2, <1>5 DEF IInv, TypeOK, Places
<1>7. InStep' /\ ShiftIsKept' /\ \A k : Pressing(k)' <=> Pressing(k)
  BY <1>2 DEF IInv, InStep, ShiftIsKept, Quiet, Pausing, PauseSplit, Pressing, Releasing,
              Underway, KeySplit, CodeByte, LowByte, PauseKey, Shifts
<1>12. LatestIsKept'
  <2>1. Behind(WritePointer, 1) \in Places
    <3>1. WritePointer \in Places /\ 1 \in 0 .. CACHE_SIZE
      BY <1>3 DEF IInv, TypeOK, Places
    <3>2. QED
      BY <3>1, BehindIsPlace
  <2>2. Latest' \in {Latest, Foreign}
    <3>1. keycache'[Behind(WritePointer, 1)].key \in {Latest, Foreign}
      BY <1>1, <1>3, <2>1 DEF Latest, Numbered
    <3>2. QED
      BY <1>2, <3>1 DEF Latest, Behind
  <2>3. Foreign \notin down
    <3>1. down \subseteq Keys
      BY DEF IInv, TypeOK
    <3>2. QED
      BY <3>1, KeyCodes, KeyboardAssumption DEF Foreign
  <2>4. CASE Latest' = Latest
    BY <1>2, <1>7, <2>4 DEF IInv, LatestIsKept, IsListed, Unlisted, Shifts, Ctrls, Alts, Locks
  <2>5. CASE Latest' = Foreign
    BY <1>2, <2>3, <2>5 DEF LatestIsKept
  <2>6. QED
    BY <2>2, <2>4, <2>5
<1>8. \A j \in 1 .. CACHE_SIZE :
        j <= puts => keycache'[Behind(WritePointer, j)].n = puts - j + 1
  <2> TAKE j \in 1 .. CACHE_SIZE
  <2>1. Behind(WritePointer, j) \in Places
    <3>1. WritePointer \in Places /\ j \in 0 .. CACHE_SIZE
      BY <1>3 DEF IInv, TypeOK, Places
    <3>2. QED
      BY <3>1, BehindIsPlace
  <2>2. QED
    BY <1>4, <2>1 DEF IInv, RingInOrder
<1>9. \A j \in Places : keycache'[j].key = Foreign => j >= CacheEntries
  BY <1>4 DEF IInv, RingInOrder, Places
<1>10. RingInOrder'
  BY <1>2, <1>8, <1>9 DEF IInv, RingInOrder, Places, Behind
<1>11. QED
  BY <1>6, <1>7, <1>10, <1>12 DEF IInv

\* A step of the reader leaves what the handler works on alone.
LEMMA ReaderKeeps ==
  ASSUME IInv, UNCHANGED <<device, buffer, held, ring>>,
         ReadPointer' \in 0 .. CACHE_SIZE - 1, lastTaken' \in Nat,
         pc' \in {"idle", "load", "translate"}, data' \in Numbered
  PROVE  InStep' /\ LatestIsKept' /\ ShiftIsKept' /\ TypeOK'
<1>1. UNCHANGED <<down, wire, buffer, keyboard_keys, pressed_keys, keys_state, capslock>>
      /\ UNCHANGED <<keycache, WritePointer, puts>>
  BY DEF device, held, ring
<1>2. InStep' /\ ShiftIsKept' /\ \A k : Pressing(k)' <=> Pressing(k)
  BY <1>1 DEF IInv, InStep, ShiftIsKept, Quiet, Pausing, PauseSplit, Pressing, Releasing,
              Underway, KeySplit, CodeByte, LowByte, PauseKey, Shifts
<1>4. LatestIsKept'
  <2>1. Latest' = Latest
    BY <1>1 DEF Latest, Behind
  <2>2. QED
    BY <1>1, <1>2, <2>1 DEF IInv, LatestIsKept, IsListed, Unlisted, Shifts, Ctrls, Alts, Locks
<1>3. QED
  BY <1>1, <1>2, <1>4 DEF IInv, TypeOK

LEMMA CompareKeeps ==
  ASSUME IInv, Compare
  PROVE  IInv'
<1>1. /\ UNCHANGED <<device, buffer, held, ring, ReadPointer, lastTaken>>
      /\ pc' \in {"load", "translate"} /\ data' \in {data, NoKey}
      /\ pc' = "load" => WritePointer # ReadPointer
  BY DEF Compare
<1>2. NoKey \in Numbered
  BY DEF NoKey, Numbered
<1>3. InStep' /\ LatestIsKept' /\ ShiftIsKept' /\ TypeOK'
  BY <1>1, <1>2, ReaderKeeps DEF IInv, TypeOK
<1>4. RingInOrder'
  BY <1>1 DEF IInv, RingInOrder, ring, Behind
<1>5. QED
  BY <1>3, <1>4 DEF IInv

LEMMA LoadKeeps ==
  ASSUME IInv, Load
  PROVE  IInv'
<1>1. UNCHANGED <<device, buffer, held, ring>> /\ RingInOrder'
  BY LoadTakesOldest DEF IInv, Load
<1>2. /\ ReadPointer' = Advance(ReadPointer) /\ data' = keycache[ReadPointer]
      /\ lastTaken' = data'.n /\ pc' = "translate"
  BY DEF Load
<1>3. /\ ReadPointer \in Places /\ ReadPointer \in 0 .. CACHE_SIZE
      /\ keycache \in [Places -> Numbered]
  BY KeyboardAssumption DEF IInv, TypeOK, Places
<1>4. ReadPointer' \in Places /\ data' \in Numbered /\ lastTaken' \in Nat
  BY <1>2, <1>3, BehindIsPlace DEF Numbered
<1>5. InStep' /\ LatestIsKept' /\ ShiftIsKept' /\ TypeOK'
  BY <1>1, <1>2, <1>4, ReaderKeeps DEF Places
<1>6. QED
  BY <1>1, <1>5 DEF IInv

LEMMA TranslateKeeps ==
  ASSUME IInv, Translate
  PROVE  IInv'
<1>1. /\ UNCHANGED <<device, buffer, held, ring, ReadPointer, lastTaken>>
      /\ pc' = "idle" /\ data' = NoKey
  BY DEF Translate
<1>2. NoKey \in Numbered
  BY DEF NoKey, Numbered
<1>3. InStep' /\ LatestIsKept' /\ ShiftIsKept' /\ TypeOK'
  BY <1>1, <1>2, ReaderKeeps DEF IInv, TypeOK
<1>4. RingInOrder'
  BY <1>1 DEF IInv, RingInOrder, ring, Behind
<1>5. QED
  BY <1>3, <1>4 DEF IInv

LEMMA Initially ==
  ASSUME Init
  PROVE  IInv
<1>1. CACHE_SIZE \in Nat /\ CACHE_SIZE > 1 /\ Slots \in Nat
  BY KeyboardAssumption
<1>2. /\ down = {} /\ wire = <<>> /\ buffer = <<>>
      /\ pressed_keys = [i \in 1 .. Slots |-> 0]
      /\ keycache = [i \in 0 .. CACHE_SIZE - 1 |-> NoKey]
      /\ ReadPointer = 0 /\ WritePointer = 0 /\ puts = 0 /\ pc = "idle" /\ lastTaken = 0
  BY DEF Init
<1>3. NoKey \in Numbered /\ NoKey.key # Foreign
  BY DEF NoKey, Numbered, Foreign
<1>4. TypeOK
  <2>1. /\ keyboard_keys \in [shift : BOOLEAN, ctrl : BOOLEAN, alt : BOOLEAN]
        /\ keys_state \in [shift : BOOLEAN, ctrl : BOOLEAN, alt : BOOLEAN]
        /\ capslock \in BOOLEAN
    BY DEF Init
  <2>2. wire \in Seq(0 .. 255) /\ buffer \in Seq(0 .. 255)
    BY <1>2, EmptySeq
  <2>3. data \in Numbered
    BY <1>3 DEF Init
  <2>4. QED
    BY <1>1, <1>2, <1>3, <2>1, <2>2, <2>3 DEF TypeOK
<1>5. InStep /\ LatestIsKept /\ ShiftIsKept
  BY <1>2 DEF InStep, Quiet, LatestIsKept, ShiftIsKept
<1>6. RingInOrder
  <2>1. puts = lastTaken + Behind(WritePointer, ReadPointer) + 0 * CACHE_SIZE
    BY <1>1, <1>2 DEF Behind
  <2>2. QED
    BY <1>1, <1>2, <1>3, <2>1 DEF RingInOrder
<1>7. QED
  BY <1>4, <1>5, <1>6 DEF IInv

LEMMA Stutters ==
  ASSUME IInv, UNCHANGED vars
  PROVE  IInv'
<1>1. UNCHANGED <<device, buffer, held, ring, ReadPointer, pc, data, lastTaken>>
  BY DEF vars, reader
<1>2. InStep' /\ LatestIsKept' /\ ShiftIsKept' /\ TypeOK'
  BY <1>1, ReaderKeeps DEF IInv, TypeOK
<1>3. RingInOrder'
  BY <1>1 DEF IInv, RingInOrder, ring, Behind
<1>4. QED
  BY <1>2, <1>3 DEF IInv

LEMMA Invariance == Spec => []IInv
<1>1. Init => IInv
  BY Initially
<1>2. IInv /\ [Next]_vars => IInv'
  <2> SUFFICES ASSUME IInv, [Next]_vars PROVE IInv'
    OBVIOUS
  <2>1. CASE \E k \in Keys : Press(k)
    BY <2>1, PressKeeps
  <2>2. CASE \E k \in down : Release(k)
    BY <2>2, ReleaseKeeps
  <2>3. CASE PressPause
    BY <2>3, PressPauseKeeps
  <2>4. CASE Interrupt
    BY <2>4, InterruptKeeps
  <2>5. CASE Neighbour
    BY <2>5, NeighbourKeeps
  <2>6. CASE KeyboardGetKey
    BY <2>6, CompareKeeps, LoadKeeps, TranslateKeeps DEF KeyboardGetKey
  <2>7. CASE UNCHANGED vars
    BY <2>7, Stutters
  <2>8. QED
    BY <2>1, <2>2, <2>3, <2>4, <2>5, <2>6, <2>7 DEF Next
<1>3. QED
  BY <1>1, <1>2, PTL DEF Spec

-----------------------------------------------------------------------------
(* What KeysAreTaken rests on *)

\* While no key comes in, the keys in front of the reader grow fewer, by one
\* with each key it loads, and by nothing else.
Loading == pc = "load" /\ pc' # pc

RingDrains ==
  [][puts' = puts /\ Distance > 0 =>
       Distance' = IF Loading THEN Distance - 1 ELSE Distance]_vars

LEMMA KeysDrain ==
  ASSUME IInv, [Next]_vars, puts' = puts, Distance > 0
  PROVE  Distance' = IF Loading THEN Distance - 1 ELSE Distance
<1>1. puts \in Nat /\ WritePointer \in Places /\ ReadPointer \in Places
  BY DEF IInv, TypeOK, Places
<1>2. CASE Load
  <2>1. Loading /\ ReadPointer' = Advance(ReadPointer) /\ WritePointer' = WritePointer
    BY <1>2 DEF Load, Loading, ring
  <2>2. CACHE_SIZE \in Nat /\ ReadPointer' \in Places /\ Places \subseteq 0 .. CACHE_SIZE
    BY <1>1, <2>1, BehindIsPlace, KeyboardAssumption DEF Places
  <2>3. Distance = Behind(WritePointer, ReadPointer) /\ Distance' = Behind(WritePointer, ReadPointer')
    BY <1>1, <2>1, <2>2, BehindIsPlace DEF Distance
  <2>4. WritePointer # ReadPointer
    BY <1>1, <2>3, BehindAdvance
  <2>5. QED
    BY <1>1, <2>1, <2>3, <2>4, BehindAdvance
<1>3. CASE ~Load
  <2>1. UNCHANGED <<ReadPointer, WritePointer>> /\ ~Loading
    <3>1. CASE \/ \E k \in Keys : Press(k)
               \/ \E k \in down : Release(k)
               \/ PressPause \/ Neighbour \/ UNCHANGED vars
      BY <3>1 DEF Press, Release, PressPause, Neighbour, vars, ring, reader, Loading
    <3>2. CASE Interrupt
      <4>1. UNCHANGED reader
        BY <3>2 DEF Interrupt
      <4>2. UNCHANGED ring \/ puts' = puts + 1
        BY <3>2 DEF Interrupt, PutBuffer
      <4>3. QED
        BY <1>1, <4>1, <4>2 DEF ring, reader, Loading
    <3>3. CASE Compare \/ Translate
      BY <3>3 DEF Compare, Translate, ring, Loading
    <3>4. QED
      BY <1>3, <3>1, <3>2, <3>3 DEF Next, KeyboardGetKey
  <2>2. QED
    BY <2>1 DEF Distance
<1>4. QED
  BY <1>2, <1>3

-----------------------------------------------------------------------------
(* Theorems *)

\* The types, for every number of keys, places and entries.
THEOREM KeyboardTypeCorrect == Spec => []TypeOK
BY Invariance, PTL DEF IInv

\* What the collected and the coming bytes are together does not change when
\* one of them moves.
LEMMA PairJoined ==
  ASSUME NEW y, NEW x
  PROVE  <<y>> \o <<x>> = <<y, x>>
<1>1. <<y>> \in Seq({x, y}) /\ x \in {x, y}
  OBVIOUS
<1>2. Append(<<y>>, x) = <<y>> \o <<x>>
  BY <1>1, AppendIsConcat
<1>3. QED
  BY <1>2, AppendPair

LEMMA HeadMoves ==
  ASSUME NEW S, NEW c \in Seq(S), NEW d \in Seq(S), d # <<>>
  PROVE  c \o d = Append(c, Head(d)) \o Tail(d)
<1>1. Len(d) \in Nat \ {0} /\ Head(d) \in S /\ Tail(d) \in Seq(S) /\ Head(d) = d[1]
  BY EmptySeq, HeadTailProperties
<1>2. 1 \in 1 .. Len(d) /\ Len(d) \in 1 .. Len(d)
  BY <1>1
<1>3. SubSeq(d, 1, Len(d)) = <<d[1]>> \o SubSeq(d, 1 + 1, Len(d))
  BY <1>2, SubSeqRecursiveFirst, Zenon
<1>4. SubSeq(d, 1, Len(d)) = d /\ Tail(d) = SubSeq(d, 2, Len(d)) /\ 1 + 1 = 2
  BY SubSeqFull, TailIsSubSeq
<1>5. d = <<Head(d)>> \o Tail(d)
  BY <1>1, <1>3, <1>4, Zenon
<1>6. PICK x \in S, t \in Seq(S) : x = Head(d) /\ t = Tail(d)
  BY <1>1
<1>7. <<x>> \in Seq(S)
  BY <1>6
<1>8. PICK e \in Seq(S) : e = <<x>>
  BY <1>7, Zenon
<1>9. Append(c, x) = c \o e
  BY <1>6, <1>8, AppendIsConcat
<1>10. (c \o e) \o t = c \o (e \o t)
  BY <1>6, <1>8, ConcatAssociative
<1>11. QED
  BY <1>5, <1>6, <1>8, <1>9, <1>10, Zenon

LEMMA PauseJoined ==
  ASSUME NEW b, NEW w, PauseSplit(b, w)
  PROVE  b \o w \in {PauseKey, SubSeq(PauseKey, 4, 6)}
<1>1. SubSeq(PauseKey, 4, 6) = <<E1, 157, 197>>
  <2> DEFINE p == PauseKey
             t == <<E1, 157, 197>>
  <2>1. /\ p[4] = E1 /\ p[5] = 157 /\ p[6] = 197
        /\ t \in Seq(Nat) /\ Len(t) = 3 /\ t[1] = E1 /\ t[2] = 157 /\ t[3] = 197
    BY DEF PauseKey, E1
  <2>2. E1 \in Nat
    BY DEF E1
  <2> HIDE DEF t
  <2> DEFINE u == SubSeq(p, 4, 6)
  <2>7. p[4] = u[1] /\ p[5] = u[2] /\ p[6] = u[3] /\ u \in Seq(Nat) /\ Len(u) = 3
    BY <2>1, <2>2 DEF PauseKey
  <2> HIDE DEF u, p
  <2>3. Len(u) = Len(t) /\ \A i \in 1 .. Len(u) : u[i] = t[i]
    BY <2>1, <2>7
  <2>8. u = t
    BY <2>1, <2>3, <2>7, SeqEqual
  <2>9. QED
    BY <2>8 DEF u, t, p
<1> DEFINE d1 == <<29, 69, E1, 157, 197>>
           d2 == <<69, E1, 157, 197>>
           d3 == <<E1, 157, 197>>
           d4 == <<157, 197>>
           d5 == <<197>>
<1>3. /\ PauseKey \in Seq(Nat) /\ PauseKey # <<>> /\ Head(PauseKey) = E1 /\ Tail(PauseKey) = d1
      /\ d1 \in Seq(Nat) /\ d1 # <<>> /\ Head(d1) = 29 /\ Tail(d1) = d2
      /\ d3 \in Seq(Nat) /\ d3 # <<>> /\ Head(d3) = E1 /\ Tail(d3) = d4
      /\ d4 \in Seq(Nat) /\ d4 # <<>> /\ Head(d4) = 157 /\ Tail(d4) = d5
  BY DEF PauseKey, E1
<1>4. /\ <<>> \in Seq(Nat) /\ <<E1>> \in Seq(Nat) /\ Append(<<>>, E1) = <<E1>>
      /\ Append(<<E1>>, 29) = <<E1, 29>> /\ Append(<<E1>>, 157) = <<E1, 157>>
  BY AppendPair DEF E1
<1>5. <<>> \o PauseKey = PauseKey /\ <<>> \o d3 = d3
  BY <1>3, ConcatEmptySeq
<1> DEFINE c0 == <<>>
           c1 == <<E1>>
           c2 == <<E1, 29>>
           c3 == <<E1, 157>>
<1>8. /\ c0 \in Seq(Nat) /\ c1 \in Seq(Nat) /\ Append(c0, E1) = c1
      /\ Append(c1, 29) = c2 /\ Append(c1, 157) = c3
      /\ c0 \o PauseKey = PauseKey /\ c0 \o d3 = d3 /\ d1 # c0 /\ d3 # c0 /\ d4 # c0 /\ PauseKey # c0
  BY <1>3, <1>4, <1>5, Zenon
<1>9. \A c, d \in Seq(Nat) : d # c0 => c \o d = Append(c, Head(d)) \o Tail(d)
  BY HeadMoves
<1> HIDE DEF c0, c1, c2, c3, d1, d2, d3, d4, d5
<1>10. /\ PauseKey \in Seq(Nat) /\ Head(PauseKey) = E1 /\ Tail(PauseKey) = d1
       /\ d1 \in Seq(Nat) /\ Head(d1) = 29 /\ Tail(d1) = d2
       /\ d3 \in Seq(Nat) /\ Head(d3) = E1 /\ Tail(d3) = d4
       /\ d4 \in Seq(Nat) /\ Head(d4) = 157 /\ Tail(d4) = d5
  BY <1>3
<1>6. c1 \o d1 = PauseKey /\ c2 \o d2 = PauseKey /\ c1 \o d4 = d3 /\ c3 \o d5 = d3
  <2>1. c0 \o PauseKey = Append(c0, Head(PauseKey)) \o Tail(PauseKey)
    BY <1>8, <1>9, <1>10, Zenon
  <2>2. c0 \o d3 = Append(c0, Head(d3)) \o Tail(d3)
    BY <1>8, <1>9, <1>10, Zenon
  <2>3. c1 \o d1 = Append(c1, Head(d1)) \o Tail(d1)
    BY <1>8, <1>9, <1>10, Zenon
  <2>4. c1 \o d4 = Append(c1, Head(d4)) \o Tail(d4)
    BY <1>8, <1>9, <1>10, Zenon
  <2>5. QED
    BY <1>8, <1>10, <2>1, <2>2, <2>3, <2>4, Zenon
<1>11. b \o w = PauseKey \/ b \o w = d3
  <2>1. \/ b = c0 /\ w = PauseKey
        \/ b = c1 /\ w = d1
        \/ b = c2 /\ w = d2
        \/ b = c0 /\ w = d3
        \/ b = c1 /\ w = d4
        \/ b = c3 /\ w = d5
    BY Zenon DEF PauseSplit, c0, c1, c2, c3, d1, d2, d3, d4, d5
  <2>2. QED
    BY <1>6, <1>8, <2>1, Zenon
<1>7. QED
  BY <1>1, <1>11, Zenon DEF d3

\* The decoder never loses count of the bytes of a scan code.
THEOREM DecoderStaysInStep == Spec => []DecoderInStep
<1>1. ASSUME IInv PROVE DecoderInStep
  <2> DEFINE codes == {Make(k) : k \in Keys} \cup {Break(k) : k \in Keys}
                        \cup {PauseKey, SubSeq(PauseKey, 4, 6)}
  <2>1. ASSUME NEW k \in Keys, NEW o \in {0, 128}, Underway(k, o)
        PROVE  buffer \o wire \in codes /\ wire # <<>>
    <3>1. PICK n : n = CodeByte(k, o)
      OBVIOUS
    <3>2. <<>> \o <<n>> = <<n>> /\ <<>> \o <<E0, n>> = <<E0, n>> /\ <<E0>> \o <<n>> = <<E0, n>>
          /\ <<n>> # <<>> /\ <<E0, n>> # <<>>
      BY PairJoined
    <3>3. (k > 255 <=> ~(k <= 255)) /\ k \in Int
      BY KeyCodes
    <3>4. buffer \o wire = IF k > 255 THEN <<E0, n>> ELSE <<n>>
      BY <2>1, <3>1, <3>2, <3>3, Zenon DEF Underway, KeySplit
    <3>5. wire # <<>>
      BY <2>1, <3>1, <3>2, Zenon DEF Underway, KeySplit
    <3>6. buffer \o wire \in {Make(k), Break(k)}
      BY <3>1, <3>4, MakeAndBreak
    <3>7. QED
      BY <3>5, <3>6
  <2>2. CASE Quiet
    BY <2>2 DEF Quiet, DecoderInStep
  <2>3. CASE Pausing
    <3>1. buffer \o wire \in {PauseKey, SubSeq(PauseKey, 4, 6)}
      BY <2>3, PauseJoined, Zenon DEF Pausing
    <3>2. wire # <<>>
      <4> HIDE DEF codes
      <4> SUFFICES ASSUME wire = <<>> PROVE FALSE
        OBVIOUS
      <4>1. PauseSplit(buffer, <<>>)
        BY <2>3 DEF Pausing
      <4>2. QED
        BY <4>1 DEF PauseSplit, PauseKey
    <3>3. buffer \o wire \in codes
      BY <3>1, Zenon
    <3>4. QED
      BY <3>2, <3>3, Zenon DEF DecoderInStep
  <2>4. CASE \E k \in Keys : Pressing(k) \/ Releasing(k)
    BY <2>1, <2>4 DEF Pressing, Releasing, DecoderInStep
  <2>5. QED
    BY <1>1, <2>2, <2>3, <2>4 DEF IInv, InStep
<1>2. QED
  BY Invariance, <1>1, PTL

\* What lies between the pointers is what was typed, in order, and no entry
\* inside the block was overwritten by others.
THEOREM RingStaysInOrder == Spec => []RingKeepsOrder
<1>1. ASSUME IInv PROVE RingKeepsOrder
  <2>1. /\ CACHE_SIZE \in Nat /\ CACHE_SIZE > 1 /\ puts \in Nat /\ lastTaken \in Nat
        /\ WritePointer \in Places /\ ReadPointer \in Places /\ ReadPointer \in 0 .. CACHE_SIZE
    BY <1>1, KeyboardAssumption DEF IInv, TypeOK, Places
  <2>2. Distance = Behind(WritePointer, ReadPointer) /\ Distance \in Places
    BY <2>1, BehindIsPlace DEF Distance
  <2>3. Distance <= puts
    <3>1. PICK laps \in Nat : puts = lastTaken + Distance + laps * CACHE_SIZE
      BY <1>1, <2>2 DEF IInv, RingInOrder
    <3>2. laps * CACHE_SIZE \in Nat
      BY <2>1
    <3>3. QED
      BY <2>1, <2>2, <3>1, <3>2 DEF Places
  <2>4. ASSUME NEW j \in 1 .. Distance, NEW i, i = (WritePointer - j) % CACHE_SIZE
        PROVE  keycache[i].n = puts - j + 1 /\ (keycache[i].key = Foreign => i >= CacheEntries)
    <3>1. j \in 1 .. CACHE_SIZE /\ j \in 0 .. CACHE_SIZE /\ j <= puts
      BY <2>1, <2>2, <2>3 DEF Places
    <3>2. i = Behind(WritePointer, j) /\ i \in Places
      BY <2>1, <2>4, <3>1, BehindIsPlace
    <3>3. QED
      BY <1>1, <3>1, <3>2 DEF IInv, RingInOrder, Places
  <2>5. QED
    BY <2>3, <2>4 DEF RingKeepsOrder
<1>2. QED
  BY Invariance, <1>1, PTL

\* No key is taken twice or out of order, and what is missing are whole laps.
THEOREM KeysComeInOrder == Spec => TakenInOrder
<1>1. IInv /\ [Next]_vars =>
        [pc = "load" /\ pc' # pc =>
           lastTaken' > lastTaken /\ (lastTaken' - lastTaken - 1) % CACHE_SIZE = 0]_vars
  <2> SUFFICES ASSUME IInv, Next, pc = "load", pc' # pc
               PROVE  lastTaken' > lastTaken /\ (lastTaken' - lastTaken - 1) % CACHE_SIZE = 0
    OBVIOUS
  <2>1. Load
    <3>1. ~(\E k \in Keys : Press(k)) /\ ~(\E k \in down : Release(k)) /\ ~PressPause
          /\ ~Interrupt /\ ~Neighbour
      BY DEF Press, Release, PressPause, Interrupt, Neighbour, reader
    <3>2. ~Compare /\ ~Translate
      BY DEF Compare, Translate
    <3>3. QED
      BY <3>1, <3>2 DEF Next, KeyboardGetKey
  <2>2. QED
    BY <2>1, LoadTakesOldest DEF IInv
<1>2. QED
  BY Invariance, <1>1, PTL DEF Spec, TakenInOrder

\* The reader uses the shifted layout while the only shift key is held.
THEOREM HeldShiftIsSeen == Spec => []ShiftHeldIsSeen
<1>1. ASSUME IInv PROVE ShiftHeldIsSeen
  <2> SUFFICES ASSUME NEW s \in Shifts, wire = <<>>, s \in down, Keys \cap Shifts = {s}
               PROVE  keys_state.shift
    BY DEF ShiftHeldIsSeen
  <2>1. s \in Keys /\ ~Pressing(s)
    BY <1>1, QuietMeans DEF IInv
  <2>2. QED
    BY <1>1, <2>1 DEF IInv, ShiftIsKept
<1>2. QED
  BY Invariance, <1>1, PTL

\* The key typed last is in pressed_keys while it is held, however often the
\* list was overrun and smeared, and whatever is released meanwhile.
THEOREM LatestStaysListed == Spec => []LatestIsListed
<1>1. ASSUME IInv PROVE LatestIsListed
  <2>1. Behind(WritePointer, 1) = (WritePointer - 1) % CACHE_SIZE
    <3>1. WritePointer \in Places /\ 1 \in 0 .. CACHE_SIZE
      BY <1>1, KeyboardAssumption DEF IInv, TypeOK, Places
    <3>2. QED
      BY <3>1, BehindIsPlace
  <2> SUFFICES ASSUME wire = <<>>, Latest \in down \ Unlisted
               PROVE  IsListed(Latest)
    BY <2>1 DEF LatestIsListed, Latest, IsListed
  <2>2. ~Pressing(Latest)
    BY <1>1, QuietMeans DEF IInv, Pressing
  <2>3. QED
    BY <1>1, <2>2 DEF IInv, LatestIsKept
<1>2. QED
  BY Invariance, <1>1, PTL

\* KeyboardGetKey (Keyboard.c) empties the ring when nothing is typed: it takes
\* one key each time, and no other step moves either pointer.
THEOREM KeysAreDrained == Spec => RingDrains
<1>1. IInv /\ [Next]_vars =>
        [puts' = puts /\ Distance > 0 =>
           Distance' = IF Loading THEN Distance - 1 ELSE Distance]_vars
  BY KeysDrain
<1>2. QED
  BY Invariance, <1>1, PTL DEF Spec, RingDrains
=============================================================================
