--------------------------- MODULE ParsingProofs ----------------------------
(***************************************************************************)
(* Theorems about Parsing, for texts and payloads of any length, any       *)
(* prices, instants and values of fields: base64 and tokens, candles,      *)
(* ticks as they are received and as they are written and read again,      *)
(* JSON bodies, and what is thrown of lines and bodies that are spoilt.    *)
(***************************************************************************)
EXTENDS Parsing, FiniteSetTheorems, SequenceTheorems, TLAPS

Byte == 0..255
Characters == Sextets \cup {Padding, Other}

-----------------------------------------------------------------------------
(* base64: one group                                                        *)

\* Three bytes are four sextets, and back.
LEMMA BytesOfSextets ==
    ASSUME NEW a \in Byte, NEW b \in Byte, NEW c \in Byte
    PROVE  /\ (a \div 4) * 4 + ((a % 4) * 16 + b \div 16) \div 16 = a
           /\ (((a % 4) * 16 + b \div 16) % 16) * 16 + ((b % 16) * 4 + c \div 64) \div 4 = b
           /\ (((b % 16) * 4 + c \div 64) % 4) * 64 + (c % 64) = c
BY DEF Byte

LEMMA SextetsOfBytes ==
    ASSUME NEW s \in Sextets, NEW t \in Sextets, NEW u \in Sextets, NEW v \in Sextets
    PROVE  /\ (s * 4 + t \div 16) \div 4 = s
           /\ ((s * 4 + t \div 16) % 4) * 16 + ((t % 16) * 16 + u \div 4) \div 16 = t
           /\ (((t % 16) * 16 + u \div 4) % 16) * 4 + ((u % 4) * 64 + v) \div 64 = u
           /\ ((u % 4) * 64 + v) % 64 = v
BY DEF Sextets

\* The bytes of a group are bytes, and its sextets are sextets.
LEMMA GroupTypes ==
    /\ \A a, b, c \in Byte :
         /\ a \div 4 \in Sextets /\ (a % 4) * 16 + b \div 16 \in Sextets
         /\ (b % 16) * 4 + c \div 64 \in Sextets /\ c % 64 \in Sextets
    /\ \A s, t, u, v \in Sextets :
         /\ s * 4 + t \div 16 \in Byte /\ (t % 16) * 16 + u \div 4 \in Byte
         /\ (u % 4) * 64 + v \in Byte
<1>1. ASSUME NEW a \in Byte, NEW b \in Byte, NEW c \in Byte
      PROVE  /\ a \div 4 \in Sextets /\ (a % 4) * 16 + b \div 16 \in Sextets
             /\ (b % 16) * 4 + c \div 64 \in Sextets /\ c % 64 \in Sextets
  BY <1>1 DEF Byte, Sextets
<1>2. ASSUME NEW s \in Sextets, NEW t \in Sextets, NEW u \in Sextets, NEW v \in Sextets
      PROVE  /\ s * 4 + t \div 16 \in Byte /\ (t % 16) * 16 + u \div 4 \in Byte
             /\ (u % 4) * 64 + v \in Byte
  BY <1>2 DEF Byte, Sextets
<1> QED BY <1>1, <1>2

\* Where the places of a group are, among the characters and among the bytes.
LEMMA Places ==
    ASSUME NEW k \in Nat
    PROVE  /\ (4 * k + 1) % 4 = 1 /\ (4 * k + 2) % 4 = 2 /\ (4 * k + 3) % 4 = 3 /\ (4 * k + 4) % 4 = 0
           /\ (4 * k) \div 4 = k /\ (4 * k + 1) \div 4 = k /\ (4 * k + 2) \div 4 = k /\ (4 * k + 3) \div 4 = k
           /\ (3 * k + 1) % 3 = 1 /\ (3 * k + 2) % 3 = 2 /\ (3 * k + 3) % 3 = 0
           /\ (3 * k) \div 3 = k /\ (3 * k + 1) \div 3 = k /\ (3 * k + 2) \div 3 = k
OBVIOUS

-----------------------------------------------------------------------------
(* encode_into, group by group                                              *)

\* the byte in place i, or the zero that stands for none
ByteAt(bytes, i) == IF i <= Len(bytes) THEN bytes[i] ELSE 0

Groups(bytes) == (Len(bytes) + 2) \div 3

\* The characters of group k.
LEMMA EncodedGroup ==
    ASSUME NEW bytes \in Seq(Byte), NEW k \in 0..(Groups(bytes) - 1)
    PROVE  LET text == encode_into(bytes)
               a == ByteAt(bytes, 3 * k + 1)
               b == ByteAt(bytes, 3 * k + 2)
               c == ByteAt(bytes, 3 * k + 3)
           IN /\ text[4 * k + 1] = a \div 4
              /\ text[4 * k + 2] = (a % 4) * 16 + b \div 16
              /\ text[4 * k + 3] = IF 3 * k + 2 > Len(bytes) THEN Padding ELSE (b % 16) * 4 + c \div 64
              /\ text[4 * k + 4] = IF 3 * k + 3 > Len(bytes) THEN Padding ELSE c % 64
<1>1. k \in Nat /\ Len(bytes) \in Nat /\ Groups(bytes) \in Nat
  BY DEF Groups
<1>2. {4 * k + 1, 4 * k + 2, 4 * k + 3, 4 * k + 4} \subseteq 1..(4 * Groups(bytes))
  BY <1>1
<1>3. /\ (4 * k + 1) - 1 = 4 * k /\ (4 * k + 2) - 1 = 4 * k + 1
      /\ (4 * k + 3) - 1 = 4 * k + 2 /\ (4 * k + 4) - 1 = 4 * k + 3
  BY <1>1
<1> DEFINE text == encode_into(bytes)
<1>4. /\ (4 * k + 1) % 4 = 1 /\ (4 * k + 2) % 4 = 2 /\ (4 * k + 3) % 4 = 3 /\ (4 * k + 4) % 4 = 0
      /\ ((4 * k + 1) - 1) \div 4 = k /\ ((4 * k + 2) - 1) \div 4 = k
      /\ ((4 * k + 3) - 1) \div 4 = k /\ ((4 * k + 4) - 1) \div 4 = k
  BY <1>1, <1>3, Places
<1>5. ASSUME NEW i \in 1..(4 * Groups(bytes)), (i - 1) \div 4 = k
      PROVE  /\ i % 4 = 1 => text[i] = ByteAt(bytes, 3 * k + 1) \div 4
             /\ i % 4 = 2 => text[i] = (ByteAt(bytes, 3 * k + 1) % 4) * 16 + ByteAt(bytes, 3 * k + 2) \div 16
             /\ i % 4 = 3 => text[i] = IF 3 * k + 2 > Len(bytes) THEN Padding
                                        ELSE (ByteAt(bytes, 3 * k + 2) % 16) * 4 + ByteAt(bytes, 3 * k + 3) \div 64
             /\ i % 4 = 0 => text[i] = IF 3 * k + 3 > Len(bytes) THEN Padding ELSE ByteAt(bytes, 3 * k + 3) % 64
  <2>1. text[i] = CASE i % 4 = 1 -> ByteAt(bytes, 3 * k + 1) \div 4
                    [] i % 4 = 2 -> (ByteAt(bytes, 3 * k + 1) % 4) * 16 + ByteAt(bytes, 3 * k + 2) \div 16
                    [] i % 4 = 3 -> IF 3 * k + 2 > Len(bytes) THEN Padding
                                    ELSE (ByteAt(bytes, 3 * k + 2) % 16) * 4 + ByteAt(bytes, 3 * k + 3) \div 64
                    [] OTHER -> IF 3 * k + 3 > Len(bytes) THEN Padding ELSE ByteAt(bytes, 3 * k + 3) % 64
    BY <1>5, Zenon DEF encode_into, ByteAt, Groups
  <2> HIDE DEF text
  <2> QED BY <2>1
<1> QED BY <1>2, <1>4, <1>5

LEMMA EncodedType ==
    ASSUME NEW bytes \in Seq(Byte)
    PROVE  /\ encode_into(bytes) \in Seq(Characters)
           /\ Len(encode_into(bytes)) = 4 * Groups(bytes)
           /\ DOMAIN encode_into(bytes) = 1..(4 * Groups(bytes))
           /\ Groups(bytes) \in Nat
           /\ \A i \in Nat \ {0} : ByteAt(bytes, i) \in Byte
<1>1. Groups(bytes) \in Nat
  BY DEF Groups
<1>2. ASSUME NEW i \in Nat \ {0} PROVE ByteAt(bytes, i) \in Byte
  <2>1. CASE i <= Len(bytes)
    BY <2>1 DEF ByteAt
  <2>2. CASE ~(i <= Len(bytes))
    BY <2>2 DEF ByteAt, Byte
  <2> QED BY <2>1, <2>2
<1>3. DOMAIN encode_into(bytes) = 1..(4 * Groups(bytes))
  BY DEF encode_into, Groups
<1>4. ASSUME NEW i \in 1..(4 * Groups(bytes)) PROVE encode_into(bytes)[i] \in Characters
  <2> DEFINE k == (i - 1) \div 4
  <2>1. k \in 0..(Groups(bytes) - 1) /\ i \in {4 * k + 1, 4 * k + 2, 4 * k + 3, 4 * k + 4}
    BY <1>1
  <2> HIDE DEF k
  <2>2. {3 * k + 1, 3 * k + 2, 3 * k + 3} \subseteq Nat \ {0}
    BY <2>1
  <2>3. /\ ByteAt(bytes, 3 * k + 1) \in Byte /\ ByteAt(bytes, 3 * k + 2) \in Byte
        /\ ByteAt(bytes, 3 * k + 3) \in Byte
    BY <1>2, <2>2
  <2> DEFINE a == ByteAt(bytes, 3 * k + 1)
             b == ByteAt(bytes, 3 * k + 2)
             c == ByteAt(bytes, 3 * k + 3)
  <2>4. /\ a \div 4 \in Sextets /\ (a % 4) * 16 + b \div 16 \in Sextets
        /\ (b % 16) * 4 + c \div 64 \in Sextets /\ c % 64 \in Sextets
    BY <2>3, GroupTypes
  <2>5. \A n \in 1..4 : encode_into(bytes)[4 * k + n] \in Sextets \cup {Padding}
    BY <2>1, <2>4, EncodedGroup
  <2> QED BY <2>1, <2>5 DEF Characters
<1>5. encode_into(bytes) = [i \in 1..(4 * Groups(bytes)) |-> encode_into(bytes)[i]]
  BY DEF encode_into, Groups
<1> HIDE DEF encode_into
<1>6. encode_into(bytes) \in [1..(4 * Groups(bytes)) -> Characters]
  BY <1>4, <1>5
<1> QED BY <1>1, <1>2, <1>3, <1>6

-----------------------------------------------------------------------------
(* The padding                                                              *)

\* The padding signs of a text are counted right if they are its last ones.
LEMMA PaddingCounted ==
    ASSUME NEW text \in Seq(Characters), Len(text) >= 4, NEW p \in 0..3,
           \A i \in (Len(text) - 3)..Len(text) : text[i] = Padding <=> i > Len(text) - p
    PROVE  NumPadding(text) = p
<1> DEFINE n == Len(text)
<1>1. n \in Nat /\ text # <<>>
  OBVIOUS
<1>2. {i \in (n - 3)..n : text[i] = Padding} = (n - p + 1)..n
  BY <1>1
<1>3. Cardinality((n - p + 1)..n) = p
  BY <1>1, FS_Interval
<1> QED BY <1>1, <1>2, <1>3 DEF NumPadding

\* A text that is decoded has its padding signs at the end, and no more than two.
LEMMA PaddingIsLast ==
    ASSUME NEW text \in Seq(Characters), text # <<>>, ~DecodeThrows(text)
    PROVE  /\ NumPadding(text) \in 0..2
           /\ \A i \in 1..(Len(text) - NumPadding(text)) : text[i] \in Sextets
           /\ \A i \in (Len(text) - NumPadding(text) + 1)..Len(text) : text[i] = Padding
<1> DEFINE n == Len(text)
           p == NumPadding(text)
           signs == {i \in (n - 3)..n : text[i] = Padding}
<1>1. n \in Nat /\ n >= 4
  <2>1. n \in Nat /\ n # 0 /\ n % 4 = 0
    BY DEF DecodeThrows
  <2> QED BY <2>1
<1>2. p = Cardinality(signs)
  BY Zenon DEF NumPadding
<1>3. IsFiniteSet(signs) /\ p \in 0..2
  <2>1. n - 3 \in Int /\ n \in Int /\ signs \in SUBSET ((n - 3)..n)
    BY <1>1
  <2>2. IsFiniteSet(signs)
    BY <2>1, FS_Interval, FS_Subset, Zenon
  <2>3. p \in Nat
    BY <1>2, <2>2, FS_CardinalityType, Zenon
  <2>4. ~(p > 2)
    BY Zenon DEF DecodeThrows
  <2> HIDE DEF p
  <2> QED BY <2>2, <2>3, <2>4
<1>4. \A i \in 1..(n - p) : text[i] \in Sextets
  BY DEF DecodeThrows
<1>5. signs \in SUBSET ((n - p + 1)..n)
  <2> SUFFICES ASSUME NEW i \in (n - 3)..n, text[i] = Padding PROVE i \in (n - p + 1)..n
    OBVIOUS
  <2>1. text[i] \notin Sextets
    BY DEF Sextets, Padding
  <2>2. i \notin 1..(n - p)
    BY <1>4, <2>1
  <2> HIDE DEF p, n
  <2> QED BY <1>1, <1>3, <2>2
<1>6. IsFiniteSet((n - p + 1)..n) /\ Cardinality((n - p + 1)..n) = p
  <2> HIDE DEF p, n
  <2>1. n - p + 1 \in Int /\ n \in Int
    BY <1>1, <1>3
  <2> QED BY <1>1, <1>3, <2>1, FS_Interval
<1>7. signs = (n - p + 1)..n
  BY <1>2, <1>5, <1>6, FS_Subset, Zenon
<1>8. \A i \in (n - p + 1)..n : text[i] = Padding
  BY <1>7
<1> QED BY <1>3, <1>4, <1>8

-----------------------------------------------------------------------------
(* There and back                                                           *)

\* Where the padding of an encoding begins.
LEMMA EncodedPadding ==
    ASSUME NEW bytes \in Seq(Byte)
    PROVE  /\ NumPadding(encode_into(bytes)) = 3 * Groups(bytes) - Len(bytes)
           /\ 3 * Groups(bytes) - Len(bytes) \in 0..2
           /\ \A i \in 1..(Groups(bytes) + Len(bytes)) : encode_into(bytes)[i] \in Sextets
           /\ \A i \in (Groups(bytes) + Len(bytes) + 1)..(4 * Groups(bytes)) :
                encode_into(bytes)[i] = Padding
<1> DEFINE n == Len(bytes)
           g == Groups(bytes)
           text == encode_into(bytes)
<1>1. n \in Nat /\ g \in Nat /\ 3 * g - n \in 0..2
  BY DEF Groups
<1>2. ASSUME NEW i \in 1..(4 * g)
      PROVE  /\ i <= g + n => text[i] \in Sextets
             /\ i > g + n => text[i] = Padding
  <2> DEFINE k == (i - 1) \div 4
             a == ByteAt(bytes, 3 * k + 1)
             b == ByteAt(bytes, 3 * k + 2)
             c == ByteAt(bytes, 3 * k + 3)
  <2>1. k \in 0..(g - 1) /\ i \in {4 * k + 1, 4 * k + 2, 4 * k + 3, 4 * k + 4}
    BY <1>1
  <2> HIDE DEF k
  <2>2. {3 * k + 1, 3 * k + 2, 3 * k + 3} \subseteq Nat \ {0}
    BY <2>1
  <2>3. a \in Byte /\ b \in Byte /\ c \in Byte
    BY <2>2, EncodedType
  <2>4. /\ a \div 4 \in Sextets /\ (a % 4) * 16 + b \div 16 \in Sextets
        /\ (b % 16) * 4 + c \div 64 \in Sextets /\ c % 64 \in Sextets
    BY <2>3, GroupTypes
  <2>5. /\ text[4 * k + 1] \in Sextets /\ text[4 * k + 2] \in Sextets
        /\ text[4 * k + 3] \in Sextets \/ (3 * k + 2 > n /\ text[4 * k + 3] = Padding)
        /\ 3 * k + 2 > n => text[4 * k + 3] = Padding
        /\ text[4 * k + 4] \in Sextets \/ (3 * k + 3 > n /\ text[4 * k + 4] = Padding)
        /\ 3 * k + 3 > n => text[4 * k + 4] = Padding
    BY <2>1, <2>4, EncodedGroup
  <2> HIDE DEF text, g, n
  <2>6. /\ i = 4 * k + 1 => i <= g + n
        /\ i = 4 * k + 2 => i <= g + n
        /\ i = 4 * k + 3 => (i <= g + n <=> 3 * k + 2 <= n)
        /\ i = 4 * k + 4 => (i <= g + n <=> 3 * k + 3 <= n)
    BY <1>1, <2>1
  <2> QED BY <1>1, <2>1, <2>5, <2>6
<1>3. NumPadding(text) = 3 * g - n
  <2>1. CASE n = 0
    <3>1. g = 0
      BY <2>1 DEF Groups
    <3>2. text = <<>>
      <4>1. text \in Seq(Characters) /\ Len(text) = 0
        BY <3>1, EncodedType
      <4> HIDE DEF text
      <4> QED BY <4>1
    <3>3. NumPadding(text) = 0
      BY <3>2, Zenon DEF NumPadding
    <3> QED BY <2>1, <3>1, <3>3
  <2>2. CASE n # 0
    <3>1. Len(text) = 4 * g /\ g >= 1 /\ text \in Seq(Characters)
      BY <1>1, <2>2, EncodedType
    <3>2. \A i \in (4 * g - 3)..(4 * g) : text[i] = Padding <=> i > 4 * g - (3 * g - n)
      <4> SUFFICES ASSUME NEW i \in (4 * g - 3)..(4 * g)
                   PROVE  text[i] = Padding <=> i > g + n
        BY <1>1
      <4>1. i \in 1..(4 * g)
        BY <3>1, <1>1
      <4>2. Padding \notin Sextets
        BY DEF Sextets, Padding
      <4> HIDE DEF text, g, n
      <4> QED BY <1>1, <1>2, <4>1, <4>2
    <3> HIDE DEF text, g, n
    <3> QED BY <1>1, <3>1, <3>2, PaddingCounted
  <2> QED BY <2>1, <2>2
<1> QED BY <1>1, <1>2, <1>3

\* The bytes of group k of a text.
LEMMA DecodedGroup ==
    ASSUME NEW text, NEW k \in Nat, NEW n \in Nat,
           n = 3 * (Len(text) \div 4) - NumPadding(text)
    PROVE  LET bytes == decode_into(text)
           IN /\ DOMAIN bytes = 1..n
              /\ 3 * k + 1 <= n => bytes[3 * k + 1] = text[4 * k + 1] * 4 + text[4 * k + 2] \div 16
              /\ 3 * k + 2 <= n => bytes[3 * k + 2] = (text[4 * k + 2] % 16) * 16 + text[4 * k + 3] \div 4
              /\ 3 * k + 3 <= n => bytes[3 * k + 3] = (text[4 * k + 3] % 4) * 64 + text[4 * k + 4]
<1> DEFINE bytes == decode_into(text)
<1>1. ASSUME NEW b \in 1..n, (b - 1) \div 3 = k
      PROVE  /\ b % 3 = 1 => bytes[b] = text[4 * k + 1] * 4 + text[4 * k + 2] \div 16
             /\ b % 3 = 2 => bytes[b] = (text[4 * k + 2] % 16) * 16 + text[4 * k + 3] \div 4
             /\ b % 3 = 0 => bytes[b] = (text[4 * k + 3] % 4) * 64 + text[4 * k + 4]
  <2>1. bytes[b] = CASE b % 3 = 1 -> text[4 * k + 1] * 4 + text[4 * k + 2] \div 16
                     [] b % 3 = 2 -> (text[4 * k + 2] % 16) * 16 + text[4 * k + 3] \div 4
                     [] OTHER -> (text[4 * k + 3] % 4) * 64 + text[4 * k + 4]
    BY <1>1, Zenon DEF decode_into
  <2> HIDE DEF bytes
  <2> QED BY <2>1
<1>2. DOMAIN bytes = 1..n
  BY Zenon DEF decode_into
<1>3. /\ (3 * k + 1) % 3 = 1 /\ (3 * k + 2) % 3 = 2 /\ (3 * k + 3) % 3 = 0
      /\ ((3 * k + 1) - 1) \div 3 = k /\ ((3 * k + 2) - 1) \div 3 = k /\ ((3 * k + 3) - 1) \div 3 = k
  OBVIOUS
<1>4. \A j \in 1..3 : 3 * k + j <= n => 3 * k + j \in 1..n
  OBVIOUS
<1> HIDE DEF bytes
<1>5. ASSUME 3 * k + 1 <= n
      PROVE  bytes[3 * k + 1] = text[4 * k + 1] * 4 + text[4 * k + 2] \div 16
  <2>1. 3 * k + 1 \in 1..n
    BY <1>4, <1>5
  <2> QED BY <1>1, <1>3, <2>1, Zenon
<1>6. ASSUME 3 * k + 2 <= n
      PROVE  bytes[3 * k + 2] = (text[4 * k + 2] % 16) * 16 + text[4 * k + 3] \div 4
  <2>1. 3 * k + 2 \in 1..n
    BY <1>4, <1>6
  <2> QED BY <1>1, <1>3, <2>1, Zenon
<1>7. ASSUME 3 * k + 3 <= n
      PROVE  bytes[3 * k + 3] = (text[4 * k + 3] % 4) * 64 + text[4 * k + 4]
  <2>1. 3 * k + 3 \in 1..n
    BY <1>4, <1>7
  <2> QED BY <1>1, <1>3, <2>1, Zenon
<1> QED BY <1>2, <1>5, <1>6, <1>7, Zenon DEF bytes

\* What is encoded is decoded again: every string of bytes comes back, whatever
\* its length is.
THEOREM DecodesWhatItEncodes ==
    ASSUME NEW bytes \in Seq(Byte)
    PROVE  /\ ~DecodeThrows(encode_into(bytes))
           /\ decode_into(encode_into(bytes)) = bytes
<1> DEFINE n == Len(bytes)
           g == Groups(bytes)
           text == encode_into(bytes)
           back == decode_into(text)
<1>1. n \in Nat /\ g \in Nat /\ 3 * g - n \in 0..2 /\ Len(text) = 4 * g
  BY EncodedPadding, EncodedType
<1>2. NumPadding(text) = 3 * g - n
  BY EncodedPadding
<1>3. Len(text) % 4 = 0 /\ Len(text) \div 4 = g /\ Len(text) - NumPadding(text) = g + n
  <2> HIDE DEF text, g, n
  <2> QED BY <1>1, <1>2
<1>4. ~DecodeThrows(text)
  <2>1. \A i \in 1..(g + n) : text[i] \in Sextets
    BY EncodedPadding
  <2>2. ~(NumPadding(text) > 2)
    BY <1>1, <1>2
  <2> HIDE DEF text, g, n
  <2> QED BY <1>3, <2>1, <2>2 DEF DecodeThrows
<1>5. n = 3 * (Len(text) \div 4) - NumPadding(text)
  <2> HIDE DEF text, g, n
  <2> QED BY <1>1, <1>2, <1>3
<1>6. DOMAIN back = 1..n
  <2> HIDE DEF text, g, n
  <2> QED BY <1>1, <1>5, DecodedGroup
<1>7. ASSUME NEW i \in 1..n PROVE back[i] = bytes[i]
  <2> DEFINE k == (i - 1) \div 3
             a == ByteAt(bytes, 3 * k + 1)
             b == ByteAt(bytes, 3 * k + 2)
             c == ByteAt(bytes, 3 * k + 3)
  <2>1. k \in 0..(g - 1) /\ i \in {3 * k + 1, 3 * k + 2, 3 * k + 3}
    BY <1>1
  <2> HIDE DEF k
  <2>2. {3 * k + 1, 3 * k + 2, 3 * k + 3} \subseteq Nat \ {0}
    BY <2>1
  <2>3. a \in Byte /\ b \in Byte /\ c \in Byte
    BY <2>2, EncodedType
  <2>4. /\ text[4 * k + 1] = a \div 4
        /\ text[4 * k + 2] = (a % 4) * 16 + b \div 16
        /\ 3 * k + 2 <= n => text[4 * k + 3] = (b % 16) * 4 + c \div 64
        /\ 3 * k + 3 <= n => text[4 * k + 4] = c % 64
    <3>1. /\ text[4 * k + 1] = a \div 4
          /\ text[4 * k + 2] = (a % 4) * 16 + b \div 16
          /\ text[4 * k + 3] = IF 3 * k + 2 > n THEN Padding ELSE (b % 16) * 4 + c \div 64
          /\ text[4 * k + 4] = IF 3 * k + 3 > n THEN Padding ELSE c % 64
      BY <2>1, EncodedGroup, Zenon
    <3>2. (3 * k + 2 <= n => ~(3 * k + 2 > n)) /\ (3 * k + 3 <= n => ~(3 * k + 3 > n))
      BY <1>1, <2>1
    <3> HIDE DEF text, n, a, b, c
    <3> QED BY <3>1, <3>2
  <2>5. /\ 3 * k + 1 <= n => back[3 * k + 1] = text[4 * k + 1] * 4 + text[4 * k + 2] \div 16
        /\ 3 * k + 2 <= n => back[3 * k + 2] = (text[4 * k + 2] % 16) * 16 + text[4 * k + 3] \div 4
        /\ 3 * k + 3 <= n => back[3 * k + 3] = (text[4 * k + 3] % 4) * 64 + text[4 * k + 4]
    <3>1. k \in Nat
      BY <1>1, <2>1
    <3>2. n \in Nat
      BY <1>1
    <3> HIDE DEF text, g, n
    <3> QED BY <1>5, <3>1, <3>2, DecodedGroup
  <2>6. ByteAt(bytes, i) = bytes[i]
    BY DEF ByteAt
  <2> HIDE DEF text, back, g, n, a, b, c
  <2>7. /\ (a \div 4) * 4 + ((a % 4) * 16 + b \div 16) \div 16 = a
        /\ (((a % 4) * 16 + b \div 16) % 16) * 16 + ((b % 16) * 4 + c \div 64) \div 4 = b
        /\ (((b % 16) * 4 + c \div 64) % 4) * 64 + (c % 64) = c
    BY <2>3, BytesOfSextets
  <2>8. CASE i = 3 * k + 1
    <3>1. back[i] = a
      BY <1>1, <2>1, <2>4, <2>5, <2>7, <2>8
    <3> QED BY <2>6, <2>8, <3>1 DEF a
  <2>9. CASE i = 3 * k + 2
    <3>1. back[i] = b
      BY <1>1, <2>1, <2>4, <2>5, <2>7, <2>9
    <3> QED BY <2>6, <2>9, <3>1 DEF b
  <2>10. CASE i = 3 * k + 3
    <3>1. back[i] = c
      BY <1>1, <2>1, <2>4, <2>5, <2>7, <2>10
    <3> QED BY <2>6, <2>10, <3>1 DEF c
  <2> QED BY <2>1, <2>8, <2>9, <2>10
<1>8. back = bytes
  <2>1. back = [i \in 1..n |-> back[i]]
    <3> HIDE DEF text
    <3>1. back = [i \in DOMAIN back |-> back[i]]
      BY DEF decode_into
    <3> QED BY <1>6, <3>1, Zenon
  <2>2. bytes = [i \in 1..n |-> bytes[i]]
    OBVIOUS
  <2> HIDE DEF text, back, n
  <2> QED BY <1>7, <2>1, <2>2
<1> QED BY <1>4, <1>8

\* The characters of an incomplete group, up to the bits that belong to no byte.
LEMMA SextetsOfTwo ==
    ASSUME NEW s \in Sextets, NEW t \in Sextets
    PROVE  /\ ((s * 4 + t \div 16) % 4) * 16 + 0 \div 16 \in Sextets
           /\ (((s * 4 + t \div 16) % 4) * 16 + 0 \div 16) \div 16 = t \div 16
BY DEF Sextets

\* And those of a group that lacks one byte.
LEMMA SextetsOfSomeBytes ==
    ASSUME NEW t \in Sextets, NEW u \in Sextets
    PROVE  /\ (((t % 16) * 16 + u \div 4) % 16) * 4 + 0 \div 64 \in Sextets
           /\ ((((t % 16) * 16 + u \div 4) % 16) * 4 + 0 \div 64) \div 4 = u \div 4
BY DEF Sextets

\* What is decoded was encoded: a text with a padding sign or a foreign
\* character in the wrong place yields no bytes, and any other yields those it
\* encodes.
THEOREM OnlyEncodingsAreDecoded ==
    ASSUME NEW text \in Seq(Characters), ~DecodeThrows(text)
    PROVE  /\ decode_into(text) \in Seq(Byte)
           /\ Encodes(text, decode_into(text))
<1> DEFINE l == Len(text)
           g == l \div 4
           p == NumPadding(text)
           n == 3 * g - p
           bytes == decode_into(text)
           whole == encode_into(bytes)
<1>1. l \in Nat /\ g \in Nat /\ l = 4 * g
  <2>1. l \in Nat /\ l % 4 = 0
    BY DEF DecodeThrows
  <2> QED BY <2>1
<1>2. /\ p \in 0..2 /\ (l = 0 => p = 0)
      /\ \A i \in 1..(l - p) : text[i] \in Sextets
      /\ \A i \in (l - p + 1)..l : text[i] = Padding
  <2>1. CASE text = <<>>
    <3>1. l = 0 /\ p = 0
      BY <2>1 DEF NumPadding
    <3> HIDE DEF l, p
    <3> QED BY <3>1
  <2>2. CASE text # <<>>
    <3>1. l # 0
      BY <2>2
    <3> QED BY <2>2, <3>1, PaddingIsLast
  <2> QED BY <2>1, <2>2
<1>3. n \in Nat /\ (n + 2) \div 3 = g
  <2> HIDE DEF l, g, p
  <2> QED BY <1>1, <1>2 DEF g
<1>4. DOMAIN bytes = 1..n
  <2> HIDE DEF bytes, n, p, g, l
  <2> QED BY <1>3, DecodedGroup DEF bytes, n, p, g, l
<1> DEFINE s(k) == text[4 * k + 1]
           t(k) == text[4 * k + 2]
           u(k) == text[4 * k + 3]
           v(k) == text[4 * k + 4]
\* the characters of a group, by how many of its bytes there are
<1>5. ASSUME NEW k \in 0..(g - 1)
      PROVE  /\ 3 * k + 1 <= n /\ s(k) \in Sextets /\ t(k) \in Sextets
             /\ 3 * k + 2 <= n => u(k) \in Sextets
             /\ 3 * k + 3 <= n => v(k) \in Sextets
             /\ 3 * k + 2 > n => u(k) = Padding /\ p = 2 /\ 4 * k + 2 = l - p
             /\ 3 * k + 3 > n => v(k) = Padding
             /\ (3 * k + 3 > n /\ 3 * k + 2 <= n) => p = 1 /\ 4 * k + 3 = l - p
  <2> HIDE DEF l, g, p
  <2> QED BY <1>1, <1>2
<1>6. ASSUME NEW k \in 0..(g - 1)
      PROVE  /\ bytes[3 * k + 1] = s(k) * 4 + t(k) \div 16
             /\ 3 * k + 2 <= n => bytes[3 * k + 2] = (t(k) % 16) * 16 + u(k) \div 4
             /\ 3 * k + 3 <= n => bytes[3 * k + 3] = (u(k) % 4) * 64 + v(k)
  <2>1. k \in Nat
    BY <1>1, <1>6
  <2>2. n = 3 * (Len(text) \div 4) - NumPadding(text)
    OBVIOUS
  <2>3. n \in Nat /\ 3 * k + 1 <= n
    BY <1>3, <1>5
  <2> HIDE DEF l, g, p, n
  <2> QED BY <2>1, <2>2, <2>3, DecodedGroup
<1>7. ASSUME NEW i \in 1..n PROVE bytes[i] \in Byte
  <2> DEFINE k == (i - 1) \div 3
  <2> HIDE DEF l, g, p, bytes, s, t, u, v
  <2>1. k \in 0..(g - 1) /\ i \in {3 * k + 1, 3 * k + 2, 3 * k + 3}
    BY <1>1, <1>2
  <2> HIDE DEF k, n
  <2>2. CASE i = 3 * k + 1
    <3>1. s(k) \in Sextets /\ t(k) \in Sextets
      BY <1>5, <2>1
    <3>2. s(k) * 4 + t(k) \div 16 \in Byte
      BY <3>1, GroupTypes
    <3>3. bytes[3 * k + 1] = s(k) * 4 + t(k) \div 16
      BY <1>6, <2>1
    <3> QED BY <2>2, <3>2, <3>3
  <2>3. CASE i = 3 * k + 2
    <3>1. 3 * k + 2 <= n
      BY <2>3
    <3>2. t(k) \in Sextets /\ u(k) \in Sextets
      BY <1>5, <2>1, <3>1
    <3>3. (t(k) % 16) * 16 + u(k) \div 4 \in Byte
      BY <3>2, GroupTypes
    <3>4. bytes[3 * k + 2] = (t(k) % 16) * 16 + u(k) \div 4
      BY <1>6, <2>1, <3>1
    <3> QED BY <2>3, <3>3, <3>4
  <2>4. CASE i = 3 * k + 3
    <3>1. 3 * k + 2 <= n /\ 3 * k + 3 <= n
      BY <1>3, <2>1, <2>4
    <3>2. u(k) \in Sextets /\ v(k) \in Sextets
      BY <1>5, <2>1, <3>1
    <3>3. (u(k) % 4) * 64 + v(k) \in Byte
      BY <3>2, GroupTypes
    <3>4. bytes[3 * k + 3] = (u(k) % 4) * 64 + v(k)
      BY <1>6, <2>1, <3>1
    <3> QED BY <2>4, <3>3, <3>4
  <2> QED BY <2>1, <2>2, <2>3, <2>4
<1>8. bytes \in Seq(Byte) /\ Len(bytes) = n
  <2>1. bytes = [i \in DOMAIN bytes |-> bytes[i]]
    BY DEF decode_into
  <2> HIDE DEF bytes, n
  <2>2. bytes \in [1..n -> Byte]
    BY <1>4, <1>7, <2>1
  <2> QED BY <1>3, <2>2
<1>9. Groups(bytes) = g /\ Len(whole) = l
  <2> HIDE DEF bytes, n, g, l
  <2> QED BY <1>1, <1>3, <1>8, EncodedType DEF Groups
<1> DEFINE unused == CASE p = 1 -> 4 [] p = 2 -> 16 [] OTHER -> 1
           Same(i) == \/ text[i] = whole[i]
                      \/ /\ i = l - p /\ {text[i], whole[i]} \subseteq Sextets
                         /\ text[i] \div unused = whole[i] \div unused
<1>10. ASSUME NEW k \in 0..(g - 1)
       PROVE  Same(4 * k + 1) /\ Same(4 * k + 2) /\ Same(4 * k + 3) /\ Same(4 * k + 4)
  <2> DEFINE a == ByteAt(bytes, 3 * k + 1)
             b == ByteAt(bytes, 3 * k + 2)
             c == ByteAt(bytes, 3 * k + 3)
  <2> HIDE DEF bytes, n, g, l, p
  <2>1. /\ whole[4 * k + 1] = a \div 4
        /\ whole[4 * k + 2] = (a % 4) * 16 + b \div 16
        /\ whole[4 * k + 3] = IF 3 * k + 2 > n THEN Padding ELSE (b % 16) * 4 + c \div 64
        /\ whole[4 * k + 4] = IF 3 * k + 3 > n THEN Padding ELSE c % 64
    <3>1. k \in 0..(Groups(bytes) - 1)
      BY <1>9, <1>10
    <3> QED BY <1>8, <3>1, EncodedGroup
  <2>2. a = s(k) * 4 + t(k) \div 16
    BY <1>5, <1>6, <1>8 DEF ByteAt
  <2>3. /\ 3 * k + 2 <= n => b = (t(k) % 16) * 16 + u(k) \div 4
        /\ 3 * k + 3 <= n => c = (u(k) % 4) * 64 + v(k)
        /\ ~(3 * k + 2 <= n) => b = 0
        /\ ~(3 * k + 3 <= n) => c = 0
    BY <1>6, <1>8, Zenon DEF ByteAt
  <2>4. k \in Nat /\ n \in Nat
    BY <1>1, <1>3, <1>10
  <2> HIDE DEF whole, a, b, c, s, t, u, v
  <2>5. CASE 3 * k + 3 <= n
    <3>1. 3 * k + 2 <= n
      BY <2>4, <2>5
    <3>2. s(k) \in Sextets /\ t(k) \in Sextets /\ u(k) \in Sextets /\ v(k) \in Sextets
      BY <1>5, <2>5, <3>1
    <3>3. a \div 4 = s(k) /\ (a % 4) * 16 + b \div 16 = t(k) /\ (b % 16) * 4 + c \div 64 = u(k) /\ c % 64 = v(k)
      BY <2>2, <2>3, <2>5, <3>1, <3>2, SextetsOfBytes
    <3>4. ~(3 * k + 2 > n) /\ ~(3 * k + 3 > n)
      BY <2>4, <2>5
    <3>5. /\ whole[4 * k + 1] = s(k) /\ whole[4 * k + 2] = t(k)
          /\ whole[4 * k + 3] = u(k) /\ whole[4 * k + 4] = v(k)
      BY <2>1, <3>3, <3>4
    <3> QED BY <3>5 DEF s, t, u, v
  <2>6. CASE ~(3 * k + 3 <= n) /\ 3 * k + 2 <= n
    <3>1. s(k) \in Sextets /\ t(k) \in Sextets /\ u(k) \in Sextets
      BY <1>5, <2>6
    <3>2. c = 0 /\ 3 * k + 3 > n /\ ~(3 * k + 2 > n)
      BY <2>3, <2>4, <2>6
    <3>3. a \div 4 = s(k) /\ (a % 4) * 16 + b \div 16 = t(k)
      BY <2>2, <2>3, <2>6, <3>1, SextetsOfBytes
    <3>4. (b % 16) * 4 + c \div 64 \in Sextets /\ ((b % 16) * 4 + c \div 64) \div 4 = u(k) \div 4
      <4>1. b = (t(k) % 16) * 16 + u(k) \div 4 /\ c = 0
        BY <2>3, <2>6, <3>2
      <4> HIDE DEF n, p, l
      <4> QED BY <3>1, <4>1, SextetsOfSomeBytes
    <3>5. p = 1 /\ 4 * k + 3 = l - p /\ v(k) = Padding
      BY <1>5, <2>6, <3>2
    <3>6. unused = 4
      BY <3>5
    <3>7. /\ whole[4 * k + 1] = s(k) /\ whole[4 * k + 2] = t(k)
          /\ whole[4 * k + 3] \in Sextets /\ whole[4 * k + 3] \div 4 = u(k) \div 4
          /\ whole[4 * k + 4] = v(k)
      BY <2>1, <3>2, <3>3, <3>4, <3>5
    <3> HIDE DEF unused
    <3> QED BY <3>1, <3>5, <3>6, <3>7 DEF s, t, u, v
  <2>7. CASE ~(3 * k + 2 <= n)
    <3>1. s(k) \in Sextets /\ t(k) \in Sextets
      BY <1>5
    <3>2. b = 0 /\ 3 * k + 3 > n /\ 3 * k + 2 > n
      BY <2>3, <2>4, <2>7
    <3>3. a \div 4 = s(k)
      BY <2>2, <3>1, SextetsOfBytes
    <3>4. (a % 4) * 16 + b \div 16 \in Sextets /\ ((a % 4) * 16 + b \div 16) \div 16 = t(k) \div 16
      BY <2>2, <3>1, <3>2, SextetsOfTwo, Zenon
    <3>5. p = 2 /\ 4 * k + 2 = l - p /\ u(k) = Padding /\ v(k) = Padding
      BY <1>5, <3>2
    <3>6. unused = 16
      BY <3>5
    <3>7. /\ whole[4 * k + 1] = s(k) /\ whole[4 * k + 2] \in Sextets
          /\ whole[4 * k + 2] \div 16 = t(k) \div 16
          /\ whole[4 * k + 3] = u(k) /\ whole[4 * k + 4] = v(k)
      BY <2>1, <3>2, <3>3, <3>4, <3>5
    <3> HIDE DEF unused
    <3> QED BY <3>1, <3>5, <3>6, <3>7 DEF s, t, u, v
  <2> QED BY <2>5, <2>6, <2>7
<1>11. \A i \in 1..l : Same(i)
  <2> SUFFICES ASSUME NEW i \in 1..l PROVE Same(i)
    OBVIOUS
  <2> DEFINE k == (i - 1) \div 4
  <2> HIDE DEF Same, l, g
  <2>1. k \in 0..(g - 1) /\ i \in {4 * k + 1, 4 * k + 2, 4 * k + 3, 4 * k + 4}
    BY <1>1
  <2> HIDE DEF k
  <2> QED BY <1>10, <2>1
<1>12. Encodes(text, bytes)
  <2>1. DOMAIN text = 1..l
    OBVIOUS
  <2> QED BY <1>9, <1>11, <2>1, Zenon DEF Encodes
<1> QED BY <1>8, <1>12

-----------------------------------------------------------------------------
(* Tokens, and base64 as Parsing has it                                     *)

\* A text that is decoded has no character but those of the alphabet and the
\* padding signs.
LEMMA NoOtherIsDecoded ==
    ASSUME NEW text \in Seq(Characters), ~DecodeThrows(text)
    PROVE  \A i \in 1..Len(text) : text[i] # Other
<1> SUFFICES ASSUME NEW i \in 1..Len(text) PROVE text[i] # Other
  OBVIOUS
<1>1. text # <<>>
  OBVIOUS
<1>2. CASE i <= Len(text) - NumPadding(text)
  <2>1. text[i] \in Sextets
    BY <1>1, <1>2, PaddingIsLast
  <2>2. \A c \in Sextets : c # Other
    BY DEF Sextets, Other
  <2> QED BY <2>1, <2>2
<1>3. CASE ~(i <= Len(text) - NumPadding(text))
  <2>1. text[i] = Padding
    BY <1>1, <1>3, PaddingIsLast
  <2>2. Padding # Other
    BY DEF Padding, Other
  <2> QED BY <2>1, <2>2
<1> QED BY <1>2, <1>3

\* What PaddedUp adds stands at the end.
LEMMA PaddedUpType ==
    ASSUME NEW text \in Seq(Characters)
    PROVE  LET n == Len(text)
               m == n + ((-n) % 4)
           IN /\ PaddedUp(text) \in Seq(Characters) /\ Len(PaddedUp(text)) = m
              /\ \A i \in 1..n : PaddedUp(text)[i] = text[i]
              /\ \A i \in (n + 1)..m : PaddedUp(text)[i] = Padding
<1> DEFINE n == Len(text)
           k == (-n) % 4
           pad == [i \in 1..k |-> Padding]
<1>1. n \in Nat /\ k \in Nat
  OBVIOUS
<1>2. PaddedUp(text) = text \o pad
  BY Zenon DEF PaddedUp
<1> HIDE DEF k
<1>3. pad \in Seq(Characters) /\ Len(pad) = k
  <2>1. Padding \in Characters
    BY DEF Characters
  <2> QED BY <1>1, <2>1
<1>4. \A i \in 1..k : pad[i] = Padding
  OBVIOUS
<1> HIDE DEF pad
<1>5. text \o pad \in Seq(Characters) /\ Len(text \o pad) = n + k
  BY <1>1, <1>3
<1>6. ASSUME NEW i \in 1..n PROVE (text \o pad)[i] = text[i]
  BY <1>1, <1>3
<1>7. ASSUME NEW i \in (n + 1)..(n + k) PROVE (text \o pad)[i] = Padding
  <2>1. i - n \in 1..k
    BY <1>1
  <2>2. (text \o pad)[i] = pad[i - n]
    BY <1>1, <1>3
  <2> QED BY <1>4, <2>1, <2>2
<1> QED BY <1>2, <1>5, <1>6, <1>7 DEF k

\* Padding up gives back the padding that the issuer left out.
LEMMA PaddedUpAgain ==
    ASSUME NEW bytes \in Seq(Byte)
    PROVE  /\ Unpadded(encode_into(bytes)) \in Seq(Characters)
           /\ PaddedUp(Unpadded(encode_into(bytes))) = encode_into(bytes)
<1> DEFINE text == encode_into(bytes)
           g == Groups(bytes)
           n == g + Len(bytes)
           front == Unpadded(text)
<1>1. /\ text \in Seq(Characters) /\ Len(text) = 4 * g /\ g \in Nat /\ Len(bytes) \in Nat
      /\ 3 * g - Len(bytes) \in 0..2 /\ NumPadding(text) = 3 * g - Len(bytes)
      /\ \A i \in (n + 1)..(4 * g) : text[i] = Padding
  BY EncodedType, EncodedPadding
<1> HIDE DEF text, g
<1>2. n \in 0..(4 * g) /\ Len(text) - NumPadding(text) = n
  BY <1>1
<1>3. /\ front \in Seq(Characters) /\ Len(front) = n
      /\ \A i \in 1..n : front[i] = text[i]
  BY <1>1, <1>2 DEF Unpadded
<1>4. (-Len(front)) % 4 = 4 * g - n
  <2>1. 4 * g - n \in 0..2
    BY <1>1, <1>2
  <2> HIDE DEF n
  <2>2. ((4 * g - n) - 4 * g) % 4 = 4 * g - n
    BY <1>1, <1>2, <2>1
  <2>3. -n = (4 * g - n) - 4 * g
    BY <1>1, <1>2
  <2> QED BY <1>3, <2>2, <2>3
<1> HIDE DEF front, n
<1>5. /\ PaddedUp(front) \in Seq(Characters) /\ Len(PaddedUp(front)) = 4 * g
      /\ \A i \in 1..n : PaddedUp(front)[i] = front[i]
      /\ \A i \in (n + 1)..(4 * g) : PaddedUp(front)[i] = Padding
  <2>1. n + (4 * g - n) = 4 * g
    BY <1>1, <1>2
  <2> QED BY <1>3, <1>4, <2>1, PaddedUpType
<1>6. \A i \in 1..(4 * g) : PaddedUp(front)[i] = text[i]
  <2> SUFFICES ASSUME NEW i \in 1..(4 * g) PROVE PaddedUp(front)[i] = text[i]
    OBVIOUS
  <2>1. CASE i \in 1..n
    BY <1>3, <1>5, <2>1
  <2>2. CASE i \in (n + 1)..(4 * g)
    BY <1>1, <1>5, <2>2 DEF n
  <2> QED BY <1>1, <1>2, <2>1, <2>2
<1>7. PaddedUp(front) = text
  BY <1>1, <1>5, <1>6
<1> QED BY <1>3, <1>7 DEF text, front

LEMMA JoinedParts ==
    ASSUME NEW a, NEW b, NEW c
    PROVE  Len(<<a, b>> \o <<c>>) = 3 /\ (<<a, b>> \o <<c>>)[2] = b
<1> DEFINE S == {a, b, c}
           two == <<a, b>>
           one == <<c>>
<1>1. two \in Seq(S) /\ Len(two) = 2 /\ two[2] = b
  OBVIOUS
<1>2. one \in Seq(S) /\ Len(one) = 1
  OBVIOUS
<1> HIDE DEF S, two, one
<1>3. Len(two \o one) = Len(two) + Len(one)
  BY <1>1, <1>2, ConcatProperties
<1>4. ASSUME NEW i \in 1..Len(two) PROVE (two \o one)[i] = two[i]
  <2>1. Len(two) \in Nat /\ Len(one) \in Nat
    BY <1>1, <1>2
  <2>2. \A j \in 1..(Len(two) + Len(one)) :
          (two \o one)[j] = IF j <= Len(two) THEN two[j] ELSE one[j - Len(two)]
    BY <1>1, <1>2, ConcatProperties
  <2> QED BY <2>1, <2>2
<1>5. Len(two \o one) = 3 /\ (two \o one)[2] = b
  BY <1>1, <1>2, <1>3, <1>4
<1> QED BY <1>5 DEF two, one

\* A token gives the bytes of its payload or throws: whether it has its third
\* part, and whatever characters its issuer has for the last two sextets.
LEMMA TokenIsExact ==
    ASSUME NEW bytes \in Seq(Byte), bytes # <<>>, NEW rest \in {<<>>, <<<< 0 >>>>},
           NEW text, text = PaddedUp(jwt_payload(<<<< 0 >>, Issued(bytes)>> \o rest)),
           ~DecodeThrows(text)
    PROVE  text = encode_into(bytes)
<1> DEFINE front == Unpadded(encode_into(bytes))
           issued == Issued(bytes)
           parts == <<<< 0 >>, issued>> \o rest
           payload == jwt_payload(parts)
<1>1. front \in Seq(Characters) /\ PaddedUp(front) = encode_into(bytes)
  BY PaddedUpAgain
<1>2. issued = [i \in DOMAIN front |-> IF front[i] \in {62, 63} THEN Other ELSE front[i]]
  BY DEF Issued
<1> HIDE DEF front, issued
<1>3. issued \in Seq(Characters) /\ Len(issued) = Len(front) /\ DOMAIN front = 1..Len(front)
  <2>1. DOMAIN front = 1..Len(front) /\ Len(front) \in Nat /\ \A i \in 1..Len(front) : front[i] \in Characters
    BY <1>1
  <2>2. Other \in Characters
    BY DEF Characters, Other
  <2>3. \A i \in 1..Len(front) : (IF front[i] \in {62, 63} THEN Other ELSE front[i]) \in Characters
    BY <2>1, <2>2, Zenon
  <2>4. issued \in [1..Len(front) -> Characters]
    BY <1>2, <2>1, <2>3
  <2> QED BY <2>1, <2>4
<1>4. payload = (IF rest = <<>> THEN Append(issued, Other) ELSE issued)
  <2>1. CASE rest = <<>>
    <3>1. parts = <<<< 0 >>, issued>>
      BY <2>1
    <3>2. Len(<<<< 0 >>, issued>>) = 2 /\ <<<< 0 >>, issued>>[2] = issued
      OBVIOUS
    <3> HIDE DEF parts
    <3>3. Len(parts) = 2 /\ parts[2] = issued
      BY <3>1, <3>2, Zenon
    <3> QED BY <2>1, <3>3 DEF jwt_payload
  <2>2. CASE rest # <<>>
    <3>1. rest = <<<< 0 >>>>
      BY <2>2
    <3>2. Len(parts) = 3 /\ parts[2] = issued
      BY <3>1, JoinedParts
    <3> HIDE DEF parts
    <3> QED BY <2>2, <3>2 DEF jwt_payload
  <2> QED BY <2>1, <2>2
<1> HIDE DEF payload
<1>5. payload \in Seq(Characters) /\ Len(payload) \in Nat
  BY <1>3, <1>4 DEF Characters
<1>6. text = PaddedUp(payload)
  BY Zenon DEF payload, issued
<1> HIDE DEF parts, payload
<1>7. /\ text \in Seq(Characters) /\ Len(payload) <= Len(text)
      /\ \A i \in 1..Len(payload) : text[i] = payload[i]
  <2> DEFINE n == Len(payload)
             m == n + ((-n) % 4)
  <2>1. /\ text \in Seq(Characters) /\ Len(text) = m
        /\ \A i \in 1..n : text[i] = payload[i]
    BY <1>5, <1>6, PaddedUpType
  <2>2. n \in Nat /\ m \in Nat /\ n <= m
    BY <1>5
  <2> QED BY <2>1, <2>2
<1>8. \A i \in 1..Len(payload) : payload[i] # Other
  <2>1. \A i \in 1..Len(text) : text[i] # Other
    BY <1>7, NoOtherIsDecoded
  <2>2. ASSUME NEW i \in 1..Len(payload) PROVE payload[i] # Other
    <3>1. i \in 1..Len(text)
      BY <1>5, <1>7
    <3>2. text[i] = payload[i]
      BY <1>7
    <3> QED BY <2>1, <3>1, <3>2
  <2> QED BY <2>2
<1>9. rest # <<>>
  <2> SUFFICES ASSUME rest = <<>> PROVE FALSE
    OBVIOUS
  <2>1. payload = Append(issued, Other)
    BY <1>4
  <2>2. Len(payload) = Len(issued) + 1 /\ payload[Len(payload)] = Other /\ Len(payload) \in 1..Len(payload)
    BY <1>3, <2>1
  <2> QED BY <1>8, <2>2
<1>10. issued = front
  <2>1. payload = issued
    BY <1>4, <1>9
  <2>2. ASSUME NEW i \in DOMAIN front PROVE issued[i] = front[i]
    <3>1. issued[i] # Other
      BY <1>3, <1>8, <2>1, <2>2
    <3> QED BY <1>2, <3>1
  <2>3. DOMAIN issued = DOMAIN front
    BY <1>2
  <2>4. issued = [i \in DOMAIN front |-> front[i]] /\ front = [i \in DOMAIN front |-> front[i]]
    <3>1. issued = [i \in DOMAIN issued |-> issued[i]]
      BY <1>2
    <3>2. front = [i \in DOMAIN front |-> front[i]]
      BY <1>1
    <3> QED BY <2>2, <2>3, <3>1, <3>2, Zenon
  <2> QED BY <2>4, Zenon
<1>11. payload = front
  BY <1>4, <1>9, <1>10
<1> QED BY <1>1, <1>6, <1>11 DEF front

\* What the encoding of some bytes decodes to, and what any text does.
LEMMA EncodedIsExact ==
    ASSUME NEW bytes \in Seq(Byte)
    PROVE  /\ ~DecodeThrows(encode_into(bytes))
           /\ decode_into(encode_into(bytes)) = bytes
           /\ Encodes(encode_into(bytes), bytes)
<1>1. encode_into(bytes) \in Seq(Characters)
  BY EncodedType
<1>2. ~DecodeThrows(encode_into(bytes)) /\ decode_into(encode_into(bytes)) = bytes
  BY DecodesWhatItEncodes
<1>3. Encodes(encode_into(bytes), decode_into(encode_into(bytes)))
  BY <1>1, <1>2, OnlyEncodingsAreDecoded
<1> QED BY <1>2, <1>3

\* Which action it takes to come to a state with bytes, a candle or a tick.
LEMMA WhoMakesIt ==
    ASSUME [Next]_vars
    PROVE  /\ pc' = "bytes" => Decode \/ ReadToken \/ UNCHANGED vars
           /\ pc' = "candle" => ReceiveCandle \/ ReceiveAlteredCandle \/ UNCHANGED vars
           /\ pc' = "tick" => ReceiveTick \/ ReceiveBadTick \/ ReceiveAlteredTick \/ UNCHANGED vars
           /\ pc' = "prices" => ReceivePrices \/ UNCHANGED vars
           /\ pc' = "body" => ReceiveBody \/ ReceiveDetails \/ UNCHANGED vars
           /\ pc' = "dumped" => DumpBody \/ UNCHANGED vars
           /\ pc' = "written" => Write \/ UNCHANGED vars
           /\ pc' = "reread" => Create \/ UNCHANGED vars
           /\ pc' = "thrown" => Create \/ (pc = "idle" /\ csv' = csv) \/ UNCHANGED vars
           /\ pc' # "idle" \/ UNCHANGED vars
<1>1. ReceiveTick \/ ReceiveBadTick \/ ReceiveAlteredTick =>
        pc' \in {"tick", "thrown"} /\ pc = "idle" /\ csv' = csv
  <2>1. ReceiveTick => pc' \in {"tick", "thrown"} /\ pc = "idle" /\ csv' = csv
    BY DEF ReceiveTick, Thrown
  <2>2. ReceiveBadTick => pc' \in {"tick", "thrown"} /\ pc = "idle" /\ csv' = csv
    BY DEF ReceiveBadTick, Thrown
  <2>3. ReceiveAlteredTick => pc' \in {"tick", "thrown"} /\ pc = "idle" /\ csv' = csv
    BY DEF ReceiveAlteredTick, Thrown
  <2> QED BY <2>1, <2>2, <2>3
<1>2. ReceivePrices => pc' \in {"prices", "thrown"} /\ pc = "idle" /\ csv' = csv
  BY DEF ReceivePrices, Thrown
<1>3. ReceiveCandle \/ ReceiveAlteredCandle =>
        pc' \in {"candle", "thrown"} /\ pc = "idle" /\ csv' = csv
  <2>1. ReceiveCandle => pc' \in {"candle", "thrown"} /\ pc = "idle" /\ csv' = csv
    BY DEF ReceiveCandle, Thrown
  <2>2. ReceiveAlteredCandle => pc' \in {"candle", "thrown"} /\ pc = "idle" /\ csv' = csv
    BY DEF ReceiveAlteredCandle, Thrown
  <2> QED BY <2>1, <2>2
<1>4. ReceiveBody \/ ReceiveDetails => pc' \in {"body", "thrown"} /\ pc = "idle" /\ csv' = csv
  BY DEF ReceiveBody, ReceiveDetails, Thrown
<1>5. Decode \/ ReadToken => pc' \in {"bytes", "thrown"} /\ pc = "idle" /\ csv' = csv
  BY DEF Decode, ReadToken, Thrown
<1>6. /\ Write => pc' = "written"
      /\ Create => pc' \in {"reread", "thrown"}
      /\ DumpBody => pc' = "dumped"
  BY DEF Write, Create, DumpBody
<1> QED BY <1>1, <1>2, <1>3, <1>4, <1>5, <1>6 DEF Next

\* Of an altered line the server is known to have meant something else.
LEMMA AlteredIsSaid ==
    ASSUME ReceiveAlteredTick \/ ReceiveAlteredCandle
    PROVE  LineAltered'
<1>1. ReceiveAlteredTick => \E x, m, v : sent' = [damaged |-> x, meant |-> m, left |-> v]
  BY ZenonT(60) DEF ReceiveAlteredTick
<1>2. ReceiveAlteredCandle => \E x, m, v : sent' = [damaged |-> x, meant |-> m, left |-> v]
  <2> SUFFICES ASSUME ReceiveAlteredCandle
               PROVE  \E x, m, v : sent' = [damaged |-> x, meant |-> m, left |-> v]
    OBVIOUS
  <2>1. PICK s \in CandleTimes, o \in Prices, h \in Prices, l \in Prices, c \in Prices, v \in Prices,
             i \in 2..ChartFields :
          LET k == [timestamp |-> s, open |-> o, high |-> h, low |-> l, close |-> c, volume |-> v]
              x == ChartNames[i]
          IN \E b \in Altered(Chart(k)[i], x, k[x]) :
               LET f == [Chart(k) EXCEPT ![i] = b[1]] IN
               /\ sent' = [damaged |-> x, meant |-> k, left |-> b[2]]
               /\ line' = f
               /\ IF CandleParses(f) THEN pc' = "candle" /\ tick' = parse_candle(f) ELSE Thrown
    BY Zenon DEF ReceiveAlteredCandle
  <2> QED BY <2>1, Zenon
<1>3. ASSUME NEW x, NEW m, NEW v, sent' = [damaged |-> x, meant |-> m, left |-> v]
      PROVE  LineAltered'
  BY <1>3 DEF LineAltered
<1> QED BY <1>1, <1>2, <1>3

\* Base64 is exact, in every state: nothing else becomes bytes.
THEOREM DecodingIsExact == Spec => []Base64IsExact
<1>1. Init => Base64IsExact
  BY DEF Init, Base64IsExact
<1>2. Base64IsExact /\ [Next]_vars => Base64IsExact'
  <2> SUFFICES ASSUME Base64IsExact, [Next]_vars, pc' = "bytes", ~UNCHANGED vars
               PROVE  (sent' # None => tick' = sent'.bytes) /\ Encodes(line', tick')
    BY DEF Base64IsExact, vars
  <2>1. CASE Decode
    <3>1. ~DecodeThrows(line') /\ tick' = decode_into(line')
      BY <2>1 DEF Decode, Thrown
    <3>2. CASE \E bytes \in Payloads : sent' = [bytes |-> bytes] /\ line' = encode_into(bytes)
      <4>1. PICK bytes \in Payloads : sent' = [bytes |-> bytes] /\ line' = encode_into(bytes)
        BY <3>2
      <4>2. bytes \in Seq(Byte)
        BY TextsAssumption DEF Byte
      <4> QED BY <3>1, <4>1, <4>2, EncodedIsExact
    <3>3. CASE sent' = None /\ line' \in Texts
      <4>1. line' \in Seq(Characters)
        <5>1. Characters = 0..65
          BY DEF Characters, Sextets, Padding, Other
        <5> QED BY <3>3, <5>1, TextsAssumption
      <4> QED BY <3>1, <3>3, <4>1, OnlyEncodingsAreDecoded
    <3> QED BY <2>1, <3>2, <3>3 DEF Decode
  <2>2. CASE ReadToken
    <3>1. ~DecodeThrows(line') /\ tick' = decode_into(line')
      BY <2>2 DEF ReadToken, Thrown
    <3>2. PICK bytes \in Payloads, rest \in {<<>>, <<<< 0 >>>>} :
            /\ bytes # <<>> /\ sent' = [bytes |-> bytes]
            /\ line' = PaddedUp(jwt_payload(<<<< 0 >>, Issued(bytes)>> \o rest))
      BY <2>2, Zenon DEF ReadToken
    <3>3. bytes \in Seq(Byte)
      BY TextsAssumption DEF Byte
    <3>4. line' = encode_into(bytes)
      BY <3>1, <3>2, <3>3, TokenIsExact
    <3> QED BY <3>1, <3>2, <3>3, <3>4, EncodedIsExact
  <2> QED BY <2>1, <2>2, WhoMakesIt
<1> QED BY <1>1, <1>2, PTL DEF Spec

-----------------------------------------------------------------------------
(* Candles                                                                  *)

\* A candle there is anything to say of was parsed from a whole chart line.
LEMMA CandleMade ==
    ASSUME [Next]_vars, pc' = "candle", Unaltered', ~UNCHANGED vars
    PROVE  \E s \in CandleTimes, o, h, l, c, v \in Prices :
             LET k == [timestamp |-> s, open |-> o, high |-> h, low |-> l, close |-> c, volume |-> v]
             IN sent' = k /\ tick' = parse_candle(Chart(k))
<1>1. ReceiveCandle
  BY WhoMakesIt, AlteredIsSaid DEF Unaltered
<1>2. PICK s \in CandleTimes, o \in Prices, h \in Prices, l \in Prices, c \in Prices, v \in Prices :
        LET k == [timestamp |-> s, open |-> o, high |-> h, low |-> l, close |-> c, volume |-> v]
        IN \/ /\ sent' = k /\ line' = Chart(k)
              /\ IF CandleParses(Chart(k)) THEN pc' = "candle" /\ tick' = parse_candle(Chart(k)) ELSE Thrown
           \/ \E f \in Damaged(Chart(k), {}, {1}) :
                /\ sent' = None /\ line' = f
                /\ IF CandleParses(f) THEN pc' = "candle" /\ tick' = parse_candle(f) ELSE Thrown
  BY <1>1, Zenon DEF ReceiveCandle
<1>3. ~Thrown /\ sent' # None
  BY DEF Thrown, Unaltered
<1> QED BY <1>2, <1>3

\* The prices and the volume of a candle are those of the chart, whatever they
\* are.
THEOREM CandlesAreTheSent == Spec => []CandleIsTheSent
<1>1. Init => CandleIsTheSent
  BY DEF Init, CandleIsTheSent
<1>2. CandleIsTheSent /\ [Next]_vars => CandleIsTheSent'
  <2> SUFFICES ASSUME CandleIsTheSent, [Next]_vars, pc' = "candle", Unaltered',
                      ~UNCHANGED vars
               PROVE  \A x \in DOMAIN sent' \ {"timestamp"} : tick'[x] = sent'[x]
    BY DEF CandleIsTheSent, Unaltered, LineAltered, vars
  <2>1. PICK s \in CandleTimes, o \in Prices, h \in Prices, l \in Prices, c \in Prices, v \in Prices :
          LET k == [timestamp |-> s, open |-> o, high |-> h, low |-> l, close |-> c, volume |-> v]
          IN sent' = k /\ tick' = parse_candle(Chart(k))
    BY CandleMade, Zenon
  <2> DEFINE k == [timestamp |-> s, open |-> o, high |-> h, low |-> l, close |-> c, volume |-> v]
  <2>2. /\ Chart(k)[2] = Number(o) /\ Chart(k)[3] = Number(h) /\ Chart(k)[4] = Number(l)
        /\ Chart(k)[5] = Number(c) /\ Chart(k)[6] = Number(v)
    BY DEF Chart
  <2>3. \A n : FromChars(Number(n)) = n
    BY DEF FromChars, Number
  <2>4. /\ tick'.open = o /\ tick'.high = h /\ tick'.low = l /\ tick'.close = c /\ tick'.volume = v
    BY <2>1, <2>2, <2>3 DEF parse_candle
  <2> QED BY <2>1, <2>4
<1> QED BY <1>1, <1>2, PTL DEF Spec

\* the last of the years with four digits
LastYear == 9999

EveryCandleAtTheEpoch ==
    (pc = "candle" /\ Unaltered /\ Year(sent.timestamp) <= LastYear) => tick.timestamp = 0

\* What is left of such a year, in whole seconds.
LEMMA YearIsNoSecond ==
    ASSUME NEW s \in CandleTimes, Year(s) <= LastYear
    PROVE  FromChars(ISO(s)) \div NsPerSecond = 0
<1>1. FromChars(ISO(s)) = Year(s)
  BY DEF FromChars, ISO
<1>2. Year(s) \in Nat
  BY CandlesAssumption DEF Year
<1>3. \A y \in Nat : y <= LastYear => y \div NsPerSecond = 0
  BY SMT DEF LastYear, NsPerSecond
<1> QED BY <1>1, <1>2, <1>3, Zenon

\* The run parsing_candle_time shows one candle with the wrong time. No candle
\* has another: string_to_timepoint stops behind the year, a count of
\* nanoseconds, and cut to seconds that is the epoch for every year of four
\* digits. Nothing of the times of a chart is left.
THEOREM CandleTimesAreLost == Spec => []EveryCandleAtTheEpoch
<1>1. Init => EveryCandleAtTheEpoch
  BY DEF Init, EveryCandleAtTheEpoch
<1>2. EveryCandleAtTheEpoch /\ [Next]_vars => EveryCandleAtTheEpoch'
  <2> SUFFICES ASSUME EveryCandleAtTheEpoch, [Next]_vars, pc' = "candle", Unaltered',
                      Year(sent'.timestamp) <= LastYear, ~UNCHANGED vars
               PROVE  tick'.timestamp = 0
    BY DEF EveryCandleAtTheEpoch, Unaltered, LineAltered, vars
  <2>1. PICK s \in CandleTimes, o \in Prices, h \in Prices, l \in Prices, c \in Prices, v \in Prices :
          LET k == [timestamp |-> s, open |-> o, high |-> h, low |-> l, close |-> c, volume |-> v]
          IN sent' = k /\ tick' = parse_candle(Chart(k))
    BY CandleMade, Zenon
  <2> DEFINE k == [timestamp |-> s, open |-> o, high |-> h, low |-> l, close |-> c, volume |-> v]
  <2>2. Chart(k)[1] = ISO(s) /\ k.timestamp = s
    BY DEF Chart
  <2>3. parse_candle(Chart(k)).timestamp = FromChars(Chart(k)[1]) \div NsPerSecond
    BY DEF parse_candle
  <2> HIDE DEF k
  <2>4. Year(s) <= LastYear
    BY <2>1, <2>2, Zenon DEF k
  <2> QED BY <2>1, <2>2, <2>3, <2>4, YearIsNoSecond, Zenon DEF k
<1> QED BY <1>1, <1>2, PTL DEF Spec

-----------------------------------------------------------------------------
(* Ticks, written and read again                                            *)

Double == Int \cup {NaN}
IntRange == (-IntMax - 1)..IntMax

\* What a tick has in its fields, from wherever it was parsed.
IsTick(t) ==
    /\ t = [quote_id |-> t.quote_id, bid |-> t.bid, ask |-> t.ask,
            daily_change |-> t.daily_change, dir |-> t.dir, tradable |-> t.tradable,
            high |-> t.high, low |-> t.low, hash |-> t.hash, call_only |-> t.call_only,
            mid_price |-> t.mid_price, timestamp |-> t.timestamp, field13 |-> t.field13,
            group |-> t.group, latency |-> t.latency]
    /\ t.bid \in Double /\ t.ask \in Double /\ t.daily_change \in Double
    /\ t.high \in Double /\ t.low \in Double /\ t.mid_price \in Double
    /\ t.dir \in Directions /\ t.tradable \in BOOLEAN /\ t.call_only \in BOOLEAN
    /\ t.group \in Groupings
    /\ t.quote_id \in IntRange /\ t.field13 \in IntRange
    /\ t.timestamp \in Int /\ t.latency \in Int

PriceFields == {2, 3, 4, 7, 8, 11}

\* Whatever parses is a tick, the flags and the direction whatever they were.
LEMMA ParsedIsTick ==
    ASSUME NEW f, NEW g \in Groupings, NEW now \in Int, WireParses(f),
           FromChars(f[12]) \in Int,
           \A i \in PriceFields : FromChars(f[i]) \in Double
    PROVE  IsTick(parse_td_tick(f, g, now))
<1> DEFINE t == parse_td_tick(f, g, now)
<1>1. /\ t.bid = FromChars(f[2]) /\ t.ask = FromChars(f[3]) /\ t.daily_change = FromChars(f[4])
      /\ t.high = FromChars(f[7]) /\ t.low = FromChars(f[8]) /\ t.mid_price = FromChars(f[11])
      /\ t.dir = DirectionOf(f[5].w) /\ t.group = g
  BY DEF parse_td_tick
<1>2. t.tradable \in BOOLEAN /\ t.call_only \in BOOLEAN
  <2>1. t.tradable = (f[6] = Number(1)) /\ t.call_only = (f[10] = Number(1))
    BY DEF parse_td_tick
  <2> QED BY <2>1, Zenon
<1>3. t = [quote_id |-> t.quote_id, bid |-> t.bid, ask |-> t.ask,
           daily_change |-> t.daily_change, dir |-> t.dir, tradable |-> t.tradable,
           high |-> t.high, low |-> t.low, hash |-> t.hash, call_only |-> t.call_only,
           mid_price |-> t.mid_price, timestamp |-> t.timestamp, field13 |-> t.field13,
           group |-> t.group, latency |-> t.latency]
  BY DEF parse_td_tick
<1>4. DirectionOf(f[5].w) \in Directions
  BY DEF DirectionOf, Directions
<1>5. \A i \in {2, 3, 4, 7, 8, 11} : FromChars(f[i]) \in Double
  BY DEF PriceFields
<1>6. t.quote_id \in IntRange /\ t.field13 \in IntRange
  BY DEF parse_td_tick, WireParses, IsInt, IntRange
<1>7. t.timestamp \in Int /\ t.latency \in Int
  <2>1. UnixTime(FromChars(f[12])) \in Int
    BY EpochAssumption DEF UnixTime, TicksPerNs
  <2>2. t.timestamp = UnixTime(FromChars(f[12])) /\ t.latency = now - UnixTime(FromChars(f[12]))
    BY DEF parse_td_tick
  <2> QED BY <2>1, <2>2
<1> HIDE DEF t
<1> QED BY <1>1, <1>2, <1>3, <1>4, <1>5, <1>6, <1>7 DEF IsTick, t

\* The fields of a line as the server writes it.
LEMMA WireFieldsOf ==
    ASSUME NEW t, NEW i \in PriceFields,
           \A x \in PriceNames : t[x] \in Int
    PROVE  FromChars(Wire(t)[i]) \in Double
<1>1. /\ Wire(t)[2] = Number(t.bid) /\ Wire(t)[3] = Number(t.ask)
      /\ Wire(t)[4] = Number(t.daily_change) /\ Wire(t)[7] = Number(t.high)
      /\ Wire(t)[8] = Number(t.low) /\ Wire(t)[11] = Number(t.mid_price)
  BY DEF Wire
<1>2. \A n : FromChars(Number(n)) = n
  BY DEF FromChars, Number
<1>3. /\ t.bid \in Int /\ t.ask \in Int /\ t.daily_change \in Int
      /\ t.high \in Int /\ t.low \in Int /\ t.mid_price \in Int
  BY DEF PriceNames
<1> QED BY <1>1, <1>2, <1>3 DEF PriceFields, Double

\* So is its instant.
LEMMA WireInstant ==
    ASSUME NEW t, t.timestamp \in Times
    PROVE  FromChars(Wire(t)[12]) = t.timestamp \div TicksPerNs + Epoch /\ FromChars(Wire(t)[12]) \in Int
<1>1. Wire(t)[12] = Number(t.timestamp \div TicksPerNs + Epoch)
  BY DEF Wire
<1>2. \A n : FromChars(Number(n)) = n
  BY DEF FromChars, Number
<1>3. t.timestamp \div TicksPerNs + Epoch \in Int
  <2>1. t.timestamp \in Nat /\ Epoch \in Nat
    BY PricesAssumption, EpochAssumption
  <2>2. \A n \in Nat : n \div 100 \in Nat
    OBVIOUS
  <2> QED BY <2>1, <2>2 DEF TicksPerNs
<1> QED BY <1>1, <1>2, <1>3

\* An altered flag is not set.
LEMMA AlteredFlag ==
    ASSUME NEW i \in {6, 10}, NEW field, NEW m, NEW b \in Altered(field, WireNames[i], m)
    PROVE  b[1] # Number(1) /\ b[2] \in {FALSE}
<1>1. WireNames[i] \in {"tradable", "call_only"}
  BY DEF WireNames
<1>2. b \in {Trailed(field.n), Number(2), Word("?")} \X {FALSE}
  BY <1>1 DEF Altered
<1>3. Trailed(field.n) # Number(1) /\ Number(2) # Number(1) /\ Word("?") # Number(1)
  BY DEF Trailed, Number, Word
<1> QED BY <1>2, <1>3

\* What the program takes any other altered field for is what it reads there.
LEMMA AlteredField ==
    ASSUME NEW i \in 1..13, NEW field, NEW m, NEW b \in Altered(field, WireNames[i], m)
    PROVE  /\ i = 5 => DirectionOf(b[1].w) = b[2]
           /\ (i \in PriceFields \cup {1, 13} /\ field = Number(m)) =>
                FromChars(b[1]) = b[2] /\ (m \in Double /\ i \in PriceFields => b[2] \in Double)
           /\ i = 12 => b[2] = m /\ (field.kind = "number" => FromChars(b[1]) = FromChars(field))
<1>1. \A n : FromChars(Number(n)) = n /\ FromChars(Trailed(n)) = n
  BY DEF FromChars, Number, Trailed
<1>2. Number(m).n = m
  BY DEF Number
<1>3. CASE i \in {6, 10}
  BY <1>3 DEF PriceFields
<1>4. CASE i = 5
  <2>1. WireNames[i] = "dir"
    BY <1>4 DEF WireNames
  <2>2. b = <<Word("?"), "unchanged">>
    BY <2>1 DEF Altered
  <2> QED BY <1>4, <2>2 DEF PriceFields, DirectionOf, Word
<1>5. CASE i \in {1, 12}
  <2>1. WireNames[i] \in {"quote_id", "timestamp"}
    BY <1>5 DEF WireNames
  <2>2. b = <<Trailed(field.n), m>>
    BY <2>1 DEF Altered
  <2>3. field.kind = "number" => FromChars(field) = field.n
    BY DEF FromChars
  <2> QED BY <1>1, <1>2, <1>5, <2>2, <2>3 DEF PriceFields
<1>6. CASE i = 13
  <2>1. WireNames[i] = "field13"
    BY <1>6 DEF WireNames
  <2>2. b = <<Trailed(field.n), m>> \/ \E n : b = <<Number(n), n>>
    BY <2>1 DEF Altered
  <2> QED BY <1>1, <1>2, <1>6, <2>2 DEF PriceFields
<1>7. CASE i \in PriceFields
  <2>1. WireNames[i] \in PriceNames
    BY <1>7 DEF WireNames, PriceFields, PriceNames
  <2>2. b = <<Trailed(field.n), m>> \/ b = <<Number(NaN), NaN>>
    BY <2>1 DEF Altered, PriceNames
  <2> QED BY <1>1, <1>2, <1>7, <2>2 DEF PriceFields, Double
<1>8. CASE i = 9
  BY <1>8 DEF PriceFields
<1>9. i \in {6, 10} \cup {5} \cup {1, 12} \cup {13} \cup {9} \cup PriceFields
  BY DEF PriceFields
<1> QED BY <1>3, <1>4, <1>5, <1>6, <1>7, <1>8, <1>9

\* A line that is damaged does not parse.
LEMMA DamagedLine ==
    ASSUME NEW t, NEW f \in Damaged(Wire(t), {1, 13}, {1, 12, 13})
    PROVE  ~WireParses(f)
<1> DEFINE w == Wire(t)
<1>1. w \in Seq({w[i] : i \in 1..13}) /\ Len(w) = 13 /\ DOMAIN w = 1..13
  BY DEF Wire
<1>2. w[5].kind = "word" /\ w[9].kind = "word"
  BY DEF Wire, Word
<1> HIDE DEF w
<1>3. CASE \E n \in 1..(Len(w) - 1) : f = SubSeq(w, 1, n)
  <2>1. PICK n \in 1..(Len(w) - 1) : f = SubSeq(w, 1, n)
    BY <1>3
  <2>2. Len(f) = n /\ n <= 12
    BY <1>1, <2>1
  <2> QED BY <2>2 DEF WireParses, WireFields
<1>4. CASE \E j \in {i \in DOMAIN w : w[i].kind # "word"} \ {6, 10} : f = [w EXCEPT ![j] = Word("?")]
  <2>0. PICK j \in {i \in DOMAIN w : w[i].kind # "word"} \ {6, 10} : f = [w EXCEPT ![j] = Word("?")]
    BY <1>4
  <2>1. j \in {1, 2, 3, 4, 7, 8, 11, 12, 13}
    <3>1. j \in 1..13 /\ j # 5 /\ j # 9 /\ j # 6 /\ j # 10
      BY <1>1, <1>2, <2>0
    <3> QED BY <3>1
  <2>2. f[j] = Word("?")
    BY <2>0
  <2>3. ~HasNumber(f[j])
    BY <2>2 DEF HasNumber, Word
  <2>4. WireParses(f) => \A i \in {1, 2, 3, 4, 7, 8, 11, 12, 13} : HasNumber(f[i])
    <3>1. WireParses(f) => HasNumber(f[1]) /\ HasNumber(f[13])
      BY Zenon DEF WireParses, IsInt
    <3>2. WireParses(f) => HasNumber(f[12]) /\ \A i \in {2, 3, 4, 7, 8, 11} : HasNumber(f[i])
      BY Zenon DEF WireParses, IsWhole
    <3> QED BY <3>1, <3>2
  <2> QED BY <2>1, <2>3, <2>4
<1>6. CASE \E j \in {1, 12, 13} : f = [w EXCEPT ![j] = Number(NaN)]
  <2>1. PICK j \in {1, 12, 13} : f = [w EXCEPT ![j] = Number(NaN)]
    BY <1>6
  <2>2. FromChars(f[j]) = NaN
    BY <1>1, <2>1 DEF FromChars, Number
  <2>3. ~IsInt(f[j]) /\ ~IsWhole(f[j])
    BY <2>2, IntAssumption, NaNAssumption DEF IsInt, IsWhole
  <2> QED BY <2>3 DEF WireParses
<1>5. CASE \E j \in {1, 13} : f = [w EXCEPT ![j] = Number(IntMax + 1)]
  <2>1. PICK j \in {1, 13} : f = [w EXCEPT ![j] = Number(IntMax + 1)]
    BY <1>5
  <2>2. FromChars(f[j]) = IntMax + 1
    BY <1>1, <2>1 DEF FromChars, Number
  <2>3. ~IsInt(f[j])
    BY <2>2, IntAssumption DEF IsInt
  <2> QED BY <2>3 DEF WireParses
<1> QED BY <1>3, <1>4, <1>5, <1>6 DEF Damaged, w

\* Six decimals are the price to half a millionth, and everything else comes
\* back as it was.
LEMMA RereadTick ==
    ASSUME NEW t, IsTick(t), NEW x \in DOMAIN t
    PROVE  LET again == tick_parse(Written(t))
           IN IF x \in PriceNames /\ t[x] # NaN
              THEN again[x] # NaN /\ again[x] - t[x] \in -5..5
              ELSE again[x] = t[x]
<1> DEFINE w == Written(t)
           again == tick_parse(w)
<1>1. \A n : FromChars(Number(n)) = n
  BY DEF FromChars, Number
<1>2. \A p \in Int : FromChars(Fixed6(p)) \in Int /\ FromChars(Fixed6(p)) - p \in -5..5
  <2>1. ASSUME NEW p \in Int
        PROVE  10 * ((p + 5) \div 10) \in Int /\ 10 * ((p + 5) \div 10) - p \in -5..5
    OBVIOUS
  <2>2. ASSUME NEW p \in Int PROVE FromChars(Fixed6(p)) = 10 * ((p + 5) \div 10)
    BY <1>1, NaNAssumption DEF Fixed6
  <2> QED BY <2>1, <2>2
<1>11. FromChars(Fixed6(NaN)) = NaN
  BY <1>1 DEF Fixed6
<1>3. /\ w[1] = Number(t.quote_id) /\ w[2] = Fixed6(t.bid) /\ w[3] = Fixed6(t.ask)
      /\ w[4] = Fixed6(t.daily_change) /\ w[5] = Word(t.dir) /\ w[6] = Boolalpha(t.tradable)
      /\ w[7] = Fixed6(t.high) /\ w[8] = Fixed6(t.low) /\ w[9] = Word(t.hash)
      /\ w[10] = Boolalpha(t.call_only) /\ w[11] = Fixed6(t.mid_price)
      /\ w[12] = Number(t.timestamp) /\ w[13] = Number(t.field13)
      /\ w[14] = Word(to_string[t.group]) /\ w[15] = Number(t.latency)
  BY DEF Written
<1>4. \A v : Word(v).w = v
  BY DEF Word
<1>5. ASSUME NEW b \in BOOLEAN PROVE parse_bool(Boolalpha(b)) = b
  <2>1. CASE b = TRUE
    BY <2>1 DEF parse_bool, Boolalpha
  <2>2. CASE b = FALSE
    <3>1. Word("false") # Word("true")
      BY DEF Word
    <3>2. Boolalpha(b) = Word("false")
      BY <2>2 DEF Boolalpha
    <3> QED BY <2>2, <3>1, <3>2, Zenon DEF parse_bool
  <2> QED BY <2>1, <2>2
<1>6. \A d \in Directions : CsvDirection(d) = d
  BY DEF Directions, CsvDirection
<1>7. \A g \in Groupings : string_to_price_type(to_string[g]) = g
  BY DEF Groupings, string_to_price_type, to_string, Initial
<1> HIDE DEF w
<1>8. /\ again.quote_id = FromChars(w[1]) /\ again.bid = FromChars(w[2])
      /\ again.ask = FromChars(w[3]) /\ again.daily_change = FromChars(w[4])
      /\ again.dir = CsvDirection(w[5].w) /\ again.tradable = parse_bool(w[6])
      /\ again.high = FromChars(w[7]) /\ again.low = FromChars(w[8]) /\ again.hash = w[9].w
      /\ again.call_only = parse_bool(w[10]) /\ again.mid_price = FromChars(w[11])
      /\ again.timestamp = FromChars(w[12]) /\ again.field13 = FromChars(w[13])
      /\ again.group = string_to_price_type(w[14].w) /\ again.latency = FromChars(w[15])
  BY DEF tick_parse
<1> HIDE DEF again
<1>9. CASE x \in PriceNames
  <2>1. ASSUME NEW p \in Double, NEW r, r = FromChars(Fixed6(p))
        PROVE  IF p # NaN THEN r # NaN /\ r - p \in -5..5 ELSE r = p
    BY <1>2, <1>11, <2>1, NaNAssumption DEF Double
  <2>2. /\ t[x] \in Double /\ again[x] = FromChars(Fixed6(t[x]))
    BY <1>3, <1>8, <1>9 DEF IsTick, PriceNames
  <2> QED BY <1>9, <2>1, <2>2 DEF again, w
<1>10. CASE x \notin PriceNames
  <2>1. /\ again.quote_id = t.quote_id /\ again.hash = t.hash /\ again.timestamp = t.timestamp
        /\ again.field13 = t.field13 /\ again.latency = t.latency
    BY <1>1, <1>3, <1>4, <1>8
  <2>2. again.dir = t.dir
    BY <1>3, <1>4, <1>6, <1>8 DEF IsTick
  <2>3. again.group = t.group
    BY <1>3, <1>4, <1>7, <1>8 DEF IsTick
  <2>4. again.tradable = t.tradable /\ again.call_only = t.call_only
    <3>1. t.tradable \in BOOLEAN /\ t.call_only \in BOOLEAN
      BY DEF IsTick
    <3>2. parse_bool(Boolalpha(t.tradable)) = t.tradable
      BY <1>5, <3>1
    <3>3. parse_bool(Boolalpha(t.call_only)) = t.call_only
      BY <1>5, <3>1
    <3> QED BY <1>3, <1>8, <3>2, <3>3, Zenon
  <2>5. x \in {"quote_id", "hash", "timestamp", "field13", "latency", "dir", "group", "tradable", "call_only"}
    BY <1>10 DEF IsTick, PriceNames
  <2>6. again[x] = t[x]
    BY <2>1, <2>2, <2>3, <2>4, <2>5, Zenon
  <2> QED BY <1>10, <2>6, Zenon DEF again, w
<1> QED BY <1>9, <1>10

\* operator<< writes what tick::create can read.
LEMMA WrittenParses ==
    ASSUME NEW t, IsTick(t)
    PROVE  CsvParses(Written(t))
<1> DEFINE w == Written(t)
<1>1. /\ Len(w) = 15
      /\ w[1] = Number(t.quote_id) /\ w[2] = Fixed6(t.bid) /\ w[3] = Fixed6(t.ask)
      /\ w[4] = Fixed6(t.daily_change) /\ w[7] = Fixed6(t.high) /\ w[8] = Fixed6(t.low)
      /\ w[11] = Fixed6(t.mid_price) /\ w[12] = Number(t.timestamp)
      /\ w[13] = Number(t.field13) /\ w[15] = Number(t.latency)
  BY DEF Written
<1>2. \A n : FromChars(Number(n)) = n /\ HasNumber(Number(n))
  BY DEF FromChars, HasNumber, Number
<1>3. \A p : HasNumber(Fixed6(p))
  BY DEF Fixed6, HasNumber, Number
<1> HIDE DEF w
<1>4. \A i \in {2, 3, 4, 7, 8, 11} : HasNumber(w[i])
  BY <1>1, <1>3
<1>5. IsInt(w[1]) /\ IsInt(w[13])
  BY <1>1, <1>2 DEF IsInt, IsTick, IntRange
<1>6. IsWhole(w[12]) /\ IsWhole(w[15])
  BY <1>1, <1>2, NaNAssumption DEF IsWhole, IsTick
<1> QED BY <1>1, <1>4, <1>5, <1>6 DEF CsvParses, CsvFields, w

\* A tick is one until it has been read again, from what was written of it.
Readable ==
    /\ pc \in {"idle", "thrown"} => csv = None
    /\ pc \in {"tick", "written", "reread"} => IsTick(tick)
    /\ pc = "written" => csv = Written(tick)
    /\ pc = "reread" => reread = tick_parse(Written(tick))

\* An altered line that is taken for a tick.
LEMMA AlteredTickMade ==
    ASSUME ReceiveAlteredTick, pc' = "tick"
    PROVE  \E p \in Prices, at \in Times, now \in Clocks, g \in Groupings, i \in 1..13 \ {9} :
             \E b \in Altered(Wire(PriceTick(p, at))[i], WireNames[i], PriceTick(p, at)[WireNames[i]]) :
               LET f == [Wire(PriceTick(p, at)) EXCEPT ![i] = b[1]]
               IN /\ sent' = [damaged |-> WireNames[i], meant |-> PriceTick(p, at), left |-> b[2]]
                  /\ WireParses(f) /\ tick' = parse_td_tick(f, g, now)
<1>1. ~Thrown
  BY DEF Thrown
<1>2. PICK p \in Prices, at \in Times, now \in Clocks, g \in Groupings, i \in 1..WireFields \ {9} :
        LET t == PriceTick(p, at)
            x == WireNames[i]
        IN \E b \in Altered(Wire(t)[i], x, t[x]) :
             LET f == [Wire(t) EXCEPT ![i] = b[1]] IN
             /\ sent' = [damaged |-> x, meant |-> t, left |-> b[2]]
             /\ line' = f
             /\ IF WireParses(f) THEN pc' = "tick" /\ tick' = parse_td_tick(f, g, now) ELSE Thrown
  BY Zenon DEF ReceiveAlteredTick
<1>3. i \in 1..13 \ {9}
  BY DEF WireFields
<1> QED BY <1>1, <1>2, <1>3, Zenon

\* The line of a price, and how an altered one differs.
LEMMA PriceLine ==
    ASSUME NEW p \in Prices, NEW at \in Times
    PROVE  LET t == PriceTick(p, at)
               w == Wire(t)
           IN /\ DOMAIN w = 1..13
              /\ \A x \in PriceNames : t[x] \in Int
              /\ t.timestamp = at
              /\ w[1] = Number(t.quote_id) /\ w[13] = Number(t.field13)
              /\ \A i \in PriceFields : w[i] = Number(t[WireNames[i]])
              /\ w[12].kind = "number"
<1>1. p \in Int
  BY PricesAssumption
<1> QED BY <1>1 DEF PriceTick, Wire, Number, PriceNames, PriceFields, WireNames

LEMMA AlteredIsTick ==
    ASSUME ReceiveAlteredTick, pc' = "tick"
    PROVE  IsTick(tick')
<1>1. PICK p \in Prices, at \in Times, now \in Clocks, g \in Groupings, i \in 1..13 \ {9} :
        \E b \in Altered(Wire(PriceTick(p, at))[i], WireNames[i], PriceTick(p, at)[WireNames[i]]) :
          LET f == [Wire(PriceTick(p, at)) EXCEPT ![i] = b[1]]
          IN WireParses(f) /\ tick' = parse_td_tick(f, g, now)
  BY AlteredTickMade, ZenonT(60)
<1> DEFINE t == PriceTick(p, at)
           w == Wire(t)
<1>2. PICK b \in Altered(w[i], WireNames[i], t[WireNames[i]]) :
        LET f == [w EXCEPT ![i] = b[1]] IN WireParses(f) /\ tick' = parse_td_tick(f, g, now)
  BY <1>1
<1> DEFINE f == [w EXCEPT ![i] = b[1]]
<1>3. /\ DOMAIN w = 1..13
      /\ \A x \in PriceNames : t[x] \in Int
      /\ t.timestamp \in Times
      /\ \A j \in PriceFields : w[j] = Number(t[WireNames[j]])
      /\ w[12].kind = "number"
  BY PriceLine
<1>4. \A j \in PriceFields : FromChars(w[j]) \in Double
  BY <1>3, WireFieldsOf
<1>5. FromChars(w[12]) \in Int
  BY <1>3, WireInstant
<1>6. f[i] = b[1] /\ \A j \in 1..13 : j # i => f[j] = w[j]
  BY <1>3
<1>7. WireParses(f) /\ tick' = parse_td_tick(f, g, now)
  BY <1>2
<1> HIDE DEF t, w, f
<1>8. \A j \in PriceFields : WireNames[j] \in PriceNames /\ j \in 1..13
  BY DEF PriceFields, WireNames, PriceNames
<1>9. i \in PriceFields => FromChars(f[i]) \in Double
  <2> SUFFICES ASSUME i \in PriceFields PROVE FromChars(f[i]) \in Double
    OBVIOUS
  <2> DEFINE m == t[WireNames[i]]
  <2>1. m \in Double /\ w[i] = Number(m)
    BY <1>3, <1>8 DEF Double
  <2>2. i \in 1..13 /\ b \in Altered(w[i], WireNames[i], m)
    OBVIOUS
  <2> HIDE DEF m
  <2>3. FromChars(b[1]) = b[2] /\ b[2] \in Double
    BY <2>1, <2>2, AlteredField DEF Number, PriceFields
  <2> QED BY <1>6, <2>3
<1>10. i = 12 => FromChars(f[12]) = FromChars(w[12])
  BY <1>2, <1>3, <1>6, AlteredField
<1>11. \A j \in PriceFields : FromChars(f[j]) \in Double
  BY <1>4, <1>6, <1>8, <1>9
<1>12. FromChars(f[12]) \in Int
  BY <1>5, <1>6, <1>10
<1>13. now \in Int
  BY PricesAssumption
<1> QED BY <1>7, <1>11, <1>12, <1>13, ParsedIsTick

LEMMA ReceivedIsTick ==
    ASSUME ReceiveTick \/ ReceiveBadTick \/ ReceiveAlteredTick, pc' = "tick"
    PROVE  IsTick(tick')
<1>1. ~Thrown
  BY DEF Thrown
<1>2. ASSUME NEW said \in UNION {SaidOf[g] : g \in Groupings} PROVE GroupOf(said) \in Groupings
  BY DEF GroupOf, grouping_map, string_to_price_type, Groupings
<1>3. CASE ReceiveTick
  <2>1. PICK p \in [PriceNames -> Prices], dir \in Directions, tradable \in BOOLEAN, call_only \in BOOLEAN,
             g \in Groupings, at \in Times, now \in Clocks :
          \E said \in SaidOf[g] :
            LET t == [quote_id |-> 1, bid |-> p["bid"], ask |-> p["ask"],
                     daily_change |-> p["daily_change"], dir |-> dir, tradable |-> tradable,
                     high |-> p["high"], low |-> p["low"], hash |-> "hash",
                     call_only |-> call_only, mid_price |-> p["mid_price"],
                     timestamp |-> at, field13 |-> 25, group |-> g, latency |-> now - at]
            IN /\ sent' = t
               /\ line' = Wire(t)
               /\ IF WireParses(Wire(t))
                    THEN pc' = "tick" /\ tick' = parse_td_tick(Wire(t), GroupOf(said), now)
                    ELSE Thrown
    BY <1>3, Zenon DEF ReceiveTick
  <2> DEFINE t == [quote_id |-> 1, bid |-> p["bid"], ask |-> p["ask"],
                   daily_change |-> p["daily_change"], dir |-> dir, tradable |-> tradable,
                   high |-> p["high"], low |-> p["low"], hash |-> "hash",
                   call_only |-> call_only, mid_price |-> p["mid_price"],
                   timestamp |-> at, field13 |-> 25, group |-> g, latency |-> now - at]
  <2>2. PICK said \in SaidOf[g] :
          WireParses(Wire(t)) /\ tick' = parse_td_tick(Wire(t), GroupOf(said), now)
    BY <1>1, <2>1, Zenon
  <2>6. t.timestamp \in Times /\ now \in Int
    BY PricesAssumption
  <2>3. \A x \in PriceNames : t[x] \in Int
    <3>1. \A x \in PriceNames : p[x] \in Int
      BY PricesAssumption
    <3>2. ASSUME NEW x \in PriceNames PROVE t[x] = p[x]
      BY DEF PriceNames
    <3> QED BY <3>1, <3>2
  <2> HIDE DEF t
  <2>4. /\ FromChars(Wire(t)[12]) \in Int
        /\ \A i \in PriceFields : FromChars(Wire(t)[i]) \in Double
    BY <2>3, <2>6, WireFieldsOf, WireInstant
  <2>5. GroupOf(said) \in Groupings
    BY <1>2
  <2> QED BY <2>2, <2>4, <2>5, <2>6, ParsedIsTick
<1>4. CASE ReceiveBadTick
  BY <1>1, <1>4, DamagedLine, Zenon DEF ReceiveBadTick
<1> QED BY <1>3, <1>4, AlteredIsTick

\* tick::create reads what operator<< writes, for any prices and instants.
THEOREM TicksRoundTrip == Spec => []RoundTrip
<1>1. Init => Readable
  BY DEF Init, Readable
<1>2. Readable /\ [Next]_vars => Readable'
  <2> SUFFICES ASSUME Readable, [Next]_vars PROVE Readable'
    OBVIOUS
  <2>1. CASE UNCHANGED vars
    BY <2>1 DEF vars, Readable
  <2>2. CASE pc' = "tick" /\ ~UNCHANGED vars
    <3>1. IsTick(tick')
      BY <2>2, WhoMakesIt, ReceivedIsTick
    <3> QED BY <2>2, <3>1 DEF Readable
  <2>3. CASE pc' = "written" /\ ~UNCHANGED vars
    <3>1. Write
      BY <2>3, WhoMakesIt
    <3> QED BY <2>3, <3>1 DEF Write, Readable
  <2>4. CASE pc' = "reread" /\ ~UNCHANGED vars
    <3>1. Create
      BY <2>4, WhoMakesIt
    <3> QED BY <2>4, <3>1 DEF Create, Readable
  <2>6. CASE pc' = "thrown" /\ ~UNCHANGED vars
    <3>1. ~Create
      <4>1. pc = "written" => CsvParses(csv)
        BY WrittenParses DEF Readable
      <4> QED BY <2>6, <4>1 DEF Create
    <3> QED BY <2>6, <3>1, WhoMakesIt DEF Readable
  <2>5. CASE pc' \notin {"tick", "written", "reread", "thrown"} /\ ~UNCHANGED vars
    BY <2>5, WhoMakesIt DEF Readable
  <2> QED BY <2>1, <2>2, <2>3, <2>4, <2>5, <2>6
<1>3. Readable => RoundTrip
  BY RereadTick DEF Readable, RoundTrip
<1> QED BY <1>1, <1>2, <1>3, PTL DEF Spec

-----------------------------------------------------------------------------
(* What a tick means                                                        *)

\* Parsing gives back what was written, field by field.
LEMMA WireIsParsed ==
    ASSUME NEW t, NEW g, NEW now,
           t.dir \in Directions, t.tradable \in BOOLEAN, t.call_only \in BOOLEAN,
           t.timestamp \in Times
    PROVE  LET r == parse_td_tick(Wire(t), g, now)
           IN r = [quote_id |-> t.quote_id, bid |-> t.bid, ask |-> t.ask,
                   daily_change |-> t.daily_change, dir |-> t.dir, tradable |-> t.tradable,
                   high |-> t.high, low |-> t.low, hash |-> t.hash,
                   call_only |-> t.call_only, mid_price |-> t.mid_price,
                   timestamp |-> t.timestamp, field13 |-> t.field13, group |-> g,
                   latency |-> now - t.timestamp]
<1> DEFINE w == Wire(t)
<1>1. /\ w[1] = Number(t.quote_id) /\ w[2] = Number(t.bid) /\ w[3] = Number(t.ask)
      /\ w[4] = Number(t.daily_change) /\ w[5] = Word(Codes[t.dir]) /\ w[6] = Flag(t.tradable)
      /\ w[7] = Number(t.high) /\ w[8] = Number(t.low) /\ w[9] = Word(t.hash)
      /\ w[10] = Flag(t.call_only) /\ w[11] = Number(t.mid_price)
      /\ w[12] = Number(t.timestamp \div TicksPerNs + Epoch) /\ w[13] = Number(t.field13)
  BY DEF Wire
<1> HIDE DEF w
<1>2. \A n : FromChars(Number(n)) = n
  BY DEF FromChars, Number
<1>3. \A v : Word(v).w = v
  BY DEF Word
<1>4. UnixTime(t.timestamp \div TicksPerNs + Epoch) = t.timestamp
  <2>1. t.timestamp \in Nat /\ t.timestamp % TicksPerNs = 0 /\ Epoch \in Nat
    BY PricesAssumption, InstantsAssumption, EpochAssumption
  <2>2. \A n \in Nat : n % 100 = 0 => (n \div 100) * 100 = n /\ n \div 100 \in Nat
    OBVIOUS
  <2>3. (t.timestamp \div 100) * 100 = t.timestamp /\ t.timestamp \div 100 \in Nat
    BY <2>1, <2>2 DEF TicksPerNs
  <2> QED BY <2>1, <2>3 DEF UnixTime, TicksPerNs
<1>5. \A d \in Directions : DirectionOf(Codes[d]) = d
  BY DEF Directions, DirectionOf, Codes
<1>6. ASSUME NEW b \in BOOLEAN PROVE (Flag(b) = Number(1)) = b
  <2>1. CASE b = TRUE
    BY <2>1 DEF Flag
  <2>2. CASE b = FALSE
    <3>1. Number(0) # Number(1)
      BY DEF Number
    <3>2. Flag(b) = Number(0)
      BY <2>2 DEF Flag
    <3> QED BY <2>2, <3>1, <3>2, Zenon
  <2> QED BY <2>1, <2>2
<1>7. (w[6] = Number(1)) = t.tradable /\ (w[10] = Number(1)) = t.call_only
  <2>1. (Flag(t.tradable) = Number(1)) = t.tradable
    BY <1>6
  <2>2. (Flag(t.call_only) = Number(1)) = t.call_only
    BY <1>6
  <2> QED BY <1>1, <2>1, <2>2, Zenon
<1>8. parse_td_tick(w, g, now) =
        [quote_id |-> FromChars(w[1]), bid |-> FromChars(w[2]), ask |-> FromChars(w[3]),
         daily_change |-> FromChars(w[4]), dir |-> DirectionOf(w[5].w),
         tradable |-> t.tradable, high |-> FromChars(w[7]), low |-> FromChars(w[8]),
         hash |-> w[9].w, call_only |-> t.call_only, mid_price |-> FromChars(w[11]),
         timestamp |-> UnixTime(FromChars(w[12])), field13 |-> FromChars(w[13]), group |-> g,
         latency |-> now - UnixTime(FromChars(w[12]))]
  BY <1>7, Zenon DEF parse_td_tick
<1>9. /\ FromChars(w[1]) = t.quote_id /\ FromChars(w[2]) = t.bid /\ FromChars(w[3]) = t.ask
      /\ FromChars(w[4]) = t.daily_change /\ FromChars(w[7]) = t.high /\ FromChars(w[8]) = t.low
      /\ FromChars(w[11]) = t.mid_price /\ FromChars(w[13]) = t.field13
      /\ w[9].w = t.hash /\ DirectionOf(w[5].w) = t.dir
      /\ UnixTime(FromChars(w[12])) = t.timestamp
  BY <1>1, <1>2, <1>3, <1>4, <1>5
<1> QED BY <1>8, <1>9, Zenon DEF w

\* The key or the word is that of the grouping.
LEMMA GroupIsTheSaid ==
    ASSUME NEW g \in Groupings, NEW said \in SaidOf[g]
    PROVE  GroupOf(said) = g
BY DEF Groupings, SaidOf, GroupOf, grouping_map, string_to_price_type, Initial

\* So are the keys of a price message the client knows.
LEMMA KnownKeys ==
    ASSUME NEW key \in DOMAIN grouping_map
    PROVE  \E g \in Groupings : key \in SaidOf[g]
BY DEF Groupings, SaidOf, grouping_map

LEMMA TickReceived ==
    ASSUME ReceiveTick, pc' = "tick"
    PROVE  tick' = sent'
<1>1. ~Thrown
  BY DEF Thrown
<1>2. PICK p \in [PriceNames -> Prices], dir \in Directions, tradable \in BOOLEAN, call_only \in BOOLEAN,
           g \in Groupings, at \in Times, now \in Clocks :
        \E said \in SaidOf[g] :
          LET t == [quote_id |-> 1, bid |-> p["bid"], ask |-> p["ask"],
                   daily_change |-> p["daily_change"], dir |-> dir, tradable |-> tradable,
                   high |-> p["high"], low |-> p["low"], hash |-> "hash",
                   call_only |-> call_only, mid_price |-> p["mid_price"],
                   timestamp |-> at, field13 |-> 25, group |-> g, latency |-> now - at]
          IN /\ sent' = t
             /\ line' = Wire(t)
             /\ IF WireParses(Wire(t))
                  THEN pc' = "tick" /\ tick' = parse_td_tick(Wire(t), GroupOf(said), now)
                  ELSE Thrown
  BY Zenon DEF ReceiveTick
<1> DEFINE t == [quote_id |-> 1, bid |-> p["bid"], ask |-> p["ask"],
                 daily_change |-> p["daily_change"], dir |-> dir, tradable |-> tradable,
                 high |-> p["high"], low |-> p["low"], hash |-> "hash",
                 call_only |-> call_only, mid_price |-> p["mid_price"],
                 timestamp |-> at, field13 |-> 25, group |-> g, latency |-> now - at]
<1>3. PICK said \in SaidOf[g] : sent' = t /\ tick' = parse_td_tick(Wire(t), GroupOf(said), now)
  BY <1>1, <1>2, Zenon
<1>4. /\ t.dir \in Directions /\ t.tradable \in BOOLEAN /\ t.call_only \in BOOLEAN
      /\ t.timestamp \in Times
  OBVIOUS
<1>5. t = [quote_id |-> t.quote_id, bid |-> t.bid, ask |-> t.ask,
           daily_change |-> t.daily_change, dir |-> t.dir, tradable |-> t.tradable,
           high |-> t.high, low |-> t.low, hash |-> t.hash,
           call_only |-> t.call_only, mid_price |-> t.mid_price,
           timestamp |-> t.timestamp, field13 |-> t.field13, group |-> g,
           latency |-> now - t.timestamp]
  OBVIOUS
<1> HIDE DEF t
<1>6. parse_td_tick(Wire(t), g, now) = t
  BY <1>4, <1>5, WireIsParsed
<1>7. GroupOf(said) = g
  BY GroupIsTheSaid
<1> QED BY <1>3, <1>6, <1>7

LEMMA PricesReceived ==
    ASSUME ReceivePrices, pc' = "prices"
    PROVE  \E g \in Groupings : \E key \in SaidOf[g] \cap DOMAIN sent'.prices :
             /\ sent'.prices[key] # <<>>
             /\ LET first == PriceTick(Head(sent'.prices[key]), sent'.at)
                IN \A x \in DOMAIN first : tick'[x] = first[x]
             /\ tick'.group = g /\ tick'.latency = sent'.now - sent'.at
<1>1. ~Thrown
  BY DEF Thrown
<1>2. PICK keys \in SUBSET (DOMAIN grouping_map \cup {"other"}), at \in Times, now \in Clocks :
        \E d \in [keys -> {<<>>} \cup {<<p>> : p \in Prices} \cup (Prices \X Prices)] :
          LET wire(key) == [i \in DOMAIN d[key] |-> Wire(PriceTick(d[key][i], at))]
          IN /\ sent' = [at |-> at, now |-> now, prices |-> d]
             /\ line' = [key \in keys |-> wire(key)]
             /\ \/ HasPrices(d) = {} /\ Thrown
                \/ \E key \in HasPrices(d) :
                     IF WireParses(wire(key)[1])
                       THEN pc' = "prices" /\ tick' = parse_td_tick(wire(key)[1], GroupOf(key), now)
                       ELSE Thrown
  BY Zenon DEF ReceivePrices
<1>3. PICK d \in [keys -> {<<>>} \cup {<<p>> : p \in Prices} \cup (Prices \X Prices)] :
        /\ sent' = [at |-> at, now |-> now, prices |-> d]
        /\ \E key \in HasPrices(d) :
             tick' = parse_td_tick([i \in DOMAIN d[key] |-> Wire(PriceTick(d[key][i], at))][1],
                                   GroupOf(key), now)
  BY <1>1, <1>2, Zenon
<1>4. PICK key \in HasPrices(d) :
        tick' = parse_td_tick([i \in DOMAIN d[key] |-> Wire(PriceTick(d[key][i], at))][1],
                              GroupOf(key), now)
  BY <1>3
<1>5. key \in DOMAIN d /\ key \in DOMAIN grouping_map /\ d[key] # <<>>
  BY DEF HasPrices
<1>6. 1 \in DOMAIN d[key] /\ Head(d[key]) = d[key][1]
  <2>1. d[key] \in {<<p>> : p \in Prices} \cup (Prices \X Prices)
    BY <1>5
  <2> QED BY <2>1
<1> DEFINE first == PriceTick(Head(d[key]), at)
<1>7. tick' = parse_td_tick(Wire(first), GroupOf(key), now)
  BY <1>4, <1>6
<1>8. PICK g \in Groupings : key \in SaidOf[g] /\ GroupOf(key) = g
  BY <1>5, KnownKeys, GroupIsTheSaid
<1>9. /\ first.dir \in Directions /\ first.tradable \in BOOLEAN /\ first.call_only \in BOOLEAN
      /\ first.timestamp = at /\ first.timestamp \in Times
      /\ DOMAIN first = {"quote_id", "bid", "ask", "daily_change", "dir", "tradable", "high", "low",
                         "hash", "call_only", "mid_price", "timestamp", "field13"}
  BY DEF PriceTick, Directions
<1>10. sent'.prices = d /\ sent'.at = at /\ sent'.now = now
  BY <1>3
<1> HIDE DEF first
<1>11. tick' = [quote_id |-> first.quote_id, bid |-> first.bid, ask |-> first.ask,
                daily_change |-> first.daily_change, dir |-> first.dir, tradable |-> first.tradable,
                high |-> first.high, low |-> first.low, hash |-> first.hash,
                call_only |-> first.call_only, mid_price |-> first.mid_price,
                timestamp |-> first.timestamp, field13 |-> first.field13, group |-> g,
                latency |-> now - first.timestamp]
  BY <1>7, <1>8, <1>9, WireIsParsed
<1>12. \A x \in DOMAIN first : tick'[x] = first[x]
  BY <1>9, <1>11
<1>13. tick'.group = g /\ tick'.latency = now - at
  BY <1>9, <1>11
<1> QED BY <1>5, <1>8, <1>10, <1>12, <1>13 DEF first

\* A tick has what the server meant by its line in every field, and is of the
\* grouping the price came under.
THEOREM TicksAreTheSent == Spec => []TickIsTheSent
<1>1. Init => TickIsTheSent
  BY DEF Init, TickIsTheSent
<1>2. TickIsTheSent /\ [Next]_vars => TickIsTheSent'
  <2> SUFFICES ASSUME TickIsTheSent, [Next]_vars PROVE TickIsTheSent'
    OBVIOUS
  <2>1. CASE UNCHANGED vars
    BY <2>1 DEF vars, TickIsTheSent, Unaltered, LineAltered
  <2>2. CASE pc' = "tick" /\ ~UNCHANGED vars
    <3>1. Unaltered' => tick' = sent'
      <4>1. ReceiveTick \/ ReceiveBadTick \/ ReceiveAlteredTick
        BY <2>2, WhoMakesIt
      <4>2. ReceiveBadTick => sent' = None
        BY DEF ReceiveBadTick
      <4> QED BY <2>2, <4>1, <4>2, AlteredIsSaid, TickReceived DEF Unaltered
    <3> QED BY <2>2, <3>1 DEF TickIsTheSent
  <2>3. CASE pc' = "prices" /\ ~UNCHANGED vars
    <3>1. ReceivePrices
      BY <2>3, WhoMakesIt
    <3> QED BY <2>3, <3>1, PricesReceived DEF TickIsTheSent
  <2>4. CASE pc' \notin {"tick", "prices"}
    BY <2>4 DEF TickIsTheSent
  <2> QED BY <2>1, <2>2, <2>3, <2>4
<1> QED BY <1>1, <1>2, PTL DEF Spec

-----------------------------------------------------------------------------
(* JSON: the fields of a struct                                             *)

\* An int that fits is not wrapped.
LEMMA FittingInt == ASSUME NEW n \in (-IntMax - 1)..IntMax PROVE Wrapped(n) = n
<1> DEFINE a == n + IntMax + 1
           b == 2 * (IntMax + 1)
<1>1. IntMax \in Nat
  BY IntAssumption
<1>2. a \in Nat /\ b \in Nat \ {0} /\ a < b
  BY <1>1
<1>3. a % b = a
  <2> HIDE DEF a, b
  <2> QED BY <1>2
<1>4. Wrapped(n) = (a % b) - (IntMax + 1)
  BY DEF Wrapped
<1>5. a - (IntMax + 1) = n
  BY <1>1
<1> HIDE DEF a, b
<1> QED BY <1>3, <1>4, <1>5

\* How a field can be written: by to_json, or a double without a fraction as an
\* integer.
WrittenAs(kind, x, v) ==
    v = Put(kind, x) \/ (kind = "double" /\ x % 2 = 0 /\ v = Integer(x \div 2))

LEMMA FieldRead ==
    ASSUME NEW kind \in DOMAIN Takes, NEW x, NEW v, Fits(kind, x), WrittenAs(kind, x, v)
    PROVE  DOMAIN v \cap Takes[kind] # {} /\ Got(kind, v) = x
<1> USE DEF Takes, Put, Got, Integer, Real, Bool, Text
<1>1. CASE kind = "bool"
  BY <1>1 DEF WrittenAs
<1>2. CASE kind = "string"
  BY <1>2 DEF WrittenAs
<1>3. CASE kind = "double"
  <2>1. x \in Int
    BY <1>3 DEF Fits
  <2>2. CASE v = Real(x)
    <3>1. DOMAIN v = {"real"} /\ v.real = x
      BY <2>2
    <3> QED BY <1>3, <3>1 DEF Is
  <2>3. CASE x % 2 = 0 /\ v = Integer(x \div 2)
    <3>1. DOMAIN v = {"integer"} /\ v.integer = x \div 2
      BY <2>3
    <3>2. 2 * (x \div 2) = x
      BY <2>1, <2>3
    <3> QED BY <1>3, <3>1, <3>2 DEF Is
  <2> QED BY <1>3, <2>2, <2>3 DEF WrittenAs
<1>4. CASE kind = "int64"
  <2>1. DOMAIN v = {"integer"} /\ v.integer = x
    BY <1>4 DEF WrittenAs
  <2> QED BY <1>4, <2>1 DEF Is, Whole
<1>5. CASE kind \in {"int", "enum"}
  <2>1. DOMAIN v = {"integer"} /\ v.integer = x
    BY <1>5 DEF WrittenAs
  <2>2. Whole(v) = x /\ Wrapped(x) = x
    BY <1>5, <2>1, FittingInt DEF Is, Whole, Fits
  <2>3. DOMAIN v \cap Takes[kind] # {}
    BY <1>5, <2>1
  <2> QED BY <1>5, <2>2, <2>3
<1> QED BY <1>1, <1>2, <1>3, <1>4, <1>5

\* null and an array are not the value of any field.
LEMMA NoValue ==
    ASSUME NEW kind \in DOMAIN Takes, NEW v \in {Null, Array(<<>>)}
    PROVE  DOMAIN v \cap Takes[kind] = {}
<1>1. DOMAIN v \in {{"null"}, {"array"}}
  BY DEF Null, Array
<1>2. "null" \notin Takes[kind] /\ "array" \notin Takes[kind]
  BY DEF Takes
<1> QED BY <1>1, <1>2

IsStruct(fields) == \A k \in DOMAIN fields : fields[k] \in DOMAIN Takes
IsOf(fields, s) ==
    s = [k \in DOMAIN fields |-> s[k]] /\ \A k \in DOMAIN fields : Fits(fields[k], s[k])

\* A struct is read from any object that has its fields.
LEMMA StructRead ==
    ASSUME NEW fields, IsStruct(fields), NEW s, IsOf(fields, s), NEW o,
           \A k \in DOMAIN fields : k \in DOMAIN o /\ WrittenAs(fields[k], s[k], o[k])
    PROVE  ~FromJsonThrows(fields, Object(o)) /\ FromJson(fields, Object(o)) = s
<1>1. Object(o).object = o /\ DOMAIN Object(o) = {"object"}
  BY DEF Object
<1>2. ASSUME NEW k \in DOMAIN fields
      PROVE  /\ Has(Object(o), k)
             /\ DOMAIN o[k] \cap Takes[fields[k]] # {} /\ Got(fields[k], o[k]) = s[k]
  <2>1. Has(Object(o), k)
    BY <1>1 DEF Has, Is
  <2>2. fields[k] \in DOMAIN Takes /\ Fits(fields[k], s[k]) /\ WrittenAs(fields[k], s[k], o[k])
    BY DEF IsStruct, IsOf
  <2> QED BY <2>1, <2>2, FieldRead
<1>3. ~FromJsonThrows(fields, Object(o))
  BY <1>1, <1>2 DEF FromJsonThrows
<1>4. FromJson(fields, Object(o)) = [k \in DOMAIN fields |-> s[k]]
  BY <1>1, <1>2 DEF FromJson
<1> QED BY <1>3, <1>4 DEF IsOf

\* So are the two ways of writing it.
LEMMA StructWritten ==
    ASSUME NEW fields, NEW s, NEW k \in DOMAIN fields
    PROVE  /\ k \in DOMAIN Said(fields, s) /\ WrittenAs(fields[k], s[k], Said(fields, s)[k])
           /\ k \in DOMAIN ToJson(fields, s) /\ WrittenAs(fields[k], s[k], ToJson(fields, s)[k])
BY DEF Said, ToJson, WrittenAs

\* A field that is missing, null or an array makes from_json throw.
LEMMA StructThrows ==
    ASSUME NEW fields, IsStruct(fields), NEW o, NEW k \in DOMAIN fields,
           k \notin DOMAIN o \/ o[k] \in {Null, Array(<<>>)}
    PROVE  FromJsonThrows(fields, Object(o))
<1>1. Object(o).object = o /\ DOMAIN Object(o) = {"object"}
  BY DEF Object
<1>2. CASE k \notin DOMAIN o
  BY <1>1, <1>2 DEF FromJsonThrows, Has
<1>3. CASE o[k] \in {Null, Array(<<>>)}
  <2>1. fields[k] \in DOMAIN Takes
    BY DEF IsStruct
  <2> QED BY <1>1, <1>3, <2>1, NoValue DEF FromJsonThrows
<1> QED BY <1>2, <1>3

\* A spoilt object throws, wherever it is spoilt.
LEMMA SpoiltThrows ==
    ASSUME NEW fields, IsStruct(fields), NEW o, DOMAIN fields \subseteq DOMAIN o,
           NEW v \in Spoilt(o, DOMAIN fields)
    PROVE  FromJsonThrows(fields, v)
<1>1. PICK k \in DOMAIN fields :
        \/ v = Object([j \in DOMAIN o \ {k} |-> o[j]])
        \/ v = Object([o EXCEPT ![k] = Null])
        \/ v = Object([o EXCEPT ![k] = Array(<<>>)])
  BY DEF Spoilt
<1>2. CASE v = Object([j \in DOMAIN o \ {k} |-> o[j]])
  BY <1>2, StructThrows
<1>3. ASSUME NEW x \in {Null, Array(<<>>)} PROVE FromJsonThrows(fields, Object([o EXCEPT ![k] = x]))
  <2> DEFINE q == [o EXCEPT ![k] = x]
  <2>1. q[k] = x
    OBVIOUS
  <2> HIDE DEF q
  <2>2. FromJsonThrows(fields, Object(q))
    BY <2>1, StructThrows
  <2> QED BY <2>2 DEF q
<1> QED BY <1>1, <1>2, <1>3

LEMMA FilledFits ==
    ASSUME NEW fields, IsStruct(fields), NEW x \in Values
    PROVE  IsOf(fields, Filled(fields, x))
BY ValuesAssumption DEF IsStruct, IsOf, Filled

LEMMA EmptyFits ==
    ASSUME NEW fields, IsStruct(fields)
    PROVE  IsOf(fields, Empty(fields))
<1>1. \A kind \in DOMAIN Takes : Fits(kind, Zero(kind))
  <2>1. 0 \in (-IntMax - 1)..IntMax
    BY IntAssumption
  <2>2. ASSUME NEW kind \in {"int", "enum", "int64", "double"} PROVE Fits(kind, Zero(kind))
    <3>1. Zero(kind) = 0
      <4>1. kind # "bool" /\ kind # "string"
        OBVIOUS
      <4> QED BY <4>1, Zenon DEF Zero
    <3>2. kind \in {"int", "enum"} => (Fits(kind, 0) <=> 0 \in (-IntMax - 1)..IntMax)
      BY DEF Fits
    <3>3. kind \in {"int64", "double"} => (Fits(kind, 0) <=> 0 \in Int)
      BY DEF Fits
    <3> QED BY <2>1, <3>1, <3>2, <3>3
  <2>3. Fits("bool", Zero("bool"))
    BY Zenon DEF Fits, Zero
  <2>4. Fits("string", Zero("string"))
    BY DEF Fits, Zero
  <2>5. DOMAIN Takes = {"int", "enum", "int64", "double", "bool", "string"}
    BY DEF Takes
  <2> QED BY <2>2, <2>3, <2>4, <2>5
<1> QED BY <1>1 DEF IsStruct, IsOf, Empty

\* All the structs are of the kinds there are.
LEMMA StructKinds ==
    /\ \A type \in DOMAIN Flat : IsStruct(Flat[type])
    /\ IsStruct(own_fields)
    /\ \A p \in DOMAIN Parts : IsStruct(Parts[p])
    /\ \A p \in DOMAIN Records : IsStruct(Records[p])
<1> USE DEF IsStruct, Takes
<1>1. /\ IsStruct(market_group) /\ IsStruct(market) /\ IsStruct(tick_fields)
      /\ IsStruct(request_trade_simulate) /\ IsStruct(candle_fields) /\ IsStruct(market_details)
      /\ IsStruct(client_web_option_info) /\ IsStruct(account_summary) /\ IsStruct(trade_details)
  BY DEF market_group, market, tick_fields, request_trade_simulate, candle_fields, market_details,
         client_web_option_info, account_summary, trade_details
<1>2. IsStruct(own_fields) /\ IsStruct(currency_record) /\ IsStruct(position_record)
  BY DEF own_fields, currency_record, position_record
<1>3. \A p \in DOMAIN Parts : IsStruct(Parts[p])
  BY DEF Parts
<1> HIDE DEF IsStruct, Takes
<1>4. \A type \in DOMAIN Flat : IsStruct(Flat[type])
  BY <1>1 DEF Flat
<1>5. \A p \in DOMAIN Records : IsStruct(Records[p])
  BY <1>2 DEF Records
<1> QED BY <1>2, <1>3, <1>4, <1>5

-----------------------------------------------------------------------------
(* JSON: the structs without structs in them                                *)

\* What is read of an object with all the fields of a struct: the struct, but of
\* platform 0 an empty summary.
LEMMA FlatRead ==
    ASSUME NEW type \in DOMAIN Flat, NEW s, IsOf(Flat[type], s), NEW o,
           \A k \in DOMAIN Flat[type] : k \in DOMAIN o /\ WrittenAs(Flat[type][k], s[k], o[k])
    PROVE  /\ ~Throws(type, Object(o))
           /\ Read(type, Object(o)) = IF type = "account_summary" /\ s.PlatformID = 0
                                      THEN Empty(account_summary) ELSE s
<1>1. ~FromJsonThrows(Flat[type], Object(o)) /\ FromJson(Flat[type], Object(o)) = s
  BY StructKinds, StructRead
<1>2. type # "account_details" /\ Flat["account_summary"] = account_summary
  BY DEF Flat
<1>3. CASE type # "account_summary"
  <2>1. ~Throws(type, Object(o))
    BY <1>1, <1>2, <1>3, Zenon DEF Throws
  <2>2. Read(type, Object(o)) = s
    BY <1>1, <1>2, <1>3, Zenon DEF Read
  <2> QED BY <1>3, <2>1, <2>2
<1>4. CASE type = "account_summary"
  <2> DEFINE one == [PlatformID |-> "int"]
             n == s.PlatformID
  <2>1. "PlatformID" \in DOMAIN account_summary /\ account_summary.PlatformID = "int"
    BY DEF account_summary
  <2>2. Fits("int", n) /\ "PlatformID" \in DOMAIN o /\ WrittenAs("int", n, o.PlatformID)
    BY <1>2, <1>4, <2>1 DEF IsOf
  <2>3. IsStruct(one) /\ IsOf(one, [PlatformID |-> n])
    BY <2>2 DEF IsStruct, IsOf, Takes
  <2>4. \A k \in DOMAIN one :
          k \in DOMAIN o /\ WrittenAs(one[k], [PlatformID |-> n][k], o[k])
    BY <2>2
  <2>5. ~FromJsonThrows(one, Object(o))
    BY <2>3, <2>4, StructRead
  <2>6. Got("int", Object(o).object.PlatformID) = n
    <3>1. "int" \in DOMAIN Takes
      BY DEF Takes
    <3> QED BY <2>2, <3>1, FieldRead DEF Object
  <2>7. BasicPlatform(Object(o)) <=> n = 0
    BY <2>5, <2>6 DEF BasicPlatform
  <2>8. ~Throws(type, Object(o))
    BY <1>1, <1>2, <1>4, Zenon DEF Throws
  <2>9. Read(type, Object(o)) = IF BasicPlatform(Object(o)) THEN Empty(account_summary) ELSE s
    BY <1>1, <1>2, <1>4, Zenon DEF Read
  <2> QED BY <1>4, <2>7, <2>8, <2>9
<1> QED BY <1>3, <1>4

\* Of one that lacks a field, or has no value in it, nothing but that summary.
LEMMA FlatSpoilt ==
    ASSUME NEW type \in DOMAIN Flat, NEW s,
           NEW v \in Spoilt(Said(Flat[type], s), DOMAIN Said(Flat[type], s)),
           ~Throws(type, v)
    PROVE  type = "account_summary" /\ Read(type, v) = Empty(account_summary)
<1> DEFINE o == Said(Flat[type], s)
<1>1. DOMAIN o = DOMAIN Flat[type]
  BY DEF Said
<1> HIDE DEF o
<1>2. v \in Spoilt(o, DOMAIN Flat[type])
  BY <1>1 DEF o
<1>3. FromJsonThrows(Flat[type], v)
  BY <1>1, <1>2, StructKinds, SpoiltThrows
<1>4. type # "account_details" /\ Flat["account_summary"] = account_summary
  BY DEF Flat
<1>5. type = "account_summary" /\ BasicPlatform(v)
  BY <1>3, <1>4, Zenon DEF Throws
<1>6. Read("account_summary", v) = Empty(account_summary)
  <2>1. "account_summary" # "account_details"
    OBVIOUS
  <2> QED BY <1>5, <2>1, Zenon DEF Read
<1> QED BY <1>5, <1>6

-----------------------------------------------------------------------------
(* JSON: account details                                                    *)

LEMMA JoinedKeys ==
    ASSUME NEW f, NEW g
    PROVE  /\ DOMAIN Joined(f, g) = DOMAIN f \cup DOMAIN g
           /\ \A k \in DOMAIN f : Joined(f, g)[k] = f[k]
           /\ \A k \in DOMAIN g : k \notin DOMAIN f => Joined(f, g)[k] = g[k]
BY DEF Joined

LEMMA PartNames ==
    /\ \A p \in DOMAIN Parts : "Records" \notin DOMAIN Parts[p] /\ p \notin DOMAIN own_fields
    /\ DOMAIN Records \subseteq DOMAIN Parts
BY DEF Parts, own_fields, Records

IsPart(p, x) ==
    /\ x = [is |-> x.is, records |-> x.records]
    /\ IsOf(Parts[p], x.is)
    /\ x.records = [i \in DOMAIN x.records |-> x.records[i]]
    /\ IF p \in DOMAIN Records
       THEN \A i \in DOMAIN x.records : IsOf(Records[p], x.records[i])
       ELSE x.records = <<>>

\* An object with the fields of a part, and its records.
PartWritten(p, x, o) ==
    /\ \A k \in DOMAIN Parts[p] : k \in DOMAIN o /\ WrittenAs(Parts[p][k], x.is[k], o[k])
    /\ p \in DOMAIN Records =>
         \E r : /\ "Records" \in DOMAIN o /\ o.Records = Array([i \in DOMAIN x.records |-> Object(r[i])])
                /\ \A i \in DOMAIN x.records : \A k \in DOMAIN Records[p] :
                     k \in DOMAIN r[i] /\ WrittenAs(Records[p][k], x.records[i][k], r[i][k])

LEMMA PartRead ==
    ASSUME NEW p \in DOMAIN Parts, NEW x, IsPart(p, x), NEW o, PartWritten(p, x, o)
    PROVE  ~PartThrows(p, Object(o)) /\ PartFrom(p, Object(o)) = x
<1>1. ~FromJsonThrows(Parts[p], Object(o)) /\ FromJson(Parts[p], Object(o)) = x.is
  BY StructKinds, StructRead DEF IsPart, PartWritten
<1>2. Object(o).object = o /\ DOMAIN Object(o) = {"object"}
  BY DEF Object
<1>3. CASE p \in DOMAIN Records
  <2>1. PICK r : /\ "Records" \in DOMAIN o
                 /\ o.Records = Array([i \in DOMAIN x.records |-> Object(r[i])])
                 /\ \A i \in DOMAIN x.records : \A k \in DOMAIN Records[p] :
                      k \in DOMAIN r[i] /\ WrittenAs(Records[p][k], x.records[i][k], r[i][k])
    BY <1>3 DEF PartWritten
  <2> DEFINE list == [i \in DOMAIN x.records |-> Object(r[i])]
  <2>2. o.Records.array = list /\ DOMAIN o.Records = {"array"}
    BY <2>1 DEF Array
  <2>3. ASSUME NEW i \in DOMAIN list
        PROVE  ~FromJsonThrows(Records[p], list[i]) /\ FromJson(Records[p], list[i]) = x.records[i]
    <3>1. IsStruct(Records[p]) /\ IsOf(Records[p], x.records[i])
      BY <1>3, StructKinds DEF IsPart
    <3>2. \A k \in DOMAIN Records[p] :
            k \in DOMAIN r[i] /\ WrittenAs(Records[p][k], x.records[i][k], r[i][k])
      BY <2>1
    <3>3. ~FromJsonThrows(Records[p], Object(r[i])) /\ FromJson(Records[p], Object(r[i])) = x.records[i]
      BY <3>1, <3>2, StructRead
    <3> QED BY <3>3
  <2>4. DOMAIN list = DOMAIN x.records
    OBVIOUS
  <2> HIDE DEF list
  <2>5. ~PartThrows(p, Object(o))
    BY <1>1, <1>2, <2>1, <2>2, <2>3 DEF PartThrows, Has, Is
  <2>6. [i \in DOMAIN list |-> FromJson(Records[p], list[i])] = x.records
    BY <2>3, <2>4 DEF IsPart
  <2>7. PartFrom(p, Object(o)) = [is |-> x.is, records |-> x.records]
    BY <1>1, <1>2, <1>3, <2>2, <2>6 DEF PartFrom
  <2> QED BY <2>5, <2>7 DEF IsPart
<1>4. CASE p \notin DOMAIN Records
  <2>1. ~PartThrows(p, Object(o))
    BY <1>1, <1>4 DEF PartThrows
  <2>2. PartFrom(p, Object(o)) = [is |-> x.is, records |-> <<>>]
    BY <1>1, <1>4 DEF PartFrom
  <2>3. x = [is |-> x.is, records |-> <<>>]
    BY <1>4, Zenon DEF IsPart
  <2> QED BY <2>1, <2>2, <2>3
<1> QED BY <1>3, <1>4

\* The server and to_json both write a part so.
LEMMA PartIsWritten ==
    ASSUME NEW p \in DOMAIN Parts, NEW x
    PROVE  /\ PartWritten(p, x, SaidPart(p, x))
           /\ \E o : PartTo(p, x) = Object(o) /\ PartWritten(p, x, o)
<1> DEFINE said == Said(Parts[p], x.is)
           is == ToJson(Parts[p], x.is)
           saidrecords == [Records |-> Array([i \in DOMAIN x.records |-> Object(Said(Records[p], x.records[i]))])]
           isrecords == [Records |-> Array([i \in DOMAIN x.records |-> Object(ToJson(Records[p], x.records[i]))])]
           o == IF p \in DOMAIN Records THEN Joined(is, isrecords) ELSE is
<1>1. DOMAIN said = DOMAIN Parts[p] /\ DOMAIN is = DOMAIN Parts[p] /\ "Records" \notin DOMAIN Parts[p]
  BY PartNames DEF Said, ToJson
<1>2. \A k \in DOMAIN Parts[p] : /\ WrittenAs(Parts[p][k], x.is[k], said[k])
                                 /\ WrittenAs(Parts[p][k], x.is[k], is[k])
  BY StructWritten
<1>3. SaidPart(p, x) = Joined(said, saidrecords) /\ PartTo(p, x) = Object(o)
  BY DEF SaidPart, PartTo
<1>4. ASSUME NEW i \in DOMAIN x.records, NEW k \in DOMAIN Records[p]
      PROVE  /\ k \in DOMAIN Said(Records[p], x.records[i])
             /\ WrittenAs(Records[p][k], x.records[i][k], Said(Records[p], x.records[i])[k])
             /\ k \in DOMAIN ToJson(Records[p], x.records[i])
             /\ WrittenAs(Records[p][k], x.records[i][k], ToJson(Records[p], x.records[i])[k])
  BY StructWritten
<1> DEFINE r1 == [i \in DOMAIN x.records |-> Said(Records[p], x.records[i])]
           r2 == [i \in DOMAIN x.records |-> ToJson(Records[p], x.records[i])]
<1>5. /\ saidrecords.Records = Array([i \in DOMAIN x.records |-> Object(r1[i])])
      /\ isrecords.Records = Array([i \in DOMAIN x.records |-> Object(r2[i])])
      /\ DOMAIN saidrecords = {"Records"} /\ DOMAIN isrecords = {"Records"}
      /\ \A i \in DOMAIN x.records : \A k \in DOMAIN Records[p] :
           /\ k \in DOMAIN r1[i] /\ WrittenAs(Records[p][k], x.records[i][k], r1[i][k])
           /\ k \in DOMAIN r2[i] /\ WrittenAs(Records[p][k], x.records[i][k], r2[i][k])
  BY <1>4
<1> HIDE DEF said, is, saidrecords, isrecords, r1, r2
<1>6. ASSUME NEW f, NEW g, NEW r, DOMAIN f = DOMAIN Parts[p], DOMAIN g = {"Records"},
             \A k \in DOMAIN Parts[p] : WrittenAs(Parts[p][k], x.is[k], f[k]),
             g.Records = Array([i \in DOMAIN x.records |-> Object(r[i])]),
             \A i \in DOMAIN x.records : \A k \in DOMAIN Records[p] :
               k \in DOMAIN r[i] /\ WrittenAs(Records[p][k], x.records[i][k], r[i][k])
      PROVE  PartWritten(p, x, Joined(f, g))
  <2> DEFINE j == Joined(f, g)
  <2>0. /\ DOMAIN j = DOMAIN f \cup DOMAIN g
        /\ \A k \in DOMAIN f : j[k] = f[k]
        /\ \A k \in DOMAIN g : k \notin DOMAIN f => j[k] = g[k]
    BY JoinedKeys
  <2> HIDE DEF j
  <2>1. \A k \in DOMAIN Parts[p] : k \in DOMAIN j /\ j[k] = f[k]
    BY <1>6, <2>0
  <2>2. "Records" \in DOMAIN j /\ j.Records = g.Records
    BY <1>1, <1>6, <2>0
  <2>3. \A k \in DOMAIN Parts[p] : k \in DOMAIN j /\ WrittenAs(Parts[p][k], x.is[k], j[k])
    BY <1>6, <2>1
  <2>4. j.Records = Array([i \in DOMAIN x.records |-> Object(r[i])])
    BY <1>6, <2>2
  <2>5. PartWritten(p, x, j)
    BY <1>6, <2>2, <2>3, <2>4, Zenon DEF PartWritten
  <2> QED BY <2>5 DEF j
<1>7. PartWritten(p, x, Joined(said, saidrecords)) /\ PartWritten(p, x, Joined(is, isrecords))
  <2>1. PartWritten(p, x, Joined(said, saidrecords))
    BY <1>1, <1>2, <1>5, <1>6
  <2>2. PartWritten(p, x, Joined(is, isrecords))
    BY <1>1, <1>2, <1>5, <1>6
  <2> QED BY <2>1, <2>2
<1>8. p \notin DOMAIN Records => PartWritten(p, x, is)
  BY <1>1, <1>2 DEF PartWritten
<1> QED BY <1>3, <1>7, <1>8

IsDetails(d) ==
    /\ d = [own |-> d.own, parts |-> d.parts]
    /\ IsOf(own_fields, d.own)
    /\ d.parts = [p \in DOMAIN Parts |-> d.parts[p]]
    /\ \A p \in DOMAIN Parts : IsPart(p, d.parts[p])

\* An object with the fields of account details and some of the parts; those
\* it does not have are empty.
LEMMA DetailsRead ==
    ASSUME NEW d, IsDetails(d), NEW o,
           \A k \in DOMAIN own_fields : k \in DOMAIN o /\ WrittenAs(own_fields[k], d.own[k], o[k]),
           \A p \in DOMAIN Parts :
             IF p \in DOMAIN o THEN \E q : o[p] = Object(q) /\ PartWritten(p, d.parts[p], q)
             ELSE d.parts[p] = NoPart(p)
    PROVE  ~Throws("account_details", Object(o)) /\ Read("account_details", Object(o)) = d
<1>1. ~FromJsonThrows(own_fields, Object(o)) /\ FromJson(own_fields, Object(o)) = d.own
  BY StructKinds, StructRead DEF IsDetails
<1>2. Object(o).object = o /\ DOMAIN Object(o) = {"object"}
  BY DEF Object
<1>3. ASSUME NEW p \in DOMAIN Parts
      PROVE  /\ Has(Object(o), p) <=> p \in DOMAIN o
             /\ p \in DOMAIN o => ~PartThrows(p, o[p]) /\ PartFrom(p, o[p]) = d.parts[p]
             /\ p \notin DOMAIN o => NoPart(p) = d.parts[p]
  <2>1. Has(Object(o), p) <=> p \in DOMAIN o
    BY <1>2 DEF Has, Is
  <2>2. ASSUME p \in DOMAIN o PROVE ~PartThrows(p, o[p]) /\ PartFrom(p, o[p]) = d.parts[p]
    <3>1. PICK q : o[p] = Object(q) /\ PartWritten(p, d.parts[p], q)
      BY <2>2
    <3> QED BY <3>1, PartRead DEF IsDetails
  <2> QED BY <2>1, <2>2
<1>4. ~DetailsThrow(Object(o))
  BY <1>1, <1>2, <1>3 DEF DetailsThrow
<1>5. account_details(Object(o)) = [own |-> d.own, parts |-> [p \in DOMAIN Parts |-> d.parts[p]]]
  BY <1>1, <1>2, <1>3 DEF account_details
<1>6. account_details(Object(o)) = d
  BY <1>5, Zenon DEF IsDetails
<1> QED BY <1>4, <1>6, Zenon DEF Throws, Read

\* What the server writes of account details is their own fields and the given
\* parts.
LEMMA SaidDetailsKeys ==
    ASSUME NEW d, NEW given
    PROVE  /\ DOMAIN SaidDetails(d, given) = DOMAIN own_fields \cup given
           /\ \A k \in DOMAIN own_fields : SaidDetails(d, given)[k] = Said(own_fields, d.own)[k]
           /\ \A k \in given : k \notin DOMAIN own_fields
                => SaidDetails(d, given)[k] = Object(SaidPart(k, d.parts[k]))
<1> DEFINE own == Said(own_fields, d.own)
           parts == [p \in given |-> Object(SaidPart(p, d.parts[p]))]
<1>1. SaidDetails(d, given) = Joined(own, parts)
  BY Zenon DEF SaidDetails
<1>2. DOMAIN own = DOMAIN own_fields
  BY DEF Said
<1>3. DOMAIN parts = given /\ \A p \in given : parts[p] = Object(SaidPart(p, d.parts[p]))
  OBVIOUS
<1> HIDE DEF own, parts
<1>4. /\ DOMAIN Joined(own, parts) = DOMAIN own \cup DOMAIN parts
      /\ \A k \in DOMAIN own : Joined(own, parts)[k] = own[k]
      /\ \A k \in DOMAIN parts : k \notin DOMAIN own => Joined(own, parts)[k] = parts[k]
  BY JoinedKeys
<1> QED BY <1>1, <1>2, <1>3, <1>4, Zenon DEF own

\* What the server writes of some parts is read as it was meant, and what
\* to_json writes is read again.
LEMMA SaidDetailsRead ==
    ASSUME NEW d, IsDetails(d), NEW given \in SUBSET DOMAIN Parts,
           \A p \in DOMAIN Parts \ given : d.parts[p] = NoPart(p)
    PROVE  LET v == Object(SaidDetails(d, given))
           IN ~Throws("account_details", v) /\ Read("account_details", v) = d
<1> DEFINE own == Said(own_fields, d.own)
           o == SaidDetails(d, given)
<1>1. /\ DOMAIN o = DOMAIN own_fields \cup given
      /\ \A k \in DOMAIN own_fields : o[k] = own[k]
      /\ \A k \in given : k \notin DOMAIN own_fields => o[k] = Object(SaidPart(k, d.parts[k]))
  BY SaidDetailsKeys, Zenon
<1>2. \A k \in DOMAIN own_fields : WrittenAs(own_fields[k], d.own[k], own[k])
  BY StructWritten
<1> HIDE DEF own, o
<1>3. \A k \in DOMAIN own_fields : k \in DOMAIN o /\ WrittenAs(own_fields[k], d.own[k], o[k])
  BY <1>1, <1>2
<1>4. ASSUME NEW p \in DOMAIN Parts
      PROVE  IF p \in DOMAIN o THEN \E q : o[p] = Object(q) /\ PartWritten(p, d.parts[p], q)
             ELSE d.parts[p] = NoPart(p)
  <2>1. p \notin DOMAIN own_fields
    BY PartNames
  <2>2. CASE p \in given
    <3>1. p \in DOMAIN o /\ o[p] = Object(SaidPart(p, d.parts[p]))
      BY <1>1, <2>1, <2>2
    <3>2. PartWritten(p, d.parts[p], SaidPart(p, d.parts[p]))
      BY PartIsWritten
    <3> QED BY <3>1, <3>2
  <2>3. CASE p \notin given
    BY <1>1, <2>1, <2>3
  <2> QED BY <2>2, <2>3
<1>5. ~Throws("account_details", Object(o)) /\ Read("account_details", Object(o)) = d
  BY <1>3, <1>4, DetailsRead
<1> QED BY <1>5 DEF o

LEMMA DumpedDetailsRead ==
    ASSUME NEW d, IsDetails(d)
    PROVE  /\ ~Throws("account_details", DetailsTo(d))
           /\ Read("account_details", DetailsTo(d)) = d
<1> DEFINE own == ToJson(own_fields, d.own)
           parts == [p \in DOMAIN Parts |-> PartTo(p, d.parts[p])]
           o == Joined(own, parts)
<1>1. DOMAIN own = DOMAIN own_fields
  BY DEF ToJson
<1>2. DetailsTo(d) = Object(o)
  BY DEF DetailsTo
<1>3. \A k \in DOMAIN own_fields : WrittenAs(own_fields[k], d.own[k], own[k])
  BY StructWritten
<1>4. /\ DOMAIN o = DOMAIN own \cup DOMAIN parts
      /\ \A k \in DOMAIN own : o[k] = own[k]
      /\ \A k \in DOMAIN parts : k \notin DOMAIN own => o[k] = parts[k]
  <2> HIDE DEF own, parts
  <2>1. DOMAIN Joined(own, parts) = DOMAIN own \cup DOMAIN parts
    BY JoinedKeys
  <2>2. \A k \in DOMAIN own : Joined(own, parts)[k] = own[k]
    BY JoinedKeys
  <2>3. \A k \in DOMAIN parts : k \notin DOMAIN own => Joined(own, parts)[k] = parts[k]
    BY JoinedKeys
  <2> QED BY <2>1, <2>2, <2>3, Zenon
<1>5. DOMAIN parts = DOMAIN Parts /\ \A p \in DOMAIN Parts : parts[p] = PartTo(p, d.parts[p])
  OBVIOUS
<1> HIDE DEF own, parts, o
<1>6. \A k \in DOMAIN own_fields : k \in DOMAIN o /\ WrittenAs(own_fields[k], d.own[k], o[k])
  BY <1>1, <1>3, <1>4
<1>7. ASSUME NEW p \in DOMAIN Parts
      PROVE  p \in DOMAIN o /\ \E q : o[p] = Object(q) /\ PartWritten(p, d.parts[p], q)
  <2>1. p \notin DOMAIN own
    BY <1>1, PartNames
  <2>2. p \in DOMAIN o /\ o[p] = PartTo(p, d.parts[p])
    BY <1>4, <1>5, <2>1
  <2>3. PICK q : PartTo(p, d.parts[p]) = Object(q) /\ PartWritten(p, d.parts[p], q)
    BY PartIsWritten
  <2> QED BY <2>2, <2>3
<1>8. ~Throws("account_details", Object(o)) /\ Read("account_details", Object(o)) = d
  BY <1>6, <1>7, DetailsRead
<1> QED BY <1>2, <1>8

LEMMA FilledDetailsFit ==
    ASSUME NEW x \in Values, NEW given \in SUBSET DOMAIN Parts, NEW n \in 0..1
    PROVE  /\ IsDetails(FilledDetails(x, given, n))
           /\ \A p \in DOMAIN Parts \ given : FilledDetails(x, given, n).parts[p] = NoPart(p)
<1> DEFINE part(p) == IF p \notin given THEN NoPart(p)
                      ELSE [is |-> Filled(Parts[p], x),
                            records |-> IF p \in DOMAIN Records
                                        THEN [i \in 1..n |-> Filled(Records[p], x)] ELSE <<>>]
           d == FilledDetails(x, given, n)
<1>1. d = [own |-> Filled(own_fields, x), parts |-> [p \in DOMAIN Parts |-> part(p)]]
  BY DEF FilledDetails
<1>2. ASSUME NEW p \in DOMAIN Parts PROVE IsPart(p, part(p))
  <2>1. CASE p \notin given
    <3>1. part(p) = [is |-> Empty(Parts[p]), records |-> <<>>]
      BY <2>1 DEF NoPart
    <3>2. IsOf(Parts[p], Empty(Parts[p]))
      BY EmptyFits, StructKinds
    <3>3. <<>> = [i \in DOMAIN <<>> |-> <<>>[i]] /\ DOMAIN <<>> = {}
      OBVIOUS
    <3> HIDE DEF part
    <3> QED BY <3>1, <3>2, <3>3 DEF IsPart
  <2>2. CASE p \in given /\ p \in DOMAIN Records
    <3>1. part(p) = [is |-> Filled(Parts[p], x), records |-> [i \in 1..n |-> Filled(Records[p], x)]]
      BY <2>2
    <3>2. IsOf(Parts[p], Filled(Parts[p], x)) /\ IsOf(Records[p], Filled(Records[p], x))
      BY <2>2, FilledFits, StructKinds
    <3> HIDE DEF part
    <3> QED BY <2>2, <3>1, <3>2 DEF IsPart
  <2>3. CASE p \in given /\ p \notin DOMAIN Records
    <3>1. part(p) = [is |-> Filled(Parts[p], x), records |-> <<>>]
      BY <2>3
    <3>2. IsOf(Parts[p], Filled(Parts[p], x))
      BY FilledFits, StructKinds
    <3>3. <<>> = [i \in DOMAIN <<>> |-> <<>>[i]] /\ DOMAIN <<>> = {}
      OBVIOUS
    <3> HIDE DEF part
    <3> QED BY <2>3, <3>1, <3>2, <3>3 DEF IsPart
  <2> QED BY <2>1, <2>2, <2>3
<1>3. IsOf(own_fields, Filled(own_fields, x))
  BY FilledFits, StructKinds
<1>4. \A p \in DOMAIN Parts \ given : part(p) = NoPart(p)
  OBVIOUS
<1> HIDE DEF part, d
<1>5. IsDetails(d)
  BY <1>1, <1>2, <1>3 DEF IsDetails
<1> QED BY <1>1, <1>4, <1>5 DEF d

\* A part that is spoilt throws, in its fields or in a record.
LEMMA SpoiltPartThrows ==
    ASSUME NEW p \in DOMAIN Parts, NEW x, NEW b \in SpoiltPart(p, x)
    PROVE  PartThrows(p, b)
<1> DEFINE said == SaidPart(p, x)
           record == Said(Records[p], x.records[1])
           records == IF p \in DOMAIN Records /\ x.records # <<>>
                      THEN Spoilt(record, DOMAIN Records[p]) ELSE {}
<1>1. DOMAIN Parts[p] \subseteq DOMAIN said /\ "Records" \in DOMAIN said
  <2> DEFINE is == Said(Parts[p], x.is)
             more == [Records |-> Array([i \in DOMAIN x.records |-> Object(Said(Records[p], x.records[i]))])]
  <2>1. said = Joined(is, more) /\ DOMAIN is = DOMAIN Parts[p] /\ DOMAIN more = {"Records"}
    BY DEF SaidPart, Said
  <2> HIDE DEF is, more, said
  <2>2. DOMAIN Joined(is, more) = DOMAIN is \cup DOMAIN more
    BY JoinedKeys
  <2> QED BY <2>1, <2>2
<1>2. b \in Spoilt(said, PartKeys(p)) \cup {Object([said EXCEPT !.Records = Array(<<r>>)]) : r \in records}
  BY DEF SpoiltPart
<1>3. \A f : Object(f).object = f /\ DOMAIN Object(f) = {"object"}
  BY DEF Object
<1>4. DOMAIN record = DOMAIN Records[p]
  BY DEF Said
<1> HIDE DEF said, record
<1>5. CASE b \in Spoilt(said, PartKeys(p))
  <2>1. PICK k \in PartKeys(p) :
          \/ b = Object([j \in DOMAIN said \ {k} |-> said[j]])
          \/ b = Object([said EXCEPT ![k] = Null])
          \/ k # "Records" /\ b = Object([said EXCEPT ![k] = Array(<<>>)])
    BY <1>5 DEF Spoilt
  <2>2. CASE k \in DOMAIN Parts[p]
    <3>1. b \in Spoilt(said, DOMAIN Parts[p])
      BY <2>1, <2>2 DEF Spoilt
    <3>2. FromJsonThrows(Parts[p], b)
      BY <1>1, <3>1, StructKinds, SpoiltThrows
    <3> QED BY <3>2 DEF PartThrows
  <2>3. CASE k \notin DOMAIN Parts[p]
    <3>1. k = "Records" /\ p \in DOMAIN Records
      BY <2>3 DEF PartKeys
    <3>2. CASE b = Object([j \in DOMAIN said \ {k} |-> said[j]])
      <4>1. ~Has(b, "Records")
        BY <1>3, <3>1, <3>2 DEF Has
      <4> QED BY <3>1, <4>1 DEF PartThrows
    <3>3. CASE b = Object([said EXCEPT ![k] = Null])
      <4>1. b.object.Records = Null
        BY <1>1, <1>3, <3>1, <3>3
      <4>2. ~Is(b.object.Records, "array")
        BY <4>1 DEF Is, Null
      <4> QED BY <3>1, <4>2 DEF PartThrows
    <3> QED BY <2>1, <3>1, <3>2, <3>3
  <2> QED BY <2>2, <2>3
<1>6. CASE b \in {Object([said EXCEPT !.Records = Array(<<r>>)]) : r \in records}
  <2>1. PICK r \in records : b = Object([said EXCEPT !.Records = Array(<<r>>)])
    BY <1>6
  <2>2. p \in DOMAIN Records /\ r \in Spoilt(record, DOMAIN Records[p])
    BY <2>1
  <2>3. FromJsonThrows(Records[p], r)
    BY <1>4, <2>2, StructKinds, SpoiltThrows
  <2>4. b.object.Records.array = <<r>>
    BY <1>1, <1>3, <2>1 DEF Array
  <2>5. 1 \in DOMAIN <<r>> /\ <<r>>[1] = r
    OBVIOUS
  <2> QED BY <2>2, <2>3, <2>4, <2>5 DEF PartThrows
<1> QED BY <1>2, <1>5, <1>6

\* And so do account details of which anything is spoilt.
LEMMA SpoiltDetailsThrow ==
    ASSUME NEW d, NEW given \in SUBSET DOMAIN Parts, NEW v \in SpoiltDetails(d, given)
    PROVE  Throws("account_details", v)
<1> DEFINE o == SaidDetails(d, given)
<1>1. DOMAIN own_fields \subseteq DOMAIN o /\ given \subseteq DOMAIN o
  BY SaidDetailsKeys
<1>2. \/ v \in Spoilt(o, DOMAIN own_fields)
      \/ \E p \in given : \E b \in SpoiltPart(p, d.parts[p]) : v = Object([o EXCEPT ![p] = b])
  BY DEF SpoiltDetails
<1> HIDE DEF o
<1>3. CASE v \in Spoilt(o, DOMAIN own_fields)
  BY <1>1, <1>3, StructKinds, SpoiltThrows DEF DetailsThrow, Throws
<1>4. CASE \E p \in given : \E b \in SpoiltPart(p, d.parts[p]) : v = Object([o EXCEPT ![p] = b])
  <2>1. PICK p \in given : \E b \in SpoiltPart(p, d.parts[p]) : v = Object([o EXCEPT ![p] = b])
    BY <1>4
  <2>2. PICK b \in SpoiltPart(p, d.parts[p]) : v = Object([o EXCEPT ![p] = b])
    BY <2>1
  <2>3. PartThrows(p, b)
    BY SpoiltPartThrows
  <2> DEFINE q == [o EXCEPT ![p] = b]
  <2>4. p \in DOMAIN q /\ q[p] = b
    BY <1>1
  <2>5. v = Object(q)
    BY <2>2
  <2> HIDE DEF q
  <2>6. Has(v, p) /\ v.object[p] = b
    BY <2>4, <2>5 DEF Has, Is, Object
  <2> QED BY <2>3, <2>6 DEF DetailsThrow, Throws
<1> QED BY <1>2, <1>3, <1>4

-----------------------------------------------------------------------------
(* JSON: the bodies that are read                                           *)

LEMMA BodyReceived ==
    ASSUME ReceiveBody, pc' = "body"
    PROVE  \/ /\ sent' = None
              /\ tick' = [type |-> "account_summary", body |-> Empty(account_summary)]
           \/ \E type \in DOMAIN Flat, x \in Values :
                LET s == Filled(Flat[type], x)
                IN /\ sent' = [type |-> type, body |-> s]
                   /\ tick' = [type |-> type,
                               body |-> IF type = "account_summary" /\ s.PlatformID = 0
                                        THEN Empty(account_summary) ELSE s]
<1>1. ~Thrown
  BY DEF Thrown
<1>2. PICK type \in DOMAIN Flat, x \in Values :
        LET s == Filled(Flat[type], x)
            whole == Said(Flat[type], s)
        IN \E v \in {Object(whole)} \cup Spoilt(whole, DOMAIN whole) :
             /\ sent' = IF v = Object(whole) THEN [type |-> type, body |-> s] ELSE None
             /\ line' = v
             /\ IF Throws(type, v) THEN Thrown
                ELSE pc' = "body" /\ tick' = [type |-> type, body |-> Read(type, v)]
  BY Zenon DEF ReceiveBody
<1> DEFINE s == Filled(Flat[type], x)
           whole == Said(Flat[type], s)
<1>3. PICK v \in {Object(whole)} \cup Spoilt(whole, DOMAIN whole) :
        /\ sent' = IF v = Object(whole) THEN [type |-> type, body |-> s] ELSE None
        /\ ~Throws(type, v) /\ tick' = [type |-> type, body |-> Read(type, v)]
  BY <1>1, <1>2, Zenon
<1>4. IsOf(Flat[type], s)
  BY FilledFits, StructKinds
<1> HIDE DEF s
<1>5. CASE v = Object(whole)
  <2>1. \A k \in DOMAIN Flat[type] : k \in DOMAIN whole /\ WrittenAs(Flat[type][k], s[k], whole[k])
    BY StructWritten
  <2>2. Read(type, v) = IF type = "account_summary" /\ s.PlatformID = 0 THEN Empty(account_summary) ELSE s
    BY <1>4, <1>5, <2>1, FlatRead
  <2>3. sent' = [type |-> type, body |-> s]
    BY <1>3, <1>5, Zenon
  <2> QED BY <1>3, <2>2, <2>3 DEF s
<1>6. CASE v # Object(whole)
  <2>1. v \in Spoilt(whole, DOMAIN whole) /\ sent' = None
    BY <1>3, <1>6, Zenon
  <2>2. type = "account_summary" /\ Read(type, v) = Empty(account_summary)
    BY <1>3, <2>1, FlatSpoilt
  <2> QED BY <1>3, <2>1, <2>2
<1> QED BY <1>5, <1>6

LEMMA DetailsReceived ==
    ASSUME ReceiveDetails, pc' = "body"
    PROVE  \E x \in Values, given \in SUBSET DOMAIN Parts, n \in 0..1 :
             /\ sent' = [type |-> "account_details", body |-> FilledDetails(x, given, n)]
             /\ tick' = sent'
<1>1. ~Thrown
  BY DEF Thrown
<1>2. PICK x \in Values, given \in SUBSET DOMAIN Parts, n \in 0..1 :
        LET s == FilledDetails(x, given, n)
            whole == Object(SaidDetails(s, given))
        IN \E v \in {whole} \cup SpoiltDetails(s, given) :
             /\ sent' = IF v = whole THEN [type |-> "account_details", body |-> s] ELSE None
             /\ line' = v
             /\ IF Throws("account_details", v) THEN Thrown
                ELSE pc' = "body" /\ tick' = [type |-> "account_details", body |-> Read("account_details", v)]
  BY Zenon DEF ReceiveDetails
<1> DEFINE s == FilledDetails(x, given, n)
           whole == Object(SaidDetails(s, given))
<1>3. PICK v \in {whole} \cup SpoiltDetails(s, given) :
        /\ sent' = IF v = whole THEN [type |-> "account_details", body |-> s] ELSE None
        /\ ~Throws("account_details", v)
        /\ tick' = [type |-> "account_details", body |-> Read("account_details", v)]
  BY <1>1, <1>2, Zenon
<1>4. IsDetails(s) /\ \A p \in DOMAIN Parts \ given : s.parts[p] = NoPart(p)
  BY FilledDetailsFit
<1> HIDE DEF s
<1>5. v = whole
  BY <1>3, SpoiltDetailsThrow
<1>6. Read("account_details", whole) = s
  BY <1>4, SaidDetailsRead
<1>7. sent' = [type |-> "account_details", body |-> s] /\ tick' = sent'
  BY <1>3, <1>5, <1>6
<1> QED BY <1>7 DEF s

\* A JSON body means what it says, for any ids, prices and records.
THEOREM BodiesAreTheSent == Spec => []BodyIsTheSent
<1>1. Init => BodyIsTheSent
  BY DEF Init, BodyIsTheSent
<1>2. BodyIsTheSent /\ [Next]_vars => BodyIsTheSent'
  <2> SUFFICES ASSUME BodyIsTheSent, [Next]_vars, pc' = "body", sent' # None, ~UNCHANGED vars
               PROVE  \/ tick' = sent'
                      \/ sent'.type = "account_summary" /\ sent'.body.PlatformID = 0
    BY DEF BodyIsTheSent, vars
  <2>1. CASE ReceiveBody
    <3>1. PICK type \in DOMAIN Flat, x \in Values :
            LET s == Filled(Flat[type], x)
            IN /\ sent' = [type |-> type, body |-> s]
               /\ tick' = [type |-> type,
                           body |-> IF type = "account_summary" /\ s.PlatformID = 0
                                    THEN Empty(account_summary) ELSE s]
      BY <2>1, BodyReceived
    <3> QED BY <3>1
  <2>2. CASE ReceiveDetails
    BY <2>2, DetailsReceived
  <2> QED BY <2>1, <2>2, WhoMakesIt
<1> QED BY <1>1, <1>2, PTL DEF Spec

\* What a body is, from wherever it was read.
Bodies ==
    pc = "body" =>
      /\ tick = [type |-> tick.type, body |-> tick.body]
      /\ \/ /\ tick.type \in DOMAIN Flat
            /\ IsOf(Flat[tick.type], tick.body)
            /\ tick.type = "account_summary" =>
                 tick.body = Empty(account_summary) \/ tick.body.PlatformID # 0
         \/ tick.type = "account_details" /\ IsDetails(tick.body)

LEMMA ReceivedIsBody ==
    ASSUME [Next]_vars, Bodies
    PROVE  Bodies'
<1>1. CASE UNCHANGED vars
  BY <1>1 DEF vars, Bodies
<1>2. CASE pc' = "body" /\ ReceiveBody
  <2>1. IsOf(account_summary, Empty(account_summary)) /\ "account_summary" \in DOMAIN Flat
        /\ Flat["account_summary"] = account_summary
    <3>1. "account_summary" \in DOMAIN Flat /\ Flat["account_summary"] = account_summary
      BY DEF Flat
    <3>2. IsStruct(Flat["account_summary"])
      BY <3>1, StructKinds
    <3> QED BY <3>1, <3>2, EmptyFits
  <2>2. CASE tick' = [type |-> "account_summary", body |-> Empty(account_summary)]
    BY <2>1, <2>2 DEF Bodies
  <2>3. CASE \E type \in DOMAIN Flat, x \in Values :
               LET s == Filled(Flat[type], x)
               IN tick' = [type |-> type,
                           body |-> IF type = "account_summary" /\ s.PlatformID = 0
                                    THEN Empty(account_summary) ELSE s]
    <3>1. PICK type \in DOMAIN Flat, x \in Values :
            tick' = [type |-> type,
                     body |-> IF type = "account_summary" /\ Filled(Flat[type], x).PlatformID = 0
                              THEN Empty(account_summary) ELSE Filled(Flat[type], x)]
      BY <2>3
    <3>2. IsOf(Flat[type], Filled(Flat[type], x))
      BY FilledFits, StructKinds
    <3>3. CASE type = "account_summary" /\ Filled(Flat[type], x).PlatformID = 0
      BY <2>2, <3>1, <3>3
    <3>4. CASE ~(type = "account_summary" /\ Filled(Flat[type], x).PlatformID = 0)
      <4>1. tick' = [type |-> type, body |-> Filled(Flat[type], x)]
        BY <3>1, <3>4
      <4> QED BY <3>2, <3>4, <4>1 DEF Bodies
    <3> QED BY <3>3, <3>4
  <2> QED BY <1>2, <2>2, <2>3, BodyReceived
<1>3. CASE pc' = "body" /\ ReceiveDetails
  <2>1. PICK x \in Values, given \in SUBSET DOMAIN Parts, n \in 0..1 :
          tick' = [type |-> "account_details", body |-> FilledDetails(x, given, n)]
    BY <1>3, DetailsReceived
  <2>2. IsDetails(FilledDetails(x, given, n))
    BY FilledDetailsFit
  <2> QED BY <2>1, <2>2 DEF Bodies
<1>4. CASE pc' # "body"
  BY <1>4 DEF Bodies
<1> QED BY <1>1, <1>2, <1>3, <1>4, WhoMakesIt

\* What is written of a body is read as that body.
LEMMA DumpedIsRead ==
    ASSUME DumpBody, Bodies
    PROVE  reread' = tick
<1> DEFINE type == tick.type
           body == tick.body
<1>1. /\ tick = [type |-> type, body |-> body]
      /\ csv' = Dump(type, body)
      /\ reread' = IF Throws(type, csv') THEN None ELSE [type |-> type, body |-> Read(type, csv')]
      /\ pc = "body"
  BY DEF DumpBody, Bodies
<1>2. CASE /\ type \in DOMAIN Flat /\ IsOf(Flat[type], body)
           /\ type = "account_summary" => body = Empty(account_summary) \/ body.PlatformID # 0
  <2> DEFINE o == ToJson(Flat[type], body)
  <2>1. Dump(type, body) = Object(o)
    <3>1. type # "account_details"
      BY <1>2 DEF Flat
    <3> QED BY <3>1 DEF Dump
  <2>2. \A k \in DOMAIN Flat[type] : k \in DOMAIN o /\ WrittenAs(Flat[type][k], body[k], o[k])
    BY StructWritten
  <2> HIDE DEF o
  <2>3. /\ ~Throws(type, Object(o))
        /\ Read(type, Object(o)) = IF type = "account_summary" /\ body.PlatformID = 0
                                   THEN Empty(account_summary) ELSE body
    BY <1>2, <2>2, FlatRead
  <2>4. Read(type, Object(o)) = body
    BY <1>2, <2>3
  <2> QED BY <1>1, <2>1, <2>3, <2>4
<1>3. CASE type = "account_details" /\ IsDetails(body)
  <2>1. Dump(type, body) = DetailsTo(body)
    BY <1>3 DEF Dump
  <2>2. ~Throws(type, DetailsTo(body)) /\ Read(type, DetailsTo(body)) = body
    BY <1>3, DumpedDetailsRead
  <2> QED BY <1>1, <2>1, <2>2
<1> QED BY <1>1, <1>2, <1>3 DEF Bodies

\* to_json writes what from_json reads, every part and every record.
THEOREM BodiesRoundTrip == Spec => []BodyRoundTrip
<1>1. Init => Bodies /\ BodyRoundTrip
  BY DEF Init, Bodies, BodyRoundTrip
<1>2. Bodies /\ BodyRoundTrip /\ [Next]_vars => Bodies' /\ BodyRoundTrip'
  <2> SUFFICES ASSUME Bodies, BodyRoundTrip, [Next]_vars PROVE Bodies' /\ BodyRoundTrip'
    OBVIOUS
  <2>1. Bodies'
    BY ReceivedIsBody
  <2>2. CASE UNCHANGED vars
    BY <2>1, <2>2 DEF vars, BodyRoundTrip
  <2>3. CASE DumpBody
    BY <2>1, <2>3, DumpedIsRead DEF DumpBody, BodyRoundTrip
  <2>4. CASE pc' # "dumped"
    BY <2>1, <2>4 DEF BodyRoundTrip
  <2> QED BY <2>2, <2>3, <2>4, WhoMakesIt
<1> QED BY <1>1, <1>2, PTL DEF Spec

-----------------------------------------------------------------------------
(* What is spoilt                                                           *)

LEMMA DamagedCandle ==
    ASSUME NEW k, NEW f \in Damaged(Chart(k), {}, {1})
    PROVE  ~CandleParses(f)
<1> DEFINE w == Chart(k)
<1>1. w \in Seq({w[i] : i \in 1..6}) /\ Len(w) = 6 /\ DOMAIN w = 1..6
  BY DEF Chart
<1> HIDE DEF w
<1>2. CASE \E n \in 1..(Len(w) - 1) : f = SubSeq(w, 1, n)
  <2>1. PICK n \in 1..(Len(w) - 1) : f = SubSeq(w, 1, n)
    BY <1>2
  <2>2. Len(f) = n /\ n <= 5
    BY <1>1, <2>1
  <2> QED BY <2>2 DEF CandleParses, ChartFields
<1>3. CASE \E j \in {i \in DOMAIN w : w[i].kind # "word"} \ {6, 10} : f = [w EXCEPT ![j] = Word("?")]
  <2>1. PICK j \in DOMAIN w : f = [w EXCEPT ![j] = Word("?")]
    BY <1>3
  <2>2. ~HasNumber(f[j]) /\ j \in 1..6
    BY <1>1, <2>1 DEF HasNumber, Word
  <2>3. CandleParses(f) => \A i \in 1..6 : HasNumber(f[i])
    BY DEF CandleParses, ChartFields, IsWhole
  <2> QED BY <2>2, <2>3
<1>4. CASE f = [w EXCEPT ![1] = Number(NaN)]
  <2>1. FromChars(f[1]) = NaN
    BY <1>1, <1>4 DEF FromChars, Number
  <2> QED BY <2>1 DEF CandleParses, IsWhole
<1> QED BY <1>2, <1>3, <1>4 DEF Damaged, w

\* Nothing that is spoilt becomes a tick, a candle or a struct; but the summary
\* of platform 0 is one without an account in any case.
THEOREM SpoiltIsThrown == Spec => []BadLinesThrow
<1>1. Init => BadLinesThrow
  BY DEF Init, BadLinesThrow
<1>2. BadLinesThrow /\ [Next]_vars => BadLinesThrow'
  <2> SUFFICES ASSUME BadLinesThrow, [Next]_vars, ~UNCHANGED vars, sent' = None,
                      pc' \in {"tick", "prices", "candle", "body"}
               PROVE  /\ pc' = "body"
                      /\ tick' = [type |-> "account_summary", body |-> Empty(account_summary)]
    BY DEF BadLinesThrow, vars
  <2>1. ~Thrown
    BY DEF Thrown
  <2>2. DOMAIN sent' = {"none"} /\ ~ReceiveAlteredTick /\ ~ReceiveAlteredCandle
    BY AlteredIsSaid DEF None, LineAltered
  <2>3. ASSUME pc' = "tick" PROVE FALSE
    <3>1. CASE ReceiveTick
      <4>1. tick' = sent' /\ IsTick(tick')
        BY <2>3, <3>1, TickReceived, ReceivedIsTick
      <4>2. "bid" \in DOMAIN tick'
        BY <4>1 DEF IsTick
      <4> QED BY <2>2, <4>1, <4>2
    <3>2. CASE ReceiveBadTick
      BY <2>1, <3>2, DamagedLine, Zenon DEF ReceiveBadTick
    <3> QED BY <2>2, <2>3, <3>1, <3>2, WhoMakesIt
  <2>4. ASSUME pc' = "prices" PROVE FALSE
    <3>1. ReceivePrices
      BY <2>4, WhoMakesIt
    <3>2. PICK at, now, d : sent' = [at |-> at, now |-> now, prices |-> d]
      BY <3>1, Zenon DEF ReceivePrices
    <3> QED BY <2>2, <3>2
  <2>5. ASSUME pc' = "candle" PROVE FALSE
    <3>1. ReceiveCandle
      BY <2>2, <2>5, WhoMakesIt
    <3>2. PICK s \in CandleTimes, o \in Prices, h \in Prices, l \in Prices, c \in Prices, v \in Prices :
            LET k == [timestamp |-> s, open |-> o, high |-> h, low |-> l, close |-> c, volume |-> v]
            IN \/ /\ sent' = k /\ line' = Chart(k)
                  /\ IF CandleParses(Chart(k)) THEN pc' = "candle" /\ tick' = parse_candle(Chart(k)) ELSE Thrown
               \/ \E f \in Damaged(Chart(k), {}, {1}) :
                    /\ sent' = None /\ line' = f
                    /\ IF CandleParses(f) THEN pc' = "candle" /\ tick' = parse_candle(f) ELSE Thrown
      BY <3>1, Zenon DEF ReceiveCandle
    <3> DEFINE k == [timestamp |-> s, open |-> o, high |-> h, low |-> l, close |-> c, volume |-> v]
    <3>3. CASE sent' = k
      <4>1. "open" \in DOMAIN k
        OBVIOUS
      <4> QED BY <2>2, <3>3, <4>1
    <3>4. CASE \E f \in Damaged(Chart(k), {}, {1}) : CandleParses(f)
      BY <3>4, DamagedCandle
    <3>5. sent' = k \/ \E f \in Damaged(Chart(k), {}, {1}) : CandleParses(f)
      BY <2>1, <3>2, Zenon
    <3> QED BY <3>3, <3>4, <3>5
  <2>6. CASE pc' = "body"
    <3>1. CASE ReceiveBody
      <4>1. ASSUME NEW type, NEW s, sent' = [type |-> type, body |-> s] PROVE FALSE
        BY <2>2, <4>1
      <4> QED BY <2>6, <3>1, <4>1, BodyReceived
    <3>2. CASE ReceiveDetails
      <4>1. PICK s : sent' = [type |-> "account_details", body |-> s]
        BY <2>6, <3>2, DetailsReceived
      <4> QED BY <2>2, <4>1
    <3> QED BY <2>6, <3>1, <3>2, WhoMakesIt
  <2> QED BY <2>3, <2>4, <2>5, <2>6
<1> QED BY <1>1, <1>2, PTL DEF Spec

-----------------------------------------------------------------------------
(* What is altered                                                          *)

\* Every field of a tick is made of one field of the line.
LEMMA FieldByField ==
    ASSUME NEW f, NEW g, NEW now
    PROVE  LET r == parse_td_tick(f, g, now)
           IN /\ r.quote_id = FromChars(f[1]) /\ r.bid = FromChars(f[2])
              /\ r.ask = FromChars(f[3]) /\ r.daily_change = FromChars(f[4])
              /\ r.dir = DirectionOf(f[5].w) /\ r.high = FromChars(f[7])
              /\ r.low = FromChars(f[8]) /\ r.hash = f[9].w /\ r.mid_price = FromChars(f[11])
              /\ r.timestamp = UnixTime(FromChars(f[12])) /\ r.field13 = FromChars(f[13])
              /\ r.tradable = (f[6] = Number(1)) /\ r.call_only = (f[10] = Number(1))
BY DEF parse_td_tick

\* The tick of a line that differs in one field differs in the field of that
\* name.
LEMMA OthersStay ==
    ASSUME NEW f, NEW w, NEW i \in 1..13, \A j \in 1..13 : j # i => f[j] = w[j],
           NEW g, NEW now, NEW k \in 1..13, k # i
    PROVE  parse_td_tick(f, g, now)[WireNames[k]] = parse_td_tick(w, g, now)[WireNames[k]]
<1> DEFINE r == parse_td_tick(f, g, now)
           q == parse_td_tick(w, g, now)
<1>1. f[k] = w[k]
  OBVIOUS
<1>2. CASE k \in {1, 2, 3, 4, 5, 7, 8, 9, 11, 12, 13}
  BY <1>1, <1>2, FieldByField DEF WireNames
<1>3. CASE k = 6
  <2>1. r.tradable = (f[6] = Number(1)) /\ q.tradable = (w[6] = Number(1))
    BY FieldByField
  <2>2. f[6] = w[6] /\ WireNames[k] = "tradable"
    BY <1>1, <1>3 DEF WireNames
  <2>3. r.tradable = q.tradable
    BY <2>1, <2>2, Zenon
  <2> QED BY <2>2, <2>3, Zenon
<1>4. CASE k = 10
  <2>1. r.call_only = (f[10] = Number(1)) /\ q.call_only = (w[10] = Number(1))
    BY FieldByField
  <2>2. f[10] = w[10] /\ WireNames[k] = "call_only"
    BY <1>1, <1>4 DEF WireNames
  <2>3. r.call_only = q.call_only
    BY <2>1, <2>2, Zenon
  <2> QED BY <2>2, <2>3, Zenon
<1> QED BY <1>2, <1>3, <1>4

LEMMA AlteredTickLocal ==
    ASSUME ReceiveAlteredTick, pc' = "tick"
    PROVE  /\ \A x \in DOMAIN sent'.meant \ {sent'.damaged} : tick'[x] = sent'.meant[x]
           /\ tick'[sent'.damaged] = sent'.left
<1>1. PICK p \in Prices, at \in Times, now \in Clocks, g \in Groupings, i \in 1..13 \ {9} :
        \E b \in Altered(Wire(PriceTick(p, at))[i], WireNames[i], PriceTick(p, at)[WireNames[i]]) :
          LET f == [Wire(PriceTick(p, at)) EXCEPT ![i] = b[1]]
          IN /\ sent' = [damaged |-> WireNames[i], meant |-> PriceTick(p, at), left |-> b[2]]
             /\ WireParses(f) /\ tick' = parse_td_tick(f, g, now)
  BY AlteredTickMade, Zenon
<1> DEFINE t == PriceTick(p, at)
           w == Wire(t)
<1>2. PICK b \in Altered(w[i], WireNames[i], t[WireNames[i]]) :
        LET f == [w EXCEPT ![i] = b[1]]
        IN /\ sent' = [damaged |-> WireNames[i], meant |-> t, left |-> b[2]]
           /\ WireParses(f) /\ tick' = parse_td_tick(f, g, now)
  BY <1>1
<1> DEFINE f == [w EXCEPT ![i] = b[1]]
           q == parse_td_tick(w, g, now)
<1>3. /\ DOMAIN w = 1..13
      /\ t.timestamp = at
      /\ w[1] = Number(t.quote_id) /\ w[13] = Number(t.field13)
      /\ \A j \in PriceFields : w[j] = Number(t[WireNames[j]])
      /\ w[12].kind = "number"
  BY PriceLine
<1>4. /\ t.dir \in Directions /\ t.tradable \in BOOLEAN /\ t.call_only \in BOOLEAN
      /\ DOMAIN t = {"quote_id", "bid", "ask", "daily_change", "dir", "tradable", "high", "low",
                     "hash", "call_only", "mid_price", "timestamp", "field13"}
  BY DEF PriceTick, Directions
<1> HIDE DEF t
<1>5. \A x \in DOMAIN t : q[x] = t[x]
  <2>1. q = [quote_id |-> t.quote_id, bid |-> t.bid, ask |-> t.ask,
             daily_change |-> t.daily_change, dir |-> t.dir, tradable |-> t.tradable,
             high |-> t.high, low |-> t.low, hash |-> t.hash, call_only |-> t.call_only,
             mid_price |-> t.mid_price, timestamp |-> t.timestamp, field13 |-> t.field13,
             group |-> g, latency |-> now - t.timestamp]
    BY <1>3, <1>4, WireIsParsed
  <2> HIDE DEF q
  <2> QED BY <1>4, <2>1
<1>6. f[i] = b[1] /\ \A j \in 1..13 : j # i => f[j] = w[j]
  BY <1>3
<1>7. /\ tick' = parse_td_tick(f, g, now)
      /\ sent'.damaged = WireNames[i] /\ sent'.meant = t /\ sent'.left = b[2]
  BY <1>2
<1> HIDE DEF f, w
<1>8. \A k \in 1..13 : k # i => tick'[WireNames[k]] = q[WireNames[k]]
  BY <1>6, <1>7, OthersStay
<1> HIDE DEF q
<1>9. \A x \in DOMAIN t \ {WireNames[i]} : tick'[x] = t[x]
  <2>1. \A x \in DOMAIN t : \E k \in 1..13 : x = WireNames[k]
    BY <1>4 DEF WireNames
  <2> QED BY <1>5, <1>8, <2>1
<1>11. i \in 1..13 /\ b \in Altered(w[i], WireNames[i], t[WireNames[i]])
  OBVIOUS
<1>10. tick'[WireNames[i]] = b[2]
  <2>1. CASE i \in {6, 10}
    <3>1. b[1] # Number(1) /\ b[2] = FALSE
      BY <1>11, <2>1, AlteredFlag, ZenonT(60)
    <3>2. (f[i] = Number(1)) = FALSE
      BY <1>6, <3>1
    <3>3. tick'.tradable = (f[6] = Number(1)) /\ tick'.call_only = (f[10] = Number(1))
      BY <1>7, FieldByField
    <3>4. WireNames[6] = "tradable" /\ WireNames[10] = "call_only"
      BY DEF WireNames
    <3> QED BY <2>1, <3>1, <3>2, <3>3, <3>4
  <2>2. CASE i = 5
    <3>1. DirectionOf(b[1].w) = b[2]
      BY <1>2, <2>2, AlteredField
    <3> QED BY <1>6, <1>7, <2>2, <3>1, FieldByField DEF WireNames
  <2>3. CASE i \in PriceFields \cup {1, 13}
    <3>1. w[i] = Number(t[WireNames[i]])
      BY <1>3, <2>3 DEF WireNames
    <3>5. FromChars(b[1]) = b[2]
      BY <1>11, <2>3, <3>1, AlteredField DEF Number, PriceFields
    <3>2. FromChars(f[i]) = b[2]
      BY <1>6, <3>5
    <3> QED BY <1>7, <2>3, <3>2, FieldByField DEF WireNames, PriceFields
  <2>4. CASE i = 12
    <3>1. WireNames[12] = "timestamp"
      BY DEF WireNames
    <3>2. FromChars(f[12]) = FromChars(w[12]) /\ b[2] = t.timestamp
      BY <1>2, <1>3, <1>6, <2>4, <3>1, AlteredField
    <3>3. tick'.timestamp = q.timestamp
      BY <1>7, <3>2, FieldByField DEF q
    <3> QED BY <1>4, <1>5, <2>4, <3>1, <3>2, <3>3
  <2> QED BY <2>1, <2>2, <2>3, <2>4 DEF PriceFields
<1> QED BY <1>7, <1>9, <1>10

LEMMA AlteredCandleLocal ==
    ASSUME ReceiveAlteredCandle, pc' = "candle"
    PROVE  /\ \A x \in DOMAIN sent'.meant \ {sent'.damaged} :
                tick'[x] = sent'.meant[x] \/ x = "timestamp"
           /\ tick'[sent'.damaged] = sent'.left
<1>1. ~Thrown
  BY DEF Thrown
<1>2. PICK s \in CandleTimes, o \in Prices, h \in Prices, l \in Prices, c \in Prices, v \in Prices,
           i \in 2..ChartFields :
        LET k == [timestamp |-> s, open |-> o, high |-> h, low |-> l, close |-> c, volume |-> v]
            x == ChartNames[i]
        IN \E b \in Altered(Chart(k)[i], x, k[x]) :
             LET f == [Chart(k) EXCEPT ![i] = b[1]] IN
             /\ sent' = [damaged |-> x, meant |-> k, left |-> b[2]]
             /\ line' = f
             /\ IF CandleParses(f) THEN pc' = "candle" /\ tick' = parse_candle(f) ELSE Thrown
  BY Zenon DEF ReceiveAlteredCandle
<1> DEFINE k == [timestamp |-> s, open |-> o, high |-> h, low |-> l, close |-> c, volume |-> v]
           w == Chart(k)
<1>3. PICK b \in Altered(w[i], ChartNames[i], k[ChartNames[i]]) :
        LET f == [w EXCEPT ![i] = b[1]]
        IN /\ sent' = [damaged |-> ChartNames[i], meant |-> k, left |-> b[2]]
           /\ tick' = parse_candle(f)
  BY <1>1, <1>2
<1> DEFINE f == [w EXCEPT ![i] = b[1]]
<1>4. DOMAIN w = 1..6 /\ \A j \in 2..6 : w[j] = Number(k[ChartNames[j]])
  BY DEF Chart, ChartNames
<1>5. \A n : FromChars(Number(n)) = n /\ FromChars(Trailed(n)) = n /\ Number(n).n = n
  BY DEF FromChars, Number, Trailed
<1>6. DOMAIN k = {"timestamp", "open", "high", "low", "close", "volume"}
  OBVIOUS
<1>7. i \in 2..6
  BY DEF ChartFields
<1>8. sent'.damaged = ChartNames[i] /\ sent'.meant = k /\ sent'.left = b[2] /\ tick' = parse_candle(f)
  BY <1>3
<1>9. f[i] = b[1] /\ \A j \in 1..6 : j # i => f[j] = w[j]
  BY <1>4, <1>7
<1> HIDE DEF k, w, f
<1>10. FromChars(f[i]) = b[2]
  <2>1. ChartNames[i] \in {"open", "high", "low", "close", "volume"}
    BY <1>7 DEF ChartNames
  <2>2. \/ b = <<Trailed(w[i].n), k[ChartNames[i]]>>
        \/ \E n : b = <<Number(n), n>>
    BY <1>3, <2>1 DEF Altered
  <2> QED BY <1>4, <1>5, <1>7, <1>9, <2>2
<1>11. \A j \in 2..6 : tick'[ChartNames[j]] = FromChars(f[j])
  BY <1>8 DEF parse_candle, ChartNames
<1>12. \A j \in 2..6 : j # i => tick'[ChartNames[j]] = k[ChartNames[j]]
  BY <1>4, <1>5, <1>9, <1>11
<1>13. \A x \in DOMAIN k : x = "timestamp" \/ \E j \in 2..6 : x = ChartNames[j]
  BY <1>6 DEF ChartNames
<1> QED BY <1>7, <1>8, <1>10, <1>11, <1>12, <1>13

\* What is wrong with a line that is not refused does not spread: it is in the
\* field of the tick or the candle where it was in the line.
THEOREM DamageIsLocal == Spec => []DamageStaysInItsField
<1>1. Init => DamageStaysInItsField
  BY DEF Init, DamageStaysInItsField
<1>2. DamageStaysInItsField /\ [Next]_vars => DamageStaysInItsField'
  <2> SUFFICES ASSUME DamageStaysInItsField, [Next]_vars PROVE DamageStaysInItsField'
    OBVIOUS
  <2>1. CASE UNCHANGED vars
    BY <2>1 DEF vars, DamageStaysInItsField, LineAltered
  <2>2. CASE pc' = "tick" /\ ~UNCHANGED vars
    <3>1. CASE ReceiveAlteredTick
      BY <2>2, <3>1, AlteredTickLocal DEF DamageStaysInItsField
    <3>2. CASE ReceiveTick
      <4>1. IsTick(sent')
        BY <2>2, <3>2, TickReceived, ReceivedIsTick
      <4>2. ~LineAltered'
        BY <4>1 DEF LineAltered, IsTick
      <4> QED BY <4>2 DEF DamageStaysInItsField
    <3>3. CASE ReceiveBadTick
      <4>1. sent' = None
        BY <3>3 DEF ReceiveBadTick
      <4> QED BY <4>1 DEF DamageStaysInItsField, LineAltered, None
    <3> QED BY <2>2, <3>1, <3>2, <3>3, WhoMakesIt
  <2>3. CASE pc' = "candle" /\ ~UNCHANGED vars
    <3>1. CASE ReceiveAlteredCandle
      BY <2>3, <3>1, AlteredCandleLocal DEF DamageStaysInItsField
    <3>2. CASE ReceiveCandle
      <4>3. PICK s \in CandleTimes, o \in Prices, h \in Prices, l \in Prices, c \in Prices, v \in Prices :
              LET k == [timestamp |-> s, open |-> o, high |-> h, low |-> l, close |-> c, volume |-> v]
              IN \/ /\ sent' = k /\ line' = Chart(k)
                    /\ IF CandleParses(Chart(k)) THEN pc' = "candle" /\ tick' = parse_candle(Chart(k)) ELSE Thrown
                 \/ \E f \in Damaged(Chart(k), {}, {1}) :
                      /\ sent' = None /\ line' = f
                      /\ IF CandleParses(f) THEN pc' = "candle" /\ tick' = parse_candle(f) ELSE Thrown
        BY <3>2, Zenon DEF ReceiveCandle
      <4>1. \/ sent' = None
            \/ sent' = [timestamp |-> s, open |-> o, high |-> h, low |-> l, close |-> c, volume |-> v]
        BY <4>3, Zenon
      <4>2. ~LineAltered'
        BY <4>1 DEF LineAltered, None
      <4> QED BY <4>2 DEF DamageStaysInItsField
    <3> QED BY <2>3, <3>1, <3>2, WhoMakesIt
  <2>4. CASE pc' \notin {"tick", "candle"}
    BY <2>4 DEF DamageStaysInItsField
  <2> QED BY <2>1, <2>2, <2>3, <2>4
<1> QED BY <1>1, <1>2, PTL DEF Spec

=============================================================================
