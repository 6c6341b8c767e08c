------------------------- MODULE ImageTransferProofs -------------------------
(***************************************************************************)
(* The transfer, for every setup a sender can be in: any file, codec and   *)
(* frame that the assumption allows.  First the codecs: what is encoded is *)
(* decoded.  Then the task: what is kept is what was sent, as long as a    *)
(* frame that passes its CRC was.  Then the image: what is drawn, sent and *)
(* seen right is read, at the centres of a calibration or in the tiles.    *)
(* Last the CRC: what it tells of a frame that is seen wrong in one cell.  *)
(***************************************************************************)
EXTENDS ImageTransfer, FiniteSetTheorems, SequenceTheorems, WellFoundedInduction, TLAPS

-----------------------------------------------------------------------------
(* Bytes, words and their exclusive or.                                    *)

(* A byte is the sum of its eight bits.                                    *)
LEMMA ByteBits ==
  ASSUME NEW v \in Byte
  PROVE  /\ v = ((v \div 128) % 2) * 128 + ((v \div 64) % 2) * 64 + ((v \div 32) % 2) * 32 + ((v \div 16) % 2) * 16
                + ((v \div 8) % 2) * 8 + ((v \div 4) % 2) * 4 + ((v \div 2) % 2) * 2 + ((v \div 1) % 2)
         /\ v = ((v \div 64) % 4) * 64 + ((v \div 16) % 4) * 16 + ((v \div 4) % 4) * 4 + ((v \div 1) % 4)
BY DEF Byte

(* The exclusive or of two bytes, and below of two words, is one.          *)
LEMMA XorByteType == \A v, w : XorByte(v, w) \in Byte
BY DEF XorByte, Byte

(* A bit that differs, and differs again, is what it was.                  *)
Differ(v, w, p) == IF (v \div p) % 2 = (w \div p) % 2 THEN 0 ELSE 1

(* Exclusive or with the same byte twice gives the byte back.              *)
LEMMA XorTwice ==
  ASSUME NEW v \in Byte, NEW w \in Byte
  PROVE  XorByte(XorByte(v, w), w) = v
<1> DEFINE x == XorByte(v, w)
           P == {1, 2, 4, 8, 16, 32, 64, 128}
<1>1. x = Differ(v, w, 1) + Differ(v, w, 2) * 2 + Differ(v, w, 4) * 4 + Differ(v, w, 8) * 8
          + Differ(v, w, 16) * 16 + Differ(v, w, 32) * 32 + Differ(v, w, 64) * 64 + Differ(v, w, 128) * 128
  BY DEF XorByte, Differ
<1>2. x \in Nat
  BY XorByteType DEF Byte
<1>4. \A p \in P : (x \div p) % 2 = Differ(v, w, p)
  <2> HIDE DEF x
  <2>1. /\ (x \div 1) % 2 = Differ(v, w, 1) /\ (x \div 2) % 2 = Differ(v, w, 2)
        /\ (x \div 4) % 2 = Differ(v, w, 4) /\ (x \div 8) % 2 = Differ(v, w, 8)
        /\ (x \div 16) % 2 = Differ(v, w, 16) /\ (x \div 32) % 2 = Differ(v, w, 32)
        /\ (x \div 64) % 2 = Differ(v, w, 64) /\ (x \div 128) % 2 = Differ(v, w, 128)
    <3>1. /\ Differ(v, w, 1) \in {0, 1} /\ Differ(v, w, 2) \in {0, 1} /\ Differ(v, w, 4) \in {0, 1}
          /\ Differ(v, w, 8) \in {0, 1} /\ Differ(v, w, 16) \in {0, 1} /\ Differ(v, w, 32) \in {0, 1}
          /\ Differ(v, w, 64) \in {0, 1} /\ Differ(v, w, 128) \in {0, 1}
      BY DEF Differ
    <3> DEFINE b0 == Differ(v, w, 1)  b1 == Differ(v, w, 2)  b2 == Differ(v, w, 4)  b3 == Differ(v, w, 8)
               b4 == Differ(v, w, 16)  b5 == Differ(v, w, 32)  b6 == Differ(v, w, 64)  b7 == Differ(v, w, 128)
    <3>2. x = b0 + b1 * 2 + b2 * 4 + b3 * 8 + b4 * 16 + b5 * 32 + b6 * 64 + b7 * 128
      BY <1>1
    <3> HIDE DEF b0, b1, b2, b3, b4, b5, b6, b7
    <3>3. b0 \in {0, 1} /\ b1 \in {0, 1} /\ b2 \in {0, 1} /\ b3 \in {0, 1}
          /\ b4 \in {0, 1} /\ b5 \in {0, 1} /\ b6 \in {0, 1} /\ b7 \in {0, 1}
      BY <3>1 DEF b0, b1, b2, b3, b4, b5, b6, b7
    <3>4. /\ (x \div 1) % 2 = b0 /\ (x \div 2) % 2 = b1 /\ (x \div 4) % 2 = b2 /\ (x \div 8) % 2 = b3
          /\ (x \div 16) % 2 = b4 /\ (x \div 32) % 2 = b5 /\ (x \div 64) % 2 = b6 /\ (x \div 128) % 2 = b7
      BY <1>2, <3>2, <3>3
    <3>. QED
      BY <3>4 DEF b0, b1, b2, b3, b4, b5, b6, b7
  <2>. QED
    BY <2>1
<1>5. \A p \in P : (v \div p) % 2 \in {0, 1} /\ (w \div p) % 2 \in {0, 1}
  BY DEF Byte
<1>6. \A p \in P : (IF (x \div p) % 2 = (w \div p) % 2 THEN 0 ELSE p) = ((v \div p) % 2) * p
  BY <1>4, <1>5 DEF Differ
<1>7. XorByte(x, w) = ((v \div 1) % 2) * 1 + ((v \div 2) % 2) * 2 + ((v \div 4) % 2) * 4 + ((v \div 8) % 2) * 8
         + ((v \div 16) % 2) * 16 + ((v \div 32) % 2) * 32 + ((v \div 64) % 2) * 64 + ((v \div 128) % 2) * 128
  <2> HIDE DEF x
  <2>. QED
    BY <1>6 DEF XorByte
<1>. QED
  BY <1>7, <1>5, ByteBits

(* The halves of a word, for comparing: the provers enumerate a constant   *)
(* interval, and this one is long.                                         *)
LEMMA HalfIs == \A n : n \in Half <=> n \in Int /\ 0 <= n /\ n <= 65535
<1> DEFINE top == 65535
<1>1. Half = 0 .. top
  BY DEF Half
<1>2. top = 65535
  OBVIOUS
<1>3. top \in Nat
  OBVIOUS
<1> HIDE DEF top
<1>4. \A n : n \in Half <=> n \in Int /\ 0 <= n /\ n <= top
  BY <1>1, <1>3
<1>. QED
  BY <1>2, <1>4

(* The exclusive or of two halves of a word is a half.                     *)
LEMMA XorHalfType ==
  ASSUME NEW v, NEW w
  PROVE  XorHalf(v, w) \in Half
<1>1. ASSUME NEW a \in Byte, NEW c \in Byte PROVE a + 256 * c \in Half
  <2>1. a \in Int /\ c \in Int /\ 0 <= a /\ a <= 255 /\ 0 <= c /\ c <= 255
    BY DEF Byte
  <2>. QED
    BY <2>1, HalfIs
<1>. QED
  BY <1>1, XorByteType DEF XorHalf

-----------------------------------------------------------------------------
(* std::vector::resize: the elements there are, then zeros.                *)
LEMMA ResizedType ==
  ASSUME NEW S, NEW s \in Seq(S), 0 \in S, NEW n \in Nat
  PROVE  Resized(s, n) \in Seq(S) /\ Len(Resized(s, n)) = n
         /\ \A i \in 1 .. n : Resized(s, n)[i] = IF i <= Len(s) THEN s[i] ELSE 0
<1>1. \A i \in 1 .. n : (IF i <= Len(s) THEN s[i] ELSE 0) \in S
  BY ElementOfSeq
<1>2. Resized(s, n) \in [1 .. n -> S]
  BY <1>1 DEF Resized
<1>. QED
  BY <1>2, SeqDef, LenProperties DEF Resized

(* Encryption makes bytes of bytes,                                        *)
LEMMA EncryptType ==
  ASSUME NEW bytes \in Seq(Byte)
  PROVE  /\ encrypt_bytes(bytes) \in Seq(Byte) /\ Len(encrypt_bytes(bytes)) = Len(bytes)
         /\ \A i \in 1 .. Len(bytes) : encrypt_bytes(bytes)[i] = XorByte(bytes[Len(bytes) + 1 - i], 170)
<1>1. DOMAIN bytes = 1 .. Len(bytes) /\ Len(bytes) \in Nat
  BY LenProperties
<1>2. encrypt_bytes(bytes) \in [1 .. Len(bytes) -> Byte]
  BY <1>1, XorByteType DEF encrypt_bytes
<1>. QED
  BY <1>1, <1>2, SeqDef, LenProperties DEF encrypt_bytes

(* ... and done twice gives them back.                                     *)
LEMMA EncryptTwice ==
  ASSUME NEW bytes \in Seq(Byte)
  PROVE  encrypt_bytes(encrypt_bytes(bytes)) = bytes
<1> DEFINE e == encrypt_bytes(bytes)
           n == Len(bytes)
<1>1. e \in Seq(Byte) /\ Len(e) = n /\ \A i \in 1 .. n : e[i] = XorByte(bytes[n + 1 - i], 170)
  BY EncryptType
<1>2. n \in Nat /\ \A i \in 1 .. n : bytes[i] \in Byte
  BY LenProperties, ElementOfSeq
<1>3. /\ encrypt_bytes(e) \in Seq(Byte) /\ Len(encrypt_bytes(e)) = n
      /\ \A i \in 1 .. n : encrypt_bytes(e)[i] = XorByte(e[n + 1 - i], 170)
  <2> HIDE DEF e
  <2>. QED
    BY <1>1, EncryptType
<1>4. ASSUME NEW i \in 1 .. n
      PROVE  encrypt_bytes(e)[i] = bytes[i]
  <2>1. n + 1 - i \in 1 .. n /\ n + 1 - (n + 1 - i) = i
    BY <1>2
  <2>2. e[n + 1 - i] = XorByte(bytes[i], 170)
    BY <1>1, <2>1
  <2>3. bytes[i] \in Byte /\ 170 \in Byte
    BY <1>2 DEF Byte
  <2>. QED
    BY <1>3, <2>2, <2>3, XorTwice
<1>. QED
  BY <1>3, <1>4, SeqEqual

-----------------------------------------------------------------------------
(* A rounded-up division that comes out even.                              *)
LEMMA CeilDivExact ==
  ASSUME NEW n \in Nat
  PROVE  CeilDiv(8 * n, 8) = n /\ CeilDiv(4 * n, 4) = n
BY DEF CeilDiv

(* The one-bit codec: a byte is eight symbols, and they are the byte.      *)
LEMMA Symbols1 ==
  ASSUME NEW bytes \in Seq(Byte)
  PROVE  /\ BytesToSymbols1(bytes) \in Seq(0 .. 1) /\ Len(BytesToSymbols1(bytes)) = 8 * Len(bytes)
         /\ SymbolsToBytes1(BytesToSymbols1(bytes)) = bytes
<1> DEFINE n == Len(bytes)
           s == BytesToSymbols1(bytes)
           w == <<128, 64, 32, 16, 8, 4, 2, 1>>
<1>1. n \in Nat /\ DOMAIN bytes = 1 .. n /\ \A i \in 1 .. n : bytes[i] \in Byte
  BY LenProperties, ElementOfSeq
<1>2. ASSUME NEW j \in 1 .. 8 * n
      PROVE  (j - 1) \div 8 + 1 \in 1 .. n /\ ((j - 1) % 8) + 1 \in 1 .. 8
  BY <1>1
<1>3. s \in [1 .. 8 * n -> 0 .. 1]
  <2>1. \A k \in 1 .. 8 : w[k] \in Nat \ {0}
    OBVIOUS
  <2>2. \A v \in Byte, p \in Nat \ {0} : (v \div p) % 2 \in 0 .. 1
    BY DEF Byte
  <2>. QED
    BY <1>1, <1>2, <2>1, <2>2 DEF BytesToSymbols1
<1>4. s \in Seq(0 .. 1) /\ Len(s) = 8 * n
  BY <1>1, <1>3, SeqDef, LenProperties
<1>5. ASSUME NEW i \in 1 .. n, NEW k \in 0 .. 7
      PROVE  s[8 * (i - 1) + k + 1] = (bytes[i] \div w[k + 1]) % 2
  <2> DEFINE j == 8 * (i - 1) + k + 1
  <2>1. j \in 1 .. 8 * n /\ (j - 1) \div 8 + 1 = i /\ ((j - 1) % 8) + 1 = k + 1
    BY <1>1
  <2>. QED
    BY <2>1 DEF BytesToSymbols1
<1>6. CeilDiv(8 * n, 8) = n
  BY <1>1, CeilDivExact
<1>7. ASSUME NEW i \in 1 .. n
      PROVE  SymbolsToBytes1(s)[i] = bytes[i]
  <2> DEFINE v == bytes[i]
  <2>1. v \in Byte
    BY <1>1
  <2> HIDE DEF v
  <2>2. /\ s[8 * (i - 1) + 0 + 1] % 2 = (v \div 128) % 2 /\ s[8 * (i - 1) + 1 + 1] % 2 = (v \div 64) % 2
        /\ s[8 * (i - 1) + 2 + 1] % 2 = (v \div 32) % 2 /\ s[8 * (i - 1) + 3 + 1] % 2 = (v \div 16) % 2
        /\ s[8 * (i - 1) + 4 + 1] % 2 = (v \div 8) % 2 /\ s[8 * (i - 1) + 5 + 1] % 2 = (v \div 4) % 2
        /\ s[8 * (i - 1) + 6 + 1] % 2 = (v \div 2) % 2 /\ s[8 * (i - 1) + 7 + 1] % 2 = (v \div 1) % 2
    <3>1. \A k \in 0 .. 7 : s[8 * (i - 1) + k + 1] = (v \div w[k + 1]) % 2
      BY <1>5 DEF v
    <3> HIDE DEF s
    <3>2. /\ s[8 * (i - 1) + 0 + 1] = (v \div 128) % 2 /\ s[8 * (i - 1) + 1 + 1] = (v \div 64) % 2
          /\ s[8 * (i - 1) + 2 + 1] = (v \div 32) % 2 /\ s[8 * (i - 1) + 3 + 1] = (v \div 16) % 2
          /\ s[8 * (i - 1) + 4 + 1] = (v \div 8) % 2 /\ s[8 * (i - 1) + 5 + 1] = (v \div 4) % 2
          /\ s[8 * (i - 1) + 6 + 1] = (v \div 2) % 2 /\ s[8 * (i - 1) + 7 + 1] = (v \div 1) % 2
      BY <3>1
    <3>3. /\ ((v \div 128) % 2) % 2 = (v \div 128) % 2 /\ ((v \div 64) % 2) % 2 = (v \div 64) % 2
          /\ ((v \div 32) % 2) % 2 = (v \div 32) % 2 /\ ((v \div 16) % 2) % 2 = (v \div 16) % 2
          /\ ((v \div 8) % 2) % 2 = (v \div 8) % 2 /\ ((v \div 4) % 2) % 2 = (v \div 4) % 2
          /\ ((v \div 2) % 2) % 2 = (v \div 2) % 2 /\ ((v \div 1) % 2) % 2 = (v \div 1) % 2
      BY <2>1 DEF Byte
    <3>. QED
      BY <3>2, <3>3
  <2>3. SymbolsToBytes1(s)[i] =
           ((v \div 128) % 2) * 128 + ((v \div 64) % 2) * 64 + ((v \div 32) % 2) * 32 + ((v \div 16) % 2) * 16
           + ((v \div 8) % 2) * 8 + ((v \div 4) % 2) * 4 + ((v \div 2) % 2) * 2 + ((v \div 1) % 2)
    <3> HIDE DEF s
    <3>. QED
      BY <1>4, <1>6, <2>2 DEF SymbolsToBytes1
  <2>. QED
    BY <2>1, <2>3, ByteBits DEF v
<1>8. SymbolsToBytes1(s) \in [1 .. n -> Byte]
  <2>1. SymbolsToBytes1(s) = [i \in 1 .. n |-> SymbolsToBytes1(s)[i]]
    BY <1>4, <1>6 DEF SymbolsToBytes1
  <2>. QED
    BY <1>1, <1>7, <2>1
<1>9. SymbolsToBytes1(s) = bytes
  BY <1>1, <1>7, <1>8
<1>. QED
  BY <1>4, <1>9

(* The two-bit codec: four symbols a byte.                                 *)
LEMMA Symbols2 ==
  ASSUME NEW bytes \in Seq(Byte)
  PROVE  /\ BytesToSymbols2(bytes) \in Seq(0 .. 3) /\ Len(BytesToSymbols2(bytes)) = 4 * Len(bytes)
         /\ SymbolsToBytes2(BytesToSymbols2(bytes)) = bytes
<1> DEFINE n == Len(bytes)
           s == BytesToSymbols2(bytes)
           w == <<64, 16, 4, 1>>
<1>1. n \in Nat /\ DOMAIN bytes = 1 .. n /\ \A i \in 1 .. n : bytes[i] \in Byte
  BY LenProperties, ElementOfSeq
<1>2. ASSUME NEW j \in 1 .. 4 * n
      PROVE  (j - 1) \div 4 + 1 \in 1 .. n /\ ((j - 1) % 4) + 1 \in 1 .. 4
  BY <1>1
<1>3. s \in [1 .. 4 * n -> 0 .. 3]
  <2>1. \A k \in 1 .. 4 : w[k] \in Nat \ {0}
    OBVIOUS
  <2>2. \A v \in Byte, p \in Nat \ {0} : (v \div p) % 4 \in 0 .. 3
    BY DEF Byte
  <2>. QED
    BY <1>1, <1>2, <2>1, <2>2 DEF BytesToSymbols2
<1>4. s \in Seq(0 .. 3) /\ Len(s) = 4 * n
  BY <1>1, <1>3, SeqDef, LenProperties
<1>5. ASSUME NEW i \in 1 .. n, NEW k \in 0 .. 3
      PROVE  s[4 * (i - 1) + k + 1] = (bytes[i] \div w[k + 1]) % 4
  <2> DEFINE j == 4 * (i - 1) + k + 1
  <2>1. j \in 1 .. 4 * n /\ (j - 1) \div 4 + 1 = i /\ ((j - 1) % 4) + 1 = k + 1
    BY <1>1
  <2>. QED
    BY <2>1 DEF BytesToSymbols2
<1>6. CeilDiv(4 * n, 4) = n
  BY <1>1, CeilDivExact
<1>7. ASSUME NEW i \in 1 .. n
      PROVE  SymbolsToBytes2(s)[i] = bytes[i]
  <2> DEFINE v == bytes[i]
  <2>1. v \in Byte /\ \A k \in 0 .. 3 : s[4 * (i - 1) + k + 1] = (v \div w[k + 1]) % 4
    BY <1>1, <1>5
  <2> HIDE DEF v, s
  <2>2. /\ s[4 * (i - 1) + 0 + 1] = (v \div 64) % 4 /\ s[4 * (i - 1) + 1 + 1] = (v \div 16) % 4
        /\ s[4 * (i - 1) + 2 + 1] = (v \div 4) % 4 /\ s[4 * (i - 1) + 3 + 1] = (v \div 1) % 4
    BY <2>1
  <2>3. /\ ((v \div 64) % 4) % 4 = (v \div 64) % 4 /\ ((v \div 16) % 4) % 4 = (v \div 16) % 4
        /\ ((v \div 4) % 4) % 4 = (v \div 4) % 4 /\ ((v \div 1) % 4) % 4 = (v \div 1) % 4
    BY <2>1 DEF Byte
  <2>4. SymbolsToBytes2(s)[i] = ((v \div 64) % 4) * 64 + ((v \div 16) % 4) * 16 + ((v \div 4) % 4) * 4 + ((v \div 1) % 4)
    BY <1>4, <1>6, <2>2, <2>3 DEF SymbolsToBytes2
  <2>. QED
    BY <2>1, <2>4, ByteBits DEF v
<1>8. SymbolsToBytes2(s) \in [1 .. n -> Byte]
  <2>1. SymbolsToBytes2(s) = [i \in 1 .. n |-> SymbolsToBytes2(s)[i]]
    BY <1>4, <1>6 DEF SymbolsToBytes2
  <2>. QED
    BY <1>1, <1>7, <2>1
<1>9. SymbolsToBytes2(s) = bytes
  BY <1>1, <1>7, <1>8
<1>. QED
  BY <1>4, <1>9

(* What a group of eight symbols shows of its three bytes.                 *)
Group(x, y, z) ==
  <<x \div 32, (x \div 4) % 8, (x % 4) * 2 + y \div 128, (y \div 16) % 8, (y \div 2) % 8,
    (y % 2) * 4 + z \div 64, (z \div 8) % 8, z % 8>>

(* The bits of three bytes, cut into eight symbols, are put together       *)
(* again.                                                                  *)
LEMMA GroupBytes ==
  ASSUME NEW x \in Byte, NEW y \in Byte, NEW z \in Byte
  PROVE  /\ \A k \in 1 .. 8 : Group(x, y, z)[k] \in 0 .. 7
         /\ x = Group(x, y, z)[1] * 32 + Group(x, y, z)[2] * 4 + Group(x, y, z)[3] \div 2
         /\ y = (Group(x, y, z)[3] % 2) * 128 + Group(x, y, z)[4] * 16 + Group(x, y, z)[5] * 2 + Group(x, y, z)[6] \div 4
         /\ z = (Group(x, y, z)[6] % 4) * 64 + Group(x, y, z)[7] * 8 + Group(x, y, z)[8]
<1> DEFINE G == Group(x, y, z)
<1>1. /\ G[1] = x \div 32 /\ G[2] = (x \div 4) % 8 /\ G[3] = (x % 4) * 2 + y \div 128 /\ G[4] = (y \div 16) % 8
      /\ G[5] = (y \div 2) % 8 /\ G[6] = (y % 2) * 4 + z \div 64 /\ G[7] = (z \div 8) % 8 /\ G[8] = z % 8
  BY DEF Group
<1>2. /\ G[1] \in 0 .. 7 /\ G[2] \in 0 .. 7 /\ G[3] \in 0 .. 7 /\ G[4] \in 0 .. 7
      /\ G[5] \in 0 .. 7 /\ G[6] \in 0 .. 7 /\ G[7] \in 0 .. 7 /\ G[8] \in 0 .. 7
  BY <1>1 DEF Byte
<1>3. x = G[1] * 32 + G[2] * 4 + G[3] \div 2
  BY <1>1 DEF Byte
<1>4. y = (G[3] % 2) * 128 + G[4] * 16 + G[5] * 2 + G[6] \div 4
  BY <1>1 DEF Byte
<1>5. z = (G[6] % 4) * 64 + G[7] * 8 + G[8]
  BY <1>1 DEF Byte
<1> HIDE DEF G
<1>. QED
  BY <1>2, <1>3, <1>4, <1>5 DEF G

(* The three-bit codec: eight symbols are three bytes, whatever of them    *)
(* the last group lacks.                                                   *)
LEMMA Symbols3 ==
  ASSUME NEW bytes \in Seq(Byte)
  PROVE  /\ BytesToSymbols3(bytes) \in Seq(0 .. 7) /\ Len(BytesToSymbols3(bytes)) = CeilDiv(8 * Len(bytes), 3)
         /\ SymbolsToBytes3(BytesToSymbols3(bytes)) = bytes
<1> DEFINE n == Len(bytes)
           m == CeilDiv(8 * n, 3)
           s == BytesToSymbols3(bytes)
           In(i) == IF i <= n THEN bytes[i] ELSE 0
           G(g) == Group(In(3 * g + 1), In(3 * g + 2), In(3 * g + 3))
<1>1. n \in Nat /\ DOMAIN bytes = 1 .. n /\ \A i \in 1 .. n : bytes[i] \in Byte
  BY LenProperties, ElementOfSeq
<1>2. m \in Nat /\ (m * 3) \div 8 = n /\ 3 * m >= 8 * n
  <2>1. m = (8 * n + 2) \div 3
    BY <1>1 DEF CeilDiv
  <2> HIDE DEF m, n
  <2>2. m \in Nat /\ 3 * m >= 8 * n /\ 3 * m <= 8 * n + 2
    BY <1>1, <2>1
  <2>. QED
    BY <1>1, <2>2
<1>3. \A i \in Nat \ {0} : In(i) \in Byte
  BY <1>1 DEF Byte
<1>4. s = [j \in 1 .. m |-> G((j - 1) \div 8)[((j - 1) % 8) + 1]]
  <2>1. ASSUME NEW j \in 1 .. m
        PROVE  s[j] = G((j - 1) \div 8)[((j - 1) % 8) + 1]
    <3> DEFINE g == (j - 1) \div 8
               B(k) == LET i == 3 * g + k + 1 IN IF i <= n THEN bytes[i] ELSE 0
    <3>1. g \in Nat
      BY <1>2
    <3>2. B(0) = In(3 * g + 1) /\ B(1) = In(3 * g + 2) /\ B(2) = In(3 * g + 3)
      BY <3>1
    <3>3. s[j] = CASE j % 8 = 1 -> B(0) \div 32
                   [] j % 8 = 2 -> (B(0) \div 4) % 8
                   [] j % 8 = 3 -> (B(0) % 4) * 2 + B(1) \div 128
                   [] j % 8 = 4 -> (B(1) \div 16) % 8
                   [] j % 8 = 5 -> (B(1) \div 2) % 8
                   [] j % 8 = 6 -> (B(1) % 2) * 4 + B(2) \div 64
                   [] j % 8 = 7 -> (B(2) \div 8) % 8
                   [] j % 8 = 0 -> B(2) % 8
      BY DEF BytesToSymbols3
    <3> DEFINE k == (j - 1) % 8
    <3>4. k \in 0 .. 7 /\ j % 8 = IF k = 7 THEN 0 ELSE k + 1
      BY <1>2
    <3> HIDE DEF B, k, g, s
    <3>5. s[j] = Group(B(0), B(1), B(2))[k + 1]
      BY <3>3, <3>4 DEF Group
    <3>. QED
      BY <3>2, <3>5 DEF g, k
  <2>2. s = [j \in 1 .. m |-> s[j]]
    BY DEF BytesToSymbols3
  <2> HIDE DEF s, G
  <2>. QED
    BY <2>1, <2>2
<1> HIDE DEF s
<1>5. \A j \in 1 .. m : s[j] \in 0 .. 7
  <2> SUFFICES ASSUME NEW j \in 1 .. m
               PROVE  s[j] \in 0 .. 7
    OBVIOUS
  <2> DEFINE g == (j - 1) \div 8
             k == (j - 1) % 8
  <2>1. g \in Nat /\ k \in 0 .. 7
    BY <1>2
  <2>2. In(3 * g + 1) \in Byte /\ In(3 * g + 2) \in Byte /\ In(3 * g + 3) \in Byte
    BY <1>3, <2>1
  <2>3. s[j] = G(g)[k + 1]
    BY <1>4
  <2> HIDE DEF g, k, In
  <2>. QED
    BY <2>1, <2>2, <2>3, GroupBytes
<1>6. s \in Seq(0 .. 7) /\ Len(s) = m
  <2>1. s \in [1 .. m -> 0 .. 7]
    BY <1>4, <1>5
  <2>. QED
    BY <1>2, <2>1, SeqDef, LenProperties
<1>7. ASSUME NEW i \in 1 .. n
      PROVE  SymbolsToBytes3(s)[i] = bytes[i]
  <2> DEFINE g == (i - 1) \div 3
             S(k) == s[8 * g + k + 1]
  <2>1. g \in Nat /\ (i % 3 = 1 => i = 3 * g + 1) /\ (i % 3 = 2 => i = 3 * g + 2) /\ (i % 3 = 0 => i = 3 * g + 3)
    BY <1>1
  <2>2. \A k \in 0 .. 7 : 8 * g + k + 1 <= m => S(k) = G(g)[k + 1]
    <3> SUFFICES ASSUME NEW k \in 0 .. 7, 8 * g + k + 1 <= m
                 PROVE  S(k) = G(g)[k + 1]
      OBVIOUS
    <3> DEFINE j == 8 * g + k + 1
    <3>1. j \in 1 .. m /\ (j - 1) \div 8 = g /\ ((j - 1) % 8) + 1 = k + 1
      BY <1>2, <2>1
    <3> HIDE DEF g, G, m, j
    <3>2. s[j] = G((j - 1) \div 8)[((j - 1) % 8) + 1]
      BY <1>4, <3>1
    <3>. QED
      BY <3>1, <3>2 DEF j
  <2>3. In(3 * g + 1) \in Byte /\ In(3 * g + 2) \in Byte /\ In(3 * g + 3) \in Byte /\ bytes[i] = In(i)
    BY <1>1, <1>3, <2>1
  <2>4. SymbolsToBytes3(s)[i] = CASE i % 3 = 1 -> S(0) * 32 + S(1) * 4 + S(2) \div 2
                                  [] i % 3 = 2 -> (S(2) % 2) * 128 + S(3) * 16 + S(4) * 2 + S(5) \div 4
                                  [] i % 3 = 0 -> (S(5) % 4) * 64 + S(6) * 8 + S(7)
    BY <1>2, <1>6 DEF SymbolsToBytes3
  <2>5. i % 3 = 1 \/ i % 3 = 2 \/ i % 3 = 0
    BY <1>1
  <2>6. CASE i % 3 = 1
    <3>1. 8 * g + 2 + 1 <= m
      BY <1>1, <1>2, <2>1, <2>6
    <3>2. S(0) = G(g)[1] /\ S(1) = G(g)[2] /\ S(2) = G(g)[3]
      BY <1>2, <2>1, <2>2, <3>1
    <3>3. In(3 * g + 1) = G(g)[1] * 32 + G(g)[2] * 4 + G(g)[3] \div 2
      <4> HIDE DEF g, In
      <4>. QED
        BY <2>3, GroupBytes
    <3>4. SymbolsToBytes3(s)[i] = S(0) * 32 + S(1) * 4 + S(2) \div 2
      BY <2>4, <2>6
    <3>5. i = 3 * g + 1
      BY <2>1, <2>6
    <3> HIDE DEF G, g, In
    <3>. QED
      BY <2>3, <3>2, <3>3, <3>4, <3>5
  <2>7. CASE i % 3 = 2
    <3>1. 8 * g + 5 + 1 <= m
      BY <1>1, <1>2, <2>1, <2>7
    <3>2. S(2) = G(g)[3] /\ S(3) = G(g)[4] /\ S(4) = G(g)[5] /\ S(5) = G(g)[6]
      BY <1>2, <2>1, <2>2, <3>1
    <3>3. In(3 * g + 2) = (G(g)[3] % 2) * 128 + G(g)[4] * 16 + G(g)[5] * 2 + G(g)[6] \div 4
      <4> HIDE DEF g, In
      <4>. QED
        BY <2>3, GroupBytes
    <3>4. SymbolsToBytes3(s)[i] = (S(2) % 2) * 128 + S(3) * 16 + S(4) * 2 + S(5) \div 4
      BY <2>4, <2>7
    <3>5. i = 3 * g + 2
      BY <2>1, <2>7
    <3> HIDE DEF G, g, In
    <3>. QED
      BY <2>3, <3>2, <3>3, <3>4, <3>5
  <2>8. CASE i % 3 = 0
    <3>1. 8 * g + 7 + 1 <= m
      BY <1>1, <1>2, <2>1, <2>8
    <3>2. S(5) = G(g)[6] /\ S(6) = G(g)[7] /\ S(7) = G(g)[8]
      BY <1>2, <2>1, <2>2, <3>1
    <3>3. In(3 * g + 3) = (G(g)[6] % 4) * 64 + G(g)[7] * 8 + G(g)[8]
      <4> HIDE DEF g, In
      <4>. QED
        BY <2>3, GroupBytes
    <3>4. SymbolsToBytes3(s)[i] = (S(5) % 4) * 64 + S(6) * 8 + S(7)
      BY <2>4, <2>8
    <3>5. i = 3 * g + 3
      BY <2>1, <2>8
    <3> HIDE DEF G, g, In
    <3>. QED
      BY <2>3, <3>2, <3>3, <3>4, <3>5
  <2>. QED
    BY <2>5, <2>6, <2>7, <2>8
<1>8. SymbolsToBytes3(s) \in [1 .. n -> Byte]
  <2>1. SymbolsToBytes3(s) = [i \in 1 .. n |-> SymbolsToBytes3(s)[i]]
    BY <1>2, <1>6 DEF SymbolsToBytes3
  <2>. QED
    BY <1>1, <1>7, <2>1
<1>9. SymbolsToBytes3(s) = bytes
  BY <1>1, <1>7, <1>8
<1>. QED
  BY <1>6, <1>9 DEF s

SymbolsOf(bits) == IF bits = 1 THEN 0 .. 1 ELSE IF bits = 2 THEN 0 .. 3 ELSE 0 .. 7

(* Each codec gives the bytes back.                                        *)
LEMMA SymbolsAndBack ==
  ASSUME NEW bits \in 1 .. 3, NEW bytes \in Seq(Byte)
  PROVE  /\ BytesToSymbols(bits, bytes) \in Seq(SymbolsOf(bits))
         /\ Len(BytesToSymbols(bits, bytes)) = CeilDiv(8 * Len(bytes), bits)
         /\ SymbolsToBytes(bits, BytesToSymbols(bits, bytes)) = bytes
<1>0. Len(bytes) \in Nat
  BY LenProperties
<1>1. CASE bits = 1
  <2>1. CeilDiv(8 * Len(bytes), 1) = 8 * Len(bytes)
    BY <1>0 DEF CeilDiv
  <2>2. BytesToSymbols(bits, bytes) = BytesToSymbols1(bytes) /\ \A s : SymbolsToBytes(bits, s) = SymbolsToBytes1(s)
    BY <1>1 DEF BytesToSymbols, SymbolsToBytes
  <2>. QED
    BY <1>1, <2>1, <2>2, Symbols1 DEF SymbolsOf
<1>2. CASE bits = 2
  <2>1. CeilDiv(8 * Len(bytes), 2) = 4 * Len(bytes)
    BY <1>0 DEF CeilDiv
  <2>2. BytesToSymbols(bits, bytes) = BytesToSymbols2(bytes) /\ \A s : SymbolsToBytes(bits, s) = SymbolsToBytes2(s)
    BY <1>2 DEF BytesToSymbols, SymbolsToBytes
  <2>. QED
    BY <1>2, <2>1, <2>2, Symbols2 DEF SymbolsOf
<1>3. CASE bits = 3
  <2>2. BytesToSymbols(bits, bytes) = BytesToSymbols3(bytes) /\ \A s : SymbolsToBytes(bits, s) = SymbolsToBytes3(s)
    BY <1>3 DEF BytesToSymbols, SymbolsToBytes
  <2>. QED
    BY <1>3, <2>2, Symbols3 DEF SymbolsOf
<1>. QED
  BY <1>1, <1>2, <1>3

-----------------------------------------------------------------------------
Uint32 == Half \X Half

(* Half a word is two bytes.                                               *)
LEMMA HalfBytes ==
  ASSUME NEW h \in Half
  PROVE  h % 256 \in Byte /\ h \div 256 \in Byte /\ (h % 256) + 256 * (h \div 256) = h
<1>1. h \in Int /\ 0 <= h /\ h <= 65535
  BY HalfIs
<1>. QED
  BY <1>1 DEF Byte

(* A word goes through its four bytes.                                     *)
LEMMA WordType ==
  ASSUME NEW v \in Uint32
  PROVE  /\ uint32_to_bytes(v) \in Seq(Byte) /\ Len(uint32_to_bytes(v)) = 4
         /\ bytes_to_uint32(uint32_to_bytes(v)) = v
<1>1. v[1] \in Half /\ v[2] \in Half /\ v = <<v[1], v[2]>>
  BY DEF Uint32
<1>2. v[1] % 256 \in Byte /\ v[1] \div 256 \in Byte /\ v[2] % 256 \in Byte /\ v[2] \div 256 \in Byte
  BY <1>1, HalfBytes
<1>3. uint32_to_bytes(v) \in Seq(Byte) /\ Len(uint32_to_bytes(v)) = 4
  BY <1>2 DEF uint32_to_bytes
<1>4. (v[1] % 256) + 256 * (v[1] \div 256) = v[1] /\ (v[2] % 256) + 256 * (v[2] \div 256) = v[2]
  BY <1>1, HalfBytes
<1>. QED
  BY <1>1, <1>3, <1>4 DEF uint32_to_bytes, bytes_to_uint32

(* The CRC is a word.                                                      *)
LEMMA CrcType ==
  ASSUME NEW bytes
  PROVE  crc32(bytes) \in Uint32
<1>1. \A c, d : XorHalves(c, d) \in Uint32
  BY XorHalfType DEF XorHalves, Uint32
<1>. QED
  BY <1>1 DEF crc32

(* A function on 1 .. n is a sequence of n.                                *)
LEMMA FunctionSeq ==
  ASSUME NEW S, NEW n \in Nat, NEW f \in [1 .. n -> S]
  PROVE  f \in Seq(S) /\ Len(f) = n /\ DOMAIN f = 1 .. n
BY SeqDef, LenProperties

(* The id is uncovered with the CRC it was covered with.                   *)
LEMMA ScrambleTwice ==
  ASSUME NEW s \in Seq(Byte), NEW t \in Seq(Byte), Len(s) = 4, Len(t) = 4
  PROVE  /\ XorBytes(s, t) \in Seq(Byte) /\ Len(XorBytes(s, t)) = 4
         /\ XorBytes(XorBytes(s, t), t) = s
<1>1. DOMAIN s = 1 .. 4 /\ \A i \in 1 .. 4 : s[i] \in Byte /\ t[i] \in Byte
  BY LenProperties, ElementOfSeq
<1> DEFINE x == XorBytes(s, t)
<1>2. x \in [1 .. 4 -> Byte] /\ \A i \in 1 .. 4 : x[i] = XorByte(s[i], t[i])
  BY <1>1, XorByteType DEF XorBytes
<1> HIDE DEF x
<1>3. x \in Seq(Byte) /\ Len(x) = 4 /\ DOMAIN x = 1 .. 4
  BY <1>2, FunctionSeq
<1>4. XorBytes(x, t) = [i \in 1 .. 4 |-> XorByte(x[i], t[i])]
  BY <1>3 DEF XorBytes
<1>5. \A i \in 1 .. 4 : XorByte(x[i], t[i]) = s[i]
  BY <1>1, <1>2, XorTwice
<1>6. s = [i \in 1 .. 4 |-> s[i]]
  BY <1>1, LenProperties
<1>7. XorBytes(x, t) = s
  BY <1>4, <1>5, <1>6
<1>. QED
  BY <1>3, <1>7 DEF x

Apart(s, t, u) ==
  /\ s \o t \o u \in Seq(Byte) /\ Len(s \o t \o u) = 8 + Len(u)
  /\ SubSeq(s \o t \o u, 1, 4) = s /\ SubSeq(s \o t \o u, 5, 8) = t
  /\ SubSeq(s \o t \o u, 9, Len(s \o t \o u)) = u
(* The three fields of a frame are cut out of it.                          *)
LEMMA ThreeParts ==
  ASSUME NEW s \in Seq(Byte), NEW t \in Seq(Byte), NEW u \in Seq(Byte), Len(s) = 4, Len(t) = 4
  PROVE  Apart(s, t, u)
<1> DEFINE st == s \o t
           all == st \o u
<1>0. Len(u) \in Nat
  BY LenProperties
<1>1. st \in Seq(Byte) /\ Len(st) = 8 /\ \A i \in 1 .. 8 : st[i] = IF i <= 4 THEN s[i] ELSE t[i - 4]
  <2>1. /\ st \in Seq(Byte) /\ Len(st) = Len(s) + Len(t)
        /\ \A i \in 1 .. Len(s) + Len(t) : st[i] = IF i <= Len(s) THEN s[i] ELSE t[i - Len(s)]
    BY ConcatProperties
  <2> HIDE DEF st
  <2>. QED
    BY <2>1
<1> HIDE DEF st
<1>2. all \in Seq(Byte) /\ Len(all) = 8 + Len(u) /\ \A i \in 1 .. 8 + Len(u) : all[i] = IF i <= 8 THEN st[i] ELSE u[i - 8]
  <2>1. /\ all \in Seq(Byte) /\ Len(all) = Len(st) + Len(u)
        /\ \A i \in 1 .. Len(st) + Len(u) : all[i] = IF i <= Len(st) THEN st[i] ELSE u[i - Len(st)]
    BY <1>1, ConcatProperties
  <2> HIDE DEF all
  <2>. QED
    BY <1>1, <2>1
<1> HIDE DEF all
<1>3. \A i \in 1 .. Len(all) : all[i] \in Byte
  BY <1>2, ElementOfSeq
<1>4. SubSeq(all, 1, 4) = s
  <2>1. /\ SubSeq(all, 1, 4) \in Seq(Byte) /\ Len(SubSeq(all, 1, 4)) = 4
        /\ \A i \in 1 .. 4 : SubSeq(all, 1, 4)[i] = all[i]
    BY <1>0, <1>2, <1>3, SubSeqProperties
  <2>2. \A i \in 1 .. 4 : SubSeq(all, 1, 4)[i] = s[i]
    BY <1>0, <1>1, <1>2, <2>1
  <2>. QED
    BY <2>1, <2>2, SeqEqual
<1>5. SubSeq(all, 5, 8) = t
  <2>1. /\ SubSeq(all, 5, 8) \in Seq(Byte) /\ Len(SubSeq(all, 5, 8)) = 4
        /\ \A i \in 1 .. 4 : SubSeq(all, 5, 8)[i] = all[5 + i - 1]
    <3>1. \A i \in 5 .. 8 : all[i] \in Byte
      BY <1>0, <1>2, <1>3
    <3>. QED
      BY <3>1, SubSeqProperties
  <2>2. \A i \in 1 .. 4 : SubSeq(all, 5, 8)[i] = t[i]
    <3>1. \A i \in 1 .. 4 : 5 + i - 1 \in 1 .. 8 /\ 5 + i - 1 \in 1 .. 8 + Len(u) /\ (5 + i - 1) - 4 = i
      BY <1>0
    <3>. QED
      BY <1>1, <1>2, <2>1, <3>1
  <2>. QED
    BY <2>1, <2>2, SeqEqual
<1>6. SubSeq(all, 9, Len(all)) = u
  <2> DEFINE last == SubSeq(all, 9, 8 + Len(u))
  <2>1. /\ last \in Seq(Byte) /\ Len(last) = Len(u)
        /\ \A i \in 1 .. Len(u) : last[i] = all[9 + i - 1]
    <3>1. \A i \in 9 .. 8 + Len(u) : all[i] \in Byte
      BY <1>0, <1>2, <1>3
    <3>. QED
      BY <1>0, <3>1, SubSeqProperties
  <2>2. \A i \in 1 .. Len(u) : last[i] = u[i]
    <3>1. \A i \in 1 .. Len(u) : 9 + i - 1 \in 1 .. 8 + Len(u) /\ ~(9 + i - 1 <= 8) /\ (9 + i - 1) - 8 = i
      BY <1>0
    <3> HIDE DEF last
    <3>. QED
      BY <1>2, <2>1, <3>1
  <2> HIDE DEF last
  <2>3. last = u
    BY <2>1, <2>2, SeqEqual
  <2>. QED
    BY <1>2, <2>3 DEF last
<1>. QED
  BY <1>2, <1>4, <1>5, <1>6 DEF all, st, Apart

(* What is encoded is decoded: every part number, every part that fits     *)
(* into the frame, with each codec.                                        *)
THEOREM DecodeOfEncode ==
  ASSUME NEW bits \in 1 .. 3, NEW part_id \in Uint32, NEW part_bytes \in Seq(Byte), NEW frame_size \in Nat,
         (META_BYTE_NUM + Len(part_bytes)) * 8 <= frame_size * bits
  PROVE  /\ Encode(bits, part_id, part_bytes, frame_size) \in Seq(SymbolsOf(bits))
         /\ Len(Encode(bits, part_id, part_bytes, frame_size)) = frame_size
         /\ Decode(bits, Encode(bits, part_id, part_bytes, frame_size)) =
              <<TRUE, part_id, Resized(part_bytes, (frame_size * bits) \div 8 - META_BYTE_NUM)>>
<1> DEFINE n == (frame_size * bits) \div 8
           id_bytes == uint32_to_bytes(part_id)
           padded == Resized(part_bytes, n - META_BYTE_NUM)
           crc == crc32(id_bytes \o padded)
           crc_bytes == uint32_to_bytes(crc)
           bytes == crc_bytes \o XorBytes(id_bytes, crc_bytes) \o padded
           s == BytesToSymbols(bits, encrypt_bytes(bytes))
           e == Resized(s, frame_size)
<1>1. n \in Nat /\ n >= 8 /\ n - META_BYTE_NUM \in Nat /\ CeilDiv(8 * n, bits) \in Nat /\ CeilDiv(8 * n, bits) <= frame_size
      /\ CeilDiv(n * 8, bits) = CeilDiv(8 * n, bits)
  <2>1. Len(part_bytes) \in Nat
    BY LenProperties
  <2>2. CASE bits = 1
    BY <2>1, <2>2 DEF META_BYTE_NUM, CeilDiv
  <2>3. CASE bits = 2
    BY <2>1, <2>3 DEF META_BYTE_NUM, CeilDiv
  <2>4. CASE bits = 3
    BY <2>1, <2>4 DEF META_BYTE_NUM, CeilDiv
  <2>. QED
    BY <2>2, <2>3, <2>4
<1>2. padded \in Seq(Byte) /\ Len(padded) = n - 8
  <2>1. 0 \in Byte
    BY DEF Byte
  <2>. QED
    BY <1>1, <2>1, ResizedType DEF META_BYTE_NUM
<1>3. id_bytes \in Seq(Byte) /\ Len(id_bytes) = 4 /\ bytes_to_uint32(id_bytes) = part_id
  BY WordType
<1>4. crc \in Uint32
  BY CrcType
<1> HIDE DEF n, padded, id_bytes
<1>5. crc_bytes \in Seq(Byte) /\ Len(crc_bytes) = 4 /\ bytes_to_uint32(crc_bytes) = crc
  <2> HIDE DEF crc
  <2>. QED
    BY <1>4, WordType
<1> HIDE DEF crc_bytes
<1>6. /\ XorBytes(id_bytes, crc_bytes) \in Seq(Byte) /\ Len(XorBytes(id_bytes, crc_bytes)) = 4
      /\ XorBytes(XorBytes(id_bytes, crc_bytes), crc_bytes) = id_bytes
  BY <1>3, <1>5, ScrambleTwice
<1>7. /\ bytes \in Seq(Byte) /\ Len(bytes) = n
      /\ SubSeq(bytes, 1, 4) = crc_bytes /\ SubSeq(bytes, 5, 8) = XorBytes(id_bytes, crc_bytes)
      /\ SubSeq(bytes, 9, Len(bytes)) = padded
  <2>1. 8 + Len(padded) = n
    BY <1>1, <1>2
  <2> DEFINE scrambled == XorBytes(id_bytes, crc_bytes)
  <2>2. scrambled \in Seq(Byte) /\ Len(scrambled) = 4
    BY <1>6
  <2> HIDE DEF scrambled
  <2>3. /\ crc_bytes \o scrambled \o padded \in Seq(Byte) /\ Len(crc_bytes \o scrambled \o padded) = 8 + Len(padded)
        /\ SubSeq(crc_bytes \o scrambled \o padded, 1, 4) = crc_bytes
        /\ SubSeq(crc_bytes \o scrambled \o padded, 5, 8) = scrambled
        /\ SubSeq(crc_bytes \o scrambled \o padded, 9, Len(crc_bytes \o scrambled \o padded)) = padded
    <3> HIDE DEF bytes, s, e, crc
    <3>1. crc_bytes \in Seq(Byte) /\ Len(crc_bytes) = 4 /\ padded \in Seq(Byte)
      BY <1>2, <1>5
    <3>. QED
      <4>2. Apart(crc_bytes, scrambled, padded)
        BY <2>2, <3>1, ThreeParts
      <4>. QED
        BY <4>2 DEF Apart
  <2>. QED
    BY <2>1, <2>3 DEF scrambled
<1> HIDE DEF bytes
<1>8. encrypt_bytes(bytes) \in Seq(Byte) /\ Len(encrypt_bytes(bytes)) = n
  BY <1>7, EncryptType
<1>9. /\ s \in Seq(SymbolsOf(bits)) /\ Len(s) = CeilDiv(8 * n, bits)
      /\ SymbolsToBytes(bits, s) = encrypt_bytes(bytes)
  BY <1>8, SymbolsAndBack
<1> HIDE DEF s
<1>10. /\ e \in Seq(SymbolsOf(bits)) /\ Len(e) = frame_size
       /\ \A i \in 1 .. frame_size : e[i] = IF i <= Len(s) THEN s[i] ELSE 0
  <2>1. 0 \in SymbolsOf(bits)
    BY DEF SymbolsOf
  <2>. QED
    BY <1>9, <2>1, ResizedType
<1>11. e = Encode(bits, part_id, part_bytes, frame_size)
  BY DEF Encode, e, s, bytes, crc_bytes, crc, padded, id_bytes, n
<1> HIDE DEF e
<1>12. SubSeq(e, 1, Truncated(bits, e)) = s
  <2> DEFINE t == SubSeq(e, 1, Len(s))
  <2>1. Truncated(bits, e) = Len(s)
    BY <1>1, <1>9, <1>10 DEF Truncated, n
  <2>2. Len(s) \in Nat /\ Len(s) <= frame_size
    BY <1>1, <1>9
  <2>3. \A i \in 1 .. Len(s) : e[i] = s[i] /\ e[i] \in SymbolsOf(bits)
    BY <1>9, <1>10, <2>2, ElementOfSeq
  <2>4. t \in Seq(SymbolsOf(bits)) /\ Len(t) = Len(s) /\ \A i \in 1 .. Len(s) : t[i] = e[1 + i - 1]
    BY <2>2, <2>3, SubSeqProperties
  <2>5. \A i \in 1 .. Len(s) : t[i] = s[i]
    <3> HIDE DEF t
    <3>. QED
      BY <2>2, <2>3, <2>4
  <2> HIDE DEF t
  <2>6. t = s
    BY <1>9, <2>4, <2>5, SeqEqual
  <2>. QED
    BY <2>1, <2>6 DEF t
<1>13. encrypt_bytes(SymbolsToBytes(bits, SubSeq(e, 1, Truncated(bits, e)))) = bytes
  BY <1>7, <1>9, <1>12, EncryptTwice
<1>14. Decode(bits, e) = <<crc32(id_bytes \o padded) = crc, part_id, padded>>
  <2>1. /\ SubSeq(bytes, 1, 4) = crc_bytes
        /\ XorBytes(SubSeq(bytes, 5, 8), SubSeq(bytes, 1, 4)) = id_bytes
        /\ SubSeq(bytes, META_BYTE_NUM + 1, Len(bytes)) = padded
    <3>1. META_BYTE_NUM + 1 = 9
      BY DEF META_BYTE_NUM
    <3>. QED
      BY <1>6, <1>7, <3>1, Zenon
  <2>2. Decode(bits, e) = <<crc32(XorBytes(SubSeq(bytes, 5, 8), SubSeq(bytes, 1, 4))
                                 \o SubSeq(bytes, META_BYTE_NUM + 1, Len(bytes))) = bytes_to_uint32(SubSeq(bytes, 1, 4)),
                         bytes_to_uint32(XorBytes(SubSeq(bytes, 5, 8), SubSeq(bytes, 1, 4))),
                         SubSeq(bytes, META_BYTE_NUM + 1, Len(bytes))>>
    BY <1>13, Zenon DEF Decode
  <2> HIDE DEF crc
  <2>. QED
    BY <1>3, <1>5, <2>1, <2>2
<1>15. Decode(bits, e) = <<TRUE, part_id, padded>>
  BY <1>14 DEF crc
<1>. QED
  BY <1>10, <1>11, <1>15 DEF padded, n

(* What is needed of INT_MAX.                                              *)
LEMMA MaxIntType == MaxInt \in Nat /\ MaxInt >= 8 /\ MaxInt < 4294967296
BY SMT DEF MaxInt

(* Number and Int32: an int goes through its four bytes.                   *)
LEMMA IntType ==
  ASSUME NEW n \in 0 .. MaxInt
  PROVE  /\ Halves(n) \in Uint32 /\ Whole(Halves(n)) = n
         /\ Int32(n) \in Seq(Byte) /\ Len(Int32(n)) = 4 /\ Number(Int32(n)) = n
<1>1. Halves(n) \in Uint32 /\ Whole(Halves(n)) = n
  <2>1. n \in Nat /\ n < 4294967296
    BY MaxIntType
  <2>2. n % 65536 \in Half
    <3>1. n % 65536 \in Int /\ 0 <= n % 65536 /\ n % 65536 <= 65535
      BY <2>1, SMT
    <3>. QED
      BY <3>1, HalfIs
  <2>3. n \div 65536 \in Half
    <3>1. n \div 65536 \in Int /\ 0 <= n \div 65536 /\ n \div 65536 <= 65535
      BY <2>1, SMT
    <3>. QED
      BY <3>1, HalfIs
  <2>4. (n % 65536) + 65536 * (n \div 65536) = n
    BY <2>1, SMT
  <2>. QED
    BY <2>2, <2>3, <2>4 DEF Halves, Whole, Uint32
<1>. QED
  BY <1>1, WordType DEF Int32, Number

(* The cells of the bitmap.                                                *)
LEMMA MaskBits ==
  ASSUME NEW v \in Byte, NEW i \in 0 .. 7, (v \div <<1, 2, 4, 8, 16, 32, 64, 128>>[i + 1]) % 2 # 1, NEW j \in 0 .. 7
  PROVE  /\ v + <<1, 2, 4, 8, 16, 32, 64, 128>>[i + 1] \in Byte
         /\ ((v + <<1, 2, 4, 8, 16, 32, 64, 128>>[i + 1]) \div <<1, 2, 4, 8, 16, 32, 64, 128>>[j + 1]) % 2 = 1
            <=> j = i \/ (v \div <<1, 2, 4, 8, 16, 32, 64, 128>>[j + 1]) % 2 = 1
<1> DEFINE m == <<1, 2, 4, 8, 16, 32, 64, 128>>
           Good(p, q) == (v \div p) % 2 # 1 =>
                            /\ v + p \in Byte
                            /\ ((v + p) \div q) % 2 = 1 <=> (p = q \/ (v \div q) % 2 = 1)
<1>1. \A q \in {1, 2, 4, 8, 16, 32, 64, 128} : Good(1, q)
  <2>1. /\ Good(1, 1) /\ Good(1, 2) /\ Good(1, 4) /\ Good(1, 8)
    BY DEF Byte
  <2>2. /\ Good(1, 16) /\ Good(1, 32) /\ Good(1, 64) /\ Good(1, 128)
    BY DEF Byte
  <2>. QED
    BY <2>1, <2>2
<1>2. \A q \in {1, 2, 4, 8, 16, 32, 64, 128} : Good(2, q)
  <2>1. /\ Good(2, 1) /\ Good(2, 2) /\ Good(2, 4) /\ Good(2, 8)
    BY DEF Byte
  <2>2. /\ Good(2, 16) /\ Good(2, 32) /\ Good(2, 64) /\ Good(2, 128)
    BY DEF Byte
  <2>. QED
    BY <2>1, <2>2
<1>3. \A q \in {1, 2, 4, 8, 16, 32, 64, 128} : Good(4, q)
  <2>1. /\ Good(4, 1) /\ Good(4, 2) /\ Good(4, 4) /\ Good(4, 8)
    BY DEF Byte
  <2>2. /\ Good(4, 16) /\ Good(4, 32) /\ Good(4, 64) /\ Good(4, 128)
    BY DEF Byte
  <2>. QED
    BY <2>1, <2>2
<1>4. \A q \in {1, 2, 4, 8, 16, 32, 64, 128} : Good(8, q)
  <2>1. /\ Good(8, 1) /\ Good(8, 2) /\ Good(8, 4) /\ Good(8, 8)
    BY DEF Byte
  <2>2. /\ Good(8, 16) /\ Good(8, 32) /\ Good(8, 64) /\ Good(8, 128)
    BY DEF Byte
  <2>. QED
    BY <2>1, <2>2
<1>5. \A q \in {1, 2, 4, 8, 16, 32, 64, 128} : Good(16, q)
  <2>1. /\ Good(16, 1) /\ Good(16, 2) /\ Good(16, 4) /\ Good(16, 8)
    BY DEF Byte
  <2>2. /\ Good(16, 16) /\ Good(16, 32) /\ Good(16, 64) /\ Good(16, 128)
    BY DEF Byte
  <2>. QED
    BY <2>1, <2>2
<1>6. \A q \in {1, 2, 4, 8, 16, 32, 64, 128} : Good(32, q)
  <2>1. /\ Good(32, 1) /\ Good(32, 2) /\ Good(32, 4) /\ Good(32, 8)
    BY DEF Byte
  <2>2. /\ Good(32, 16) /\ Good(32, 32) /\ Good(32, 64) /\ Good(32, 128)
    BY DEF Byte
  <2>. QED
    BY <2>1, <2>2
<1>7. \A q \in {1, 2, 4, 8, 16, 32, 64, 128} : Good(64, q)
  <2>1. /\ Good(64, 1) /\ Good(64, 2) /\ Good(64, 4) /\ Good(64, 8)
    BY DEF Byte
  <2>2. /\ Good(64, 16) /\ Good(64, 32) /\ Good(64, 64) /\ Good(64, 128)
    BY DEF Byte
  <2>. QED
    BY <2>1, <2>2
<1>8. \A q \in {1, 2, 4, 8, 16, 32, 64, 128} : Good(128, q)
  <2>1. /\ Good(128, 1) /\ Good(128, 2) /\ Good(128, 4) /\ Good(128, 8)
    BY DEF Byte
  <2>2. /\ Good(128, 16) /\ Good(128, 32) /\ Good(128, 64) /\ Good(128, 128)
    BY DEF Byte
  <2>. QED
    BY <2>1, <2>2
<1>9. /\ m[i + 1] \in {1, 2, 4, 8, 16, 32, 64, 128} /\ m[j + 1] \in {1, 2, 4, 8, 16, 32, 64, 128}
      /\ m[i + 1] = m[j + 1] <=> i = j
  OBVIOUS
<1> HIDE DEF Good, m
<1>10. Good(m[i + 1], m[j + 1])
  BY <1>1, <1>2, <1>3, <1>4, <1>5, <1>6, <1>7, <1>8, <1>9
<1>. QED
  BY <1>9, <1>10 DEF Good, m

(* Mark sets the bit of its part and leaves the others.                    *)
LEMMA MarkIsDone ==
  ASSUME NEW bytes \in Seq(Byte), NEW id \in Nat, id \div 8 + 1 <= Len(bytes)
  PROVE  /\ Mark(bytes, id) \in Seq(Byte) /\ Len(Mark(bytes, id)) = Len(bytes)
         /\ \A j \in Nat : j \div 8 + 1 <= Len(bytes) =>
               (is_part_done(Mark(bytes, id), j) <=> j = id \/ is_part_done(bytes, j))
<1> DEFINE at == id \div 8 + 1
           new == Mark(bytes, id)
<1>1. at \in 1 .. Len(bytes) /\ Len(bytes) \in Nat /\ DOMAIN bytes = 1 .. Len(bytes)
      /\ bytes \in [1 .. Len(bytes) -> Byte] /\ id % 8 \in 0 .. 7
  BY LenProperties
<1>2. CASE is_part_done(bytes, id)
  <2>1. new = bytes
    BY <1>1, <1>2 DEF Mark
  <2>. QED
    BY <1>2, <2>1
<1>3. CASE ~is_part_done(bytes, id)
  <2>1. new = [bytes EXCEPT ![at] = bytes[at] + Mask(id)]
    BY <1>1, <1>3 DEF Mark
  <2>2. bytes[at] \in Byte /\ (bytes[at] \div Mask(id)) % 2 # 1
    BY <1>1, <1>3 DEF is_part_done
  <2>3. bytes[at] + Mask(id) \in Byte
    BY <1>1, <2>2, MaskBits DEF Mask
  <2>4. new \in [1 .. Len(bytes) -> Byte] /\ new[at] = bytes[at] + Mask(id)
        /\ \A i \in 1 .. Len(bytes) : i # at => new[i] = bytes[i]
    BY <1>1, <2>1, <2>3
  <2> HIDE DEF new
  <2>5. new \in Seq(Byte) /\ Len(new) = Len(bytes)
    BY <1>1, <2>4, FunctionSeq
  <2>6. ASSUME NEW j \in Nat, j \div 8 + 1 <= Len(bytes)
        PROVE  is_part_done(new, j) <=> j = id \/ is_part_done(bytes, j)
    <3>1. j \div 8 + 1 \in 1 .. Len(bytes) /\ j % 8 \in 0 .. 7
      BY <2>6, <1>1
    <3>2. CASE j \div 8 # id \div 8
      BY <1>1, <2>4, <3>1, <3>2 DEF is_part_done
    <3>3. CASE j \div 8 = id \div 8
      <4>1. j = id <=> j % 8 = id % 8
        BY <3>3
      <4>2. ((bytes[at] + Mask(id)) \div Mask(j)) % 2 = 1 <=> j % 8 = id % 8 \/ (bytes[at] \div Mask(j)) % 2 = 1
        BY <1>1, <2>2, <3>1, MaskBits, SMTT(30) DEF Mask
      <4>. QED
        BY <2>4, <3>3, <4>1, <4>2 DEF is_part_done
    <3>. QED
      BY <3>2, <3>3
  <2>. QED
    BY <2>5, <2>6 DEF new
<1>. QED
  BY <1>2, <1>3

(* A rounded-up division is the least that is enough.                      *)
LEMMA CeilDivBounds ==
  ASSUME NEW n \in Nat, NEW size \in Nat \ {0}
  PROVE  CeilDiv(n, size) \in Nat /\ n <= CeilDiv(n, size) * size /\ CeilDiv(n, size) * size < n + size
BY DEF CeilDiv

(* Quotient and remainder of a multiple and a rest.                        *)
LEMMA DivMod ==
  ASSUME NEW a \in Nat, NEW c \in Nat \ {0}, NEW r \in 0 .. c - 1
  PROVE  (a * c + r) \div c = a /\ (a * c + r) % c = r /\ a * c \in Nat /\ a <= a * c
OBVIOUS

(* The multiples of c are c apart.                                         *)
LEMMA Times ==
  ASSUME NEW a \in Nat, NEW c \in Nat, NEW d \in Nat, a < d
  PROVE  a * c + c <= d * c /\ (a + 1) * c = a * c + c
OBVIOUS

(* Two sequences of bytes, one after the other.                            *)
LEMMA ConcatType ==
  ASSUME NEW s \in Seq(Byte), NEW t \in Seq(Byte)
  PROVE  /\ s \o t \in Seq(Byte) /\ Len(s \o t) = Len(s) + Len(t)
         /\ \A i \in 1 .. Len(s) : (s \o t)[i] = s[i]
         /\ \A i \in 1 .. Len(t) : (s \o t)[Len(s) + i] = t[i]
<1>1. Len(s) \in Nat /\ Len(t) \in Nat
  BY LenProperties
<1>2. /\ s \o t \in Seq(Byte) /\ Len(s \o t) = Len(s) + Len(t)
      /\ \A i \in 1 .. Len(s) + Len(t) : (s \o t)[i] = IF i <= Len(s) THEN s[i] ELSE t[i - Len(s)]
  BY ConcatProperties
<1> DEFINE st == s \o t
<1> HIDE DEF st
<1>3. /\ \A i \in 1 .. Len(s) + Len(t) : st[i] = IF i <= Len(s) THEN s[i] ELSE t[i - Len(s)]
  BY <1>2 DEF st
<1>4. \A i \in 1 .. Len(s) : st[i] = s[i]
  BY <1>1, <1>3
<1>5. ASSUME NEW i \in 1 .. Len(t) PROVE st[Len(s) + i] = t[i]
  <2>1. Len(s) + i \in 1 .. Len(s) + Len(t) /\ ~(Len(s) + i <= Len(s)) /\ Len(s) + i - Len(s) = i
    BY <1>1
  <2>. QED
    BY <1>3, <2>1
<1>. QED
  BY <1>2, <1>4, <1>5 DEF st

(* A part of a sequence of bytes.                                          *)
LEMMA SubSeqType ==
  ASSUME NEW s \in Seq(Byte), NEW m \in Nat, NEW n \in Nat, m + n <= Len(s)
  PROVE  /\ SubSeq(s, m + 1, m + n) \in Seq(Byte) /\ Len(SubSeq(s, m + 1, m + n)) = n
         /\ \A i \in 1 .. n : SubSeq(s, m + 1, m + n)[i] = s[m + i]
<1>1. Len(s) \in Nat
  BY LenProperties
<1> DEFINE j == m + 1
           k == m + n
<1>2. j \in Int /\ k \in Int /\ j = m + 1 /\ k = m + n
  OBVIOUS
<1> HIDE DEF j, k
<1>3. \A i \in j .. k : s[i] \in Byte
  <2>1. \A i \in j .. k : i \in 1 .. Len(s)
    BY <1>1, <1>2
  <2>. QED
    BY <2>1, ElementOfSeq
<1>4. /\ SubSeq(s, j, k) \in Seq(Byte)
      /\ Len(SubSeq(s, j, k)) = IF j <= k THEN k - j + 1 ELSE 0
      /\ \A i \in 1 .. k - j + 1 : SubSeq(s, j, k)[i] = s[j + i - 1]
  BY <1>2, <1>3, SubSeqProperties
<1> DEFINE ss == SubSeq(s, j, k)
<1> HIDE DEF ss
<1>5. Len(ss) = n
  BY <1>2, <1>4 DEF ss
<1>6. ASSUME NEW i \in 1 .. n PROVE ss[i] = s[m + i]
  <2>1. i \in 1 .. k - j + 1 /\ j + i - 1 = m + i
    BY <1>2
  <2>. QED
    BY <1>4, <2>1 DEF ss
<1>. QED
  BY <1>4, <1>5, <1>6 DEF ss, j, k

(* Where a part begins in the bytes of the parts.                          *)
At(id, size) == id * size

(* The parts begin one size apart: a part ends where the next begins.      *)
LEMMA AtType ==
  ASSUME NEW id \in Nat, NEW size \in Nat
  PROVE  At(id, size) \in Nat /\ \A num \in Nat : id < num => At(id, size) + size <= At(num, size)
BY Times DEF At

(* get_task_bytes: the file, what fills its last part, its length.         *)
LEMMA TaskBytes ==
  ASSUME NEW file \in Seq(Byte), NEW size \in Nat, size >= 8, Filled(Len(file), size) + size <= MaxInt,
         NEW k, k = CeilDiv(Len(file), size)
  PROVE  /\ get_task_bytes(file, size) \in Seq(Byte)
         /\ k \in Nat /\ k + 1 \in 1 .. MaxInt /\ Len(get_task_bytes(file, size)) = At(k + 1, size)
         /\ Len(get_task_bytes(file, size)) \div size = k + 1
         /\ Len(file) <= At(k, size) /\ Len(file) \in 0 .. MaxInt
         /\ \A i \in 1 .. Len(file) : get_task_bytes(file, size)[i] = file[i]
         /\ \A i \in 1 .. 4 : get_task_bytes(file, size)[At(k, size) + i] = Int32(Len(file))[i]
<1> DEFINE n == Len(file)
           x == At(k, size)
           w == Int32(n)
           s == Resized(file, x)
           t == Resized(w, size)
           raw == get_task_bytes(file, size)
<1>1. n \in Nat /\ size \in Nat \ {0} /\ 0 \in Byte
  BY LenProperties DEF Byte
<1>2. k \in Nat /\ n <= x /\ x = k * size
  BY <1>1, CeilDivBounds DEF At
<1>3. x \in Nat /\ x + size <= MaxInt /\ k <= x
  <2>1. k * size \in Nat /\ k <= k * size
    BY <1>1, <1>2
  <2>2. Filled(n, size) = x
    BY <1>2 DEF Filled
  <2>. QED
    BY <1>2, <2>1, <2>2
<1>4. raw = s \o t
  BY <1>2 DEF get_task_bytes, Filled
<1>5. At(k + 1, size) = x + size /\ (x + size) \div size = k + 1
  <2>1. (k + 1) * size = k * size + size
    BY <1>1, <1>2
  <2>2. ((k + 1) * size) \div size = k + 1
    BY <1>1, <1>2, SMTT(30)
  <2>. QED
    BY <1>2, <2>1, <2>2 DEF At
<1> HIDE DEF x, w
<1>6. n \in 0 .. MaxInt /\ k + 1 \in 1 .. MaxInt
  BY <1>1, <1>2, <1>3, MaxIntType
<1>7. w \in Seq(Byte) /\ Len(w) = 4
  BY <1>6, IntType DEF w
<1>8. s \in Seq(Byte) /\ Len(s) = x /\ \A i \in 1 .. x : s[i] = IF i <= n THEN file[i] ELSE 0
  BY <1>1, <1>3, ResizedType
<1>9. t \in Seq(Byte) /\ Len(t) = size /\ \A i \in 1 .. size : t[i] = IF i <= Len(w) THEN w[i] ELSE 0
  BY <1>1, <1>7, ResizedType
<1> HIDE DEF s, t, raw, n
<1>10. /\ raw \in Seq(Byte) /\ Len(raw) = x + size
       /\ \A i \in 1 .. x : raw[i] = s[i]
       /\ \A i \in 1 .. size : raw[x + i] = t[i]
  BY <1>4, <1>8, <1>9, ConcatType
<1>11. ASSUME NEW i \in 1 .. n PROVE raw[i] = file[i]
  <2>1. i \in 1 .. x /\ i <= n
    BY <1>1, <1>2, <1>3
  <2>. QED
    BY <1>8, <1>10, <2>1
<1>12. \A i \in 1 .. 4 : raw[x + i] = w[i]
  BY <1>1, <1>7, <1>9, <1>10
<1>. QED
  BY <1>2, <1>5, <1>6, <1>10, <1>11, <1>12 DEF raw, n, x, w

IsPart(raw, size, id) ==
  /\ PartOf(raw, size, id) \in Seq(Byte) /\ Len(PartOf(raw, size, id)) = size
  /\ \A k \in 1 .. size : PartOf(raw, size, id)[k] = raw[At(id, size) + k]
  /\ At(id, size) \in Nat /\ At(id, size) + size <= Len(raw)

(* A part of whole parts is as long as a part should be.                   *)
LEMMA PartOfType ==
  ASSUME NEW raw \in Seq(Byte), NEW size \in Nat, NEW num \in Nat, NEW id \in 0 .. num - 1, Len(raw) = At(num, size)
  PROVE  IsPart(raw, size, id)
<1>1. At(id, size) \in Nat /\ At(id, size) + size <= Len(raw) /\ (id + 1) * size = At(id, size) + size
  BY Times DEF At
<1> DEFINE x == At(id, size)
<1> HIDE DEF x
<1>2. /\ SubSeq(raw, x + 1, x + size) \in Seq(Byte) /\ Len(SubSeq(raw, x + 1, x + size)) = size
      /\ \A k \in 1 .. size : SubSeq(raw, x + 1, x + size)[k] = raw[x + k]
  <2>1. x \in Nat /\ x + size <= Len(raw)
    BY <1>1 DEF x
  <2>. QED
    BY <2>1, SubSeqType
<1>3. PartOf(raw, size, id) = SubSeq(raw, x + 1, x + size)
  BY <1>1 DEF PartOf, x, At
<1>. QED
  BY <1>1, <1>2, <1>3 DEF x, IsPart

(* The place of a byte in the parts.                                       *)
PartWith(i, size) == (i - 1) \div size
InPart(i, size) == ((i - 1) % size) + 1

(* Every byte is in one part.                                              *)
LEMMA PlaceInPart ==
  ASSUME NEW size \in Nat \ {0}, NEW num \in Nat, NEW i \in 1 .. At(num, size)
  PROVE  /\ PartWith(i, size) \in 0 .. num - 1 /\ InPart(i, size) \in 1 .. size
         /\ At(PartWith(i, size), size) + InPart(i, size) = i
<1> DEFINE q == (i - 1) \div size
           r == (i - 1) % size
<1>1. num * size \in Nat
  OBVIOUS
<1>2. i - 1 \in Nat /\ i - 1 < num * size
  BY <1>1 DEF At
<1>3. q \in Nat /\ r \in 0 .. size - 1 /\ i - 1 = q * size + r
  BY <1>2
<1> HIDE DEF q, r
<1>4. q < num
  <2>1. SUFFICES ASSUME num <= q PROVE FALSE
    BY <1>3
  <2>2. num * size <= q * size
    BY <1>3, <2>1
  <2>3. q * size \in Nat
    BY <1>3
  <2>. QED
    BY <1>1, <1>2, <1>3, <2>2, <2>3
<1>5. q * size + r + 1 = i
  <2>1. q * size \in Nat
    BY <1>3
  <2>. QED
    BY <1>3, <2>1
<1>. QED
  BY <1>3, <1>4, <1>5 DEF q, r, At, PartWith, InPart

(* Bytes whose parts are all the same are the same.                        *)
LEMMA AllParts ==
  ASSUME NEW x \in Seq(Byte), NEW y \in Seq(Byte), NEW size \in Nat \ {0}, NEW num \in Nat,
         Len(x) = At(num, size), Len(y) = At(num, size),
         \A id \in 0 .. num - 1 : PartOf(x, size, id) = PartOf(y, size, id)
  PROVE  x = y
<1>1. ASSUME NEW i \in 1 .. At(num, size)
      PROVE  x[i] = y[i]
  <2> DEFINE id == PartWith(i, size)
             k == InPart(i, size)
  <2>1. id \in 0 .. num - 1 /\ k \in 1 .. size /\ At(id, size) + k = i
    BY PlaceInPart
  <2> HIDE DEF id, k
  <2>2. PartOf(x, size, id)[k] = x[At(id, size) + k] /\ PartOf(y, size, id)[k] = y[At(id, size) + k]
    <3>1. size \in Nat /\ id \in 0 .. num - 1
      BY <2>1
    <3>2. IsPart(x, size, id)
      BY <3>1, PartOfType
    <3>3. IsPart(y, size, id)
      BY <3>1, PartOfType
    <3>. QED
      BY <2>1, <3>2, <3>3 DEF IsPart
  <2>. QED
    BY <2>1, <2>2
<1>. QED
  BY <1>1, SeqEqual

(* A part written into the blob is there, and the others are as they were. *)
Write(blob0, size, id, part_bytes) ==
  [i \in DOMAIN blob0 |-> LET k == i - At(id, size) IN IF k \in DOMAIN part_bytes THEN part_bytes[k] ELSE blob0[i]]

(* A part that is written is there, and the other parts stay.              *)
LEMMA Written ==
  ASSUME NEW blob0 \in Seq(Byte), NEW size \in Nat, NEW num \in Nat, NEW id \in 0 .. num - 1,
         Len(blob0) = At(num, size), NEW part_bytes \in Seq(Byte), Len(part_bytes) = size
  PROVE  /\ Write(blob0, size, id, part_bytes) \in Seq(Byte) /\ Len(Write(blob0, size, id, part_bytes)) = At(num, size)
         /\ PartOf(Write(blob0, size, id, part_bytes), size, id) = part_bytes
         /\ \A j \in 0 .. num - 1 : j # id =>
               PartOf(Write(blob0, size, id, part_bytes), size, j) = PartOf(blob0, size, j)
<1> DEFINE new == Write(blob0, size, id, part_bytes)
           x == At(id, size)
           n == At(num, size)
<1>1. x \in Nat /\ x + size <= n /\ n \in Nat /\ DOMAIN blob0 = 1 .. n /\ DOMAIN part_bytes = 1 .. size
  <2>1. IsPart(blob0, size, id)
    BY PartOfType
  <2>. QED
    BY <2>1, LenProperties DEF IsPart
<1>2. /\ \A i \in 1 .. n : blob0[i] \in Byte
      /\ \A k \in 1 .. size : part_bytes[k] \in Byte
  BY ElementOfSeq
<1>3. new = [i \in 1 .. n |-> IF i - x \in 1 .. size THEN part_bytes[i - x] ELSE blob0[i]]
  BY <1>1 DEF Write
<1> HIDE DEF new, x, n
<1>4. new \in [1 .. n -> Byte]
  BY <1>1, <1>2, <1>3
<1>5. new \in Seq(Byte) /\ Len(new) = n
  BY <1>1, <1>4, FunctionSeq
<1>6. \A i \in 1 .. n : new[i] = IF i - x \in 1 .. size THEN part_bytes[i - x] ELSE blob0[i]
  BY <1>3
<1>7. \A j \in 0 .. num - 1 : IsPart(new, size, j) /\ IsPart(blob0, size, j)
  <2>1. Len(new) = At(num, size)
    BY <1>5 DEF n
  <2>. QED
    BY <1>5, <2>1, PartOfType
<1>8. PartOf(new, size, id) = part_bytes
  <2>1. /\ PartOf(new, size, id) \in Seq(Byte) /\ Len(PartOf(new, size, id)) = size
        /\ \A k \in 1 .. size : PartOf(new, size, id)[k] = new[x + k]
    BY <1>7 DEF IsPart, x
  <2>2. \A k \in 1 .. size : x + k \in 1 .. n /\ x + k - x = k
    BY <1>1
  <2>3. ASSUME NEW k \in 1 .. size PROVE PartOf(new, size, id)[k] = part_bytes[k]
    <3>1. new[x + k] = part_bytes[k]
      BY <1>1, <1>6, <2>2
    <3>. QED
      BY <2>1, <3>1
  <2>. QED
    BY <2>1, <2>3, SeqEqual
<1>9. ASSUME NEW j \in 0 .. num - 1, j # id
      PROVE  PartOf(new, size, j) = PartOf(blob0, size, j)
  <2> DEFINE y == At(j, size)
  <2>1. y \in Nat /\ y + size <= n /\ (y + size <= x \/ x + size <= y)
    <3>1. j \in Nat /\ id \in Nat
      OBVIOUS
    <3>2. y \in Nat /\ y + size <= n
      BY <1>7 DEF IsPart, n
    <3>3. y + size <= x \/ x + size <= y
      BY <1>9, <3>1, AtType DEF x
    <3>. QED
      BY <3>2, <3>3
  <2>2. /\ PartOf(new, size, j) \in Seq(Byte) /\ Len(PartOf(new, size, j)) = size
        /\ \A k \in 1 .. size : PartOf(new, size, j)[k] = new[y + k]
        /\ PartOf(blob0, size, j) \in Seq(Byte) /\ Len(PartOf(blob0, size, j)) = size
        /\ \A k \in 1 .. size : PartOf(blob0, size, j)[k] = blob0[y + k]
    BY <1>7 DEF IsPart
  <2> HIDE DEF y
  <2>3. \A k \in 1 .. size : y + k \in 1 .. n /\ y + k - x \notin 1 .. size
    BY <1>1, <2>1
  <2>4. ASSUME NEW k \in 1 .. size PROVE PartOf(new, size, j)[k] = PartOf(blob0, size, j)[k]
    <3>1. new[y + k] = blob0[y + k]
      BY <1>1, <1>6, <2>1, <2>3
    <3>. QED
      BY <2>2, <3>1
  <2>. QED
    BY <2>2, <2>4, SeqEqual
<1>. QED
  BY <1>5, <1>8, <1>9 DEF n, new

(* What the constants say of the file in transfer.                         *)
FileParts == CeilDiv(Len(setup.file), PartByteNum)

(* The assumption, for the setup of a behaviour.                           *)
LEMMA SetupType ==
  ASSUME setup \in Setups
  PROVE  /\ setup.file \in Seq(Byte) /\ Len(setup.file) \in 0 .. MaxInt
         /\ b \in 1 .. 3 /\ dim \in [1 .. 4 -> 1 .. MaxInt]
         /\ PartByteNum \in Nat /\ PartByteNum >= 8
         /\ Filled(Len(setup.file), PartByteNum) + PartByteNum <= MaxInt
<1>1. /\ setup.file \in Seq(Byte) /\ setup.b \in 1 .. 3 /\ setup.dim \in [1 .. 4 -> 1 .. MaxInt]
      /\ get_part_byte_num(setup.b, setup.dim) >= 8
      /\ Filled(Len(setup.file), get_part_byte_num(setup.b, setup.dim)) + get_part_byte_num(setup.b, setup.dim) <= MaxInt
  BY ImageTransferAssumption
<1>2. b \in 1 .. 3 /\ dim \in [1 .. 4 -> 1 .. MaxInt]
  BY <1>1 DEF b, dim
<1>3. FrameSize(dim) \in Nat
  <2>1. dim[1] \in Nat /\ dim[2] \in Nat /\ dim[3] \in Nat /\ dim[4] \in Nat
    BY <1>2, MaxIntType
  <2>. QED
    BY <2>1 DEF FrameSize
<1>4. PartByteNum \in Int
  BY <1>2, <1>3 DEF PartByteNum, get_part_byte_num, META_BYTE_NUM
<1>5. PartByteNum >= 8 /\ Filled(Len(setup.file), PartByteNum) + PartByteNum <= MaxInt
  BY <1>1 DEF PartByteNum, b, dim
<1>6. PartByteNum \in Nat
  BY <1>4, <1>5
<1>7. Len(setup.file) \in 0 .. MaxInt
  BY <1>1, <1>5, <1>6, TaskBytes
<1>. QED
  BY <1>1, <1>2, <1>5, <1>6, <1>7

(* The bytes that are sent, for the setup of a behaviour.                  *)
LEMMA RawType ==
  ASSUME setup \in Setups
  PROVE  /\ RawBytes \in Seq(Byte) /\ Len(RawBytes) = At(PartNum, PartByteNum)
         /\ PartNum \in 1 .. MaxInt /\ Len(setup.file) <= At(PartNum - 1, PartByteNum)
         /\ \A i \in 1 .. Len(setup.file) : RawBytes[i] = setup.file[i]
         /\ \A i \in 1 .. 4 : RawBytes[At(PartNum - 1, PartByteNum) + i] = Int32(Len(setup.file))[i]
<1> DEFINE n == PartByteNum
           file == setup.file
           k == CeilDiv(Len(file), n)
           raw == get_task_bytes(file, n)
<1>1. file \in Seq(Byte) /\ n \in Nat /\ n >= 8 /\ Filled(Len(file), n) + n <= MaxInt
  BY SetupType
<1> HIDE DEF n, file
<1>2. /\ raw \in Seq(Byte) /\ k \in Nat /\ Len(raw) = At(k + 1, n)
      /\ Len(raw) \div n = k + 1 /\ k + 1 \in 1 .. MaxInt
      /\ Len(file) <= At(k, n)
      /\ \A i \in 1 .. Len(file) : raw[i] = file[i]
      /\ \A i \in 1 .. 4 : raw[At(k, n) + i] = Int32(Len(file))[i]
  BY <1>1, TaskBytes
<1>3. raw = RawBytes
  BY DEF n, file, RawBytes
<1> HIDE DEF k, raw
<1>4. PartNum = k + 1
  BY <1>2, <1>3 DEF PartNum, n
<1>5. PartNum - 1 = k
  BY <1>2, <1>4
<1>6. RawBytes \in Seq(Byte) /\ Len(RawBytes) = At(PartNum, n) /\ PartNum \in 1 .. MaxInt
  BY <1>2, <1>3, <1>4
<1>7. Len(file) <= At(PartNum - 1, n) /\ \A i \in 1 .. Len(file) : RawBytes[i] = file[i]
  BY <1>2, <1>3, <1>5
<1>8. \A i \in 1 .. 4 : RawBytes[At(PartNum - 1, n) + i] = Int32(Len(file))[i]
  BY <1>2, <1>3, <1>5
<1>. QED
  BY <1>6, <1>7, <1>8 DEF n, file

(* The parts, one after the other, finish as the file.                     *)
LEMMA FinalizedFile ==
  ASSUME setup \in Setups
  PROVE  Finalized(RawBytes) = setup.file
<1> DEFINE n == PartByteNum
           file == setup.file
           x == At(PartNum - 1, n)
           len == Len(file)
           w == Int32(len)
           raw == RawBytes
<1>1. /\ file \in Seq(Byte) /\ len \in 0 .. MaxInt /\ n \in Nat /\ n >= 8
      /\ raw \in Seq(Byte) /\ Len(raw) = At(PartNum, n) /\ PartNum \in 1 .. MaxInt /\ len <= x
      /\ \A i \in 1 .. len : raw[i] = file[i]
      /\ \A i \in 1 .. 4 : raw[x + i] = w[i]
  BY SetupType, RawType
<1>2. x \in Nat /\ x + n <= Len(raw)
  <2>1. PartNum - 1 \in Nat /\ PartNum \in Nat /\ PartNum - 1 < PartNum
    BY <1>1
  <2>. QED
    BY <1>1, <2>1, AtType
<1>3. w \in Seq(Byte) /\ Len(w) = 4 /\ Number(w) = len
  BY <1>1, IntType
<1>4. Finalized(raw) = SubSeq(raw, 1, Number(SubSeq(raw, x + 1, x + 4)))
  BY DEF Finalized, At
<1> HIDE DEF n, file, x, len, w, raw
<1>5. SubSeq(raw, x + 1, x + 4) = w
  <2>1. /\ SubSeq(raw, x + 1, x + 4) \in Seq(Byte) /\ Len(SubSeq(raw, x + 1, x + 4)) = 4
        /\ \A i \in 1 .. 4 : SubSeq(raw, x + 1, x + 4)[i] = raw[x + i]
    <3>1. x + 4 <= Len(raw) /\ 4 \in Nat
      BY <1>1, <1>2, LenProperties
    <3>. QED
      BY <1>1, <1>2, <3>1, SubSeqType
  <2>2. \A i \in 1 .. 4 : SubSeq(raw, x + 1, x + 4)[i] = w[i]
    BY <1>1, <2>1
  <2>. QED
    BY <1>3, <2>1, <2>2, SeqEqual
<1>6. SubSeq(raw, 1, len) = file
  <2>1. /\ SubSeq(raw, 0 + 1, 0 + len) \in Seq(Byte) /\ Len(SubSeq(raw, 0 + 1, 0 + len)) = len
        /\ \A i \in 1 .. len : SubSeq(raw, 0 + 1, 0 + len)[i] = raw[0 + i]
    <3>1. 0 + len <= Len(raw) /\ 0 \in Nat /\ len \in Nat
      BY <1>1, <1>2, LenProperties
    <3>. QED
      BY <1>1, <3>1, SubSeqType
  <2>2. 0 + 1 = 1 /\ 0 + len = len /\ \A i \in 1 .. len : 0 + i = i
    BY <1>1
  <2>3. \A i \in 1 .. len : SubSeq(raw, 1, len)[i] = file[i]
    BY <1>1, <2>1, <2>2
  <2>. QED
    BY <1>1, <2>1, <2>2, <2>3, SeqEqual DEF len
<1>. QED
  BY <1>3, <1>4, <1>5, <1>6 DEF raw, file

(* Where one sequence stands in another.                                   *)
Holds(t, m, w) == m + Len(w) <= Len(t) /\ \A j \in 1 .. Len(w) : t[m + j] = w[j]

(* What bytes hold from m on is cut out of them.                           *)
LEMMA SubSeqIs ==
  ASSUME NEW t \in Seq(Byte), NEW m \in Nat, NEW w \in Seq(Byte), Holds(t, m, w)
  PROVE  SubSeq(t, m + 1, m + Len(w)) = w
<1> DEFINE n == Len(w)
           ss == SubSeq(t, m + 1, m + n)
<1>1. n \in Nat /\ m + n <= Len(t) /\ \A j \in 1 .. n : t[m + j] = w[j]
  BY LenProperties DEF Holds
<1> HIDE DEF n
<1>2. ss \in Seq(Byte) /\ Len(ss) = n /\ \A i \in 1 .. n : ss[i] = t[m + i]
  BY <1>1, SubSeqType
<1> HIDE DEF ss
<1>3. \A i \in 1 .. n : ss[i] = w[i]
  BY <1>1, <1>2
<1>4. ss = w
  BY <1>2, <1>3, SeqEqual DEF n
<1>. QED
  BY <1>4 DEF ss, n

(* Bytes hold what is appended to them, and still do when more is.         *)
LEMMA ConcatHolds ==
  ASSUME NEW s \in Seq(Byte), NEW t \in Seq(Byte)
  PROVE  /\ s \o t \in Seq(Byte) /\ Len(s \o t) = Len(s) + Len(t) /\ Holds(s \o t, Len(s), t)
         /\ \A m \in Nat, w \in Seq(Byte) : Holds(s, m, w) => Holds(s \o t, m, w)
<1> DEFINE st == s \o t
<1>1. /\ st \in Seq(Byte) /\ Len(st) = Len(s) + Len(t)
      /\ \A i \in 1 .. Len(s) : st[i] = s[i]
      /\ \A i \in 1 .. Len(t) : st[Len(s) + i] = t[i]
      /\ Len(s) \in Nat /\ Len(t) \in Nat
  BY ConcatType, LenProperties
<1> HIDE DEF st
<1>2. Holds(st, Len(s), t)
  BY <1>1 DEF Holds
<1>3. ASSUME NEW m \in Nat, NEW w \in Seq(Byte), Holds(s, m, w)
      PROVE  Holds(st, m, w)
  <2>1. Len(w) \in Nat /\ m + Len(w) <= Len(s) /\ \A j \in 1 .. Len(w) : s[m + j] = w[j]
    BY <1>3, LenProperties DEF Holds
  <2>2. \A j \in 1 .. Len(w) : m + j \in 1 .. Len(s)
    BY <1>1, <2>1
  <2>3. \A j \in 1 .. Len(w) : st[m + j] = w[j]
    BY <1>1, <2>1, <2>2
  <2>4. m + Len(w) <= Len(st)
    BY <1>1, <2>1
  <2>. QED
    BY <2>3, <2>4 DEF Holds
<1>. QED
  BY <1>1, <1>2, <1>3 DEF st

(* The task as bytes: seven words and the bitmap.  from_task_bytes reads   *)
(* what ToTaskBytes wrote.                                                 *)
THEOREM TaskBytesBack ==
  ASSUME NEW bits \in 1 .. 3, NEW n \in [1 .. 4 -> 1 .. MaxInt], NEW num \in 0 .. MaxInt, NEW done \in 0 .. MaxInt,
         NEW bytes \in Seq(Byte), Len(bytes) = CeilDiv(num, 8)
  PROVE  from_task_bytes(ToTaskBytes(bits, n, num, done, bytes)) =
            [b |-> bits, dim |-> n, part_num |-> num, done_part_num |-> done, status |-> bytes]
<1> DEFINE w0 == Int32(bits - 1)
           w1 == Int32(n[1])
           w2 == Int32(n[2])
           w3 == Int32(n[3])
           w4 == Int32(n[4])
           w5 == Int32(num)
           w6 == Int32(done)
           s1 == w0 \o w1
           s2 == s1 \o w2
           s3 == s2 \o w3
           s4 == s3 \o w4
           s5 == s4 \o w5
           s6 == s5 \o w6
           t == s6 \o bytes
<1>1. bits - 1 \in 0 .. MaxInt /\ n[1] \in 0 .. MaxInt /\ n[2] \in 0 .. MaxInt /\ n[3] \in 0 .. MaxInt /\ n[4] \in 0 .. MaxInt
  BY MaxIntType
<1>20. w0 \in Seq(Byte) /\ Len(w0) = 4 /\ Number(w0) = bits - 1
  BY <1>1, IntType
<1>21. w1 \in Seq(Byte) /\ Len(w1) = 4 /\ Number(w1) = n[1]
  BY <1>1, IntType
<1>22. w2 \in Seq(Byte) /\ Len(w2) = 4 /\ Number(w2) = n[2]
  BY <1>1, IntType
<1>23. w3 \in Seq(Byte) /\ Len(w3) = 4 /\ Number(w3) = n[3]
  BY <1>1, IntType
<1>24. w4 \in Seq(Byte) /\ Len(w4) = 4 /\ Number(w4) = n[4]
  BY <1>1, IntType
<1>25. w5 \in Seq(Byte) /\ Len(w5) = 4 /\ Number(w5) = num
  BY <1>1, IntType
<1>26. w6 \in Seq(Byte) /\ Len(w6) = 4 /\ Number(w6) = done
  BY <1>1, IntType
<1>3. ToTaskBytes(bits, n, num, done, bytes) = t
  BY DEF ToTaskBytes
<1> HIDE DEF w0, w1, w2, w3, w4, w5, w6
<1> HIDE DEF s1, s2, s3, s4, s5, s6, t
<1>40. Holds(w0, 0, w0)
  BY <1>20 DEF Holds
<1>41. s1 \in Seq(Byte) /\ Len(s1) = 8 /\ Holds(s1, 0, w0) /\ Holds(s1, 4, w1)
  <2>1. w0 \in Seq(Byte) /\ w1 \in Seq(Byte) /\ Len(w0) = 4 /\ Len(w1) = 4
    BY <1>40, <1>20, <1>21
  <2>2. s1 \in Seq(Byte) /\ Len(s1) = Len(w0) + Len(w1) /\ Holds(s1, Len(w0), w1)
        /\ \A m \in Nat, w \in Seq(Byte) : Holds(w0, m, w) => Holds(s1, m, w)
    BY <2>1, ConcatHolds DEF s1
  <2>. QED
    BY <1>40, <1>20, <1>21, <2>1, <2>2
<1>42. s2 \in Seq(Byte) /\ Len(s2) = 12 /\ Holds(s2, 0, w0) /\ Holds(s2, 4, w1) /\ Holds(s2, 8, w2)
  <2>1. s1 \in Seq(Byte) /\ w2 \in Seq(Byte) /\ Len(s1) = 8 /\ Len(w2) = 4
    BY <1>41, <1>21, <1>22
  <2>2. s2 \in Seq(Byte) /\ Len(s2) = Len(s1) + Len(w2) /\ Holds(s2, Len(s1), w2)
        /\ \A m \in Nat, w \in Seq(Byte) : Holds(s1, m, w) => Holds(s2, m, w)
    BY <2>1, ConcatHolds DEF s2
  <2>. QED
    BY <1>41, <1>20, <1>21, <1>22, <2>1, <2>2
<1>43. s3 \in Seq(Byte) /\ Len(s3) = 16 /\ Holds(s3, 0, w0) /\ Holds(s3, 4, w1) /\ Holds(s3, 8, w2) /\ Holds(s3, 12, w3)
  <2>1. s2 \in Seq(Byte) /\ w3 \in Seq(Byte) /\ Len(s2) = 12 /\ Len(w3) = 4
    BY <1>42, <1>22, <1>23
  <2>2. s3 \in Seq(Byte) /\ Len(s3) = Len(s2) + Len(w3) /\ Holds(s3, Len(s2), w3)
        /\ \A m \in Nat, w \in Seq(Byte) : Holds(s2, m, w) => Holds(s3, m, w)
    BY <2>1, ConcatHolds DEF s3
  <2>. QED
    BY <1>42, <1>20, <1>21, <1>22, <1>23, <2>1, <2>2
<1>44. s4 \in Seq(Byte) /\ Len(s4) = 20 /\ Holds(s4, 0, w0) /\ Holds(s4, 4, w1) /\ Holds(s4, 8, w2) /\ Holds(s4, 12, w3) /\ Holds(s4, 16, w4)
  <2>1. s3 \in Seq(Byte) /\ w4 \in Seq(Byte) /\ Len(s3) = 16 /\ Len(w4) = 4
    BY <1>43, <1>23, <1>24
  <2>2. s4 \in Seq(Byte) /\ Len(s4) = Len(s3) + Len(w4) /\ Holds(s4, Len(s3), w4)
        /\ \A m \in Nat, w \in Seq(Byte) : Holds(s3, m, w) => Holds(s4, m, w)
    BY <2>1, ConcatHolds DEF s4
  <2>. QED
    BY <1>43, <1>20, <1>21, <1>22, <1>23, <1>24, <2>1, <2>2
<1>45. s5 \in Seq(Byte) /\ Len(s5) = 24 /\ Holds(s5, 0, w0) /\ Holds(s5, 4, w1) /\ Holds(s5, 8, w2) /\ Holds(s5, 12, w3) /\ Holds(s5, 16, w4) /\ Holds(s5, 20, w5)
  <2>1. s4 \in Seq(Byte) /\ w5 \in Seq(Byte) /\ Len(s4) = 20 /\ Len(w5) = 4
    BY <1>44, <1>24, <1>25
  <2>2. s5 \in Seq(Byte) /\ Len(s5) = Len(s4) + Len(w5) /\ Holds(s5, Len(s4), w5)
        /\ \A m \in Nat, w \in Seq(Byte) : Holds(s4, m, w) => Holds(s5, m, w)
    BY <2>1, ConcatHolds DEF s5
  <2>. QED
    BY <1>44, <1>20, <1>21, <1>22, <1>23, <1>24, <1>25, <2>1, <2>2
<1>46. s6 \in Seq(Byte) /\ Len(s6) = 28 /\ Holds(s6, 0, w0) /\ Holds(s6, 4, w1) /\ Holds(s6, 8, w2) /\ Holds(s6, 12, w3) /\ Holds(s6, 16, w4) /\ Holds(s6, 20, w5) /\ Holds(s6, 24, w6)
  <2>1. s5 \in Seq(Byte) /\ w6 \in Seq(Byte) /\ Len(s5) = 24 /\ Len(w6) = 4
    BY <1>45, <1>25, <1>26
  <2>2. s6 \in Seq(Byte) /\ Len(s6) = Len(s5) + Len(w6) /\ Holds(s6, Len(s5), w6)
        /\ \A m \in Nat, w \in Seq(Byte) : Holds(s5, m, w) => Holds(s6, m, w)
    BY <2>1, ConcatHolds DEF s6
  <2>. QED
    BY <1>45, <1>20, <1>21, <1>22, <1>23, <1>24, <1>25, <1>26, <2>1, <2>2
<1>5. t \in Seq(Byte) /\ Len(t) = 28 + Len(bytes) /\ Holds(t, 28, bytes)
      /\ Holds(t, 0, w0) /\ Holds(t, 4, w1) /\ Holds(t, 8, w2) /\ Holds(t, 12, w3) /\ Holds(t, 16, w4) /\ Holds(t, 20, w5) /\ Holds(t, 24, w6)
  <2>2. t \in Seq(Byte) /\ Len(t) = Len(s6) + Len(bytes) /\ Holds(t, Len(s6), bytes)
        /\ \A m \in Nat, w \in Seq(Byte) : Holds(s6, m, w) => Holds(t, m, w)
    BY <1>46, ConcatHolds DEF t
  <2>. QED
    BY <1>46, <1>20, <1>21, <1>22, <1>23, <1>24, <1>25, <1>26, <2>2
<1>6. Len(bytes) \in Nat
  BY LenProperties
<1>70. Number(SubSeq(t, 4 * 0 + 1, 4 * 0 + 4)) = bits - 1
  <2>1. SubSeq(t, 0 + 1, 0 + Len(w0)) = w0
    BY <1>20, <1>5, SubSeqIs
  <2>2. 4 * 0 + 1 = 0 + 1 /\ 4 * 0 + 4 = 0 + Len(w0)
    BY <1>20
  <2>. QED
    BY <1>20, <2>1, <2>2
<1>71. Number(SubSeq(t, 4 * 1 + 1, 4 * 1 + 4)) = n[1]
  <2>1. SubSeq(t, 4 + 1, 4 + Len(w1)) = w1
    BY <1>21, <1>5, SubSeqIs
  <2>2. 4 * 1 + 1 = 4 + 1 /\ 4 * 1 + 4 = 4 + Len(w1)
    BY <1>21
  <2>. QED
    BY <1>21, <2>1, <2>2
<1>72. Number(SubSeq(t, 4 * 2 + 1, 4 * 2 + 4)) = n[2]
  <2>1. SubSeq(t, 8 + 1, 8 + Len(w2)) = w2
    BY <1>22, <1>5, SubSeqIs
  <2>2. 4 * 2 + 1 = 8 + 1 /\ 4 * 2 + 4 = 8 + Len(w2)
    BY <1>22
  <2>. QED
    BY <1>22, <2>1, <2>2
<1>73. Number(SubSeq(t, 4 * 3 + 1, 4 * 3 + 4)) = n[3]
  <2>1. SubSeq(t, 12 + 1, 12 + Len(w3)) = w3
    BY <1>23, <1>5, SubSeqIs
  <2>2. 4 * 3 + 1 = 12 + 1 /\ 4 * 3 + 4 = 12 + Len(w3)
    BY <1>23
  <2>. QED
    BY <1>23, <2>1, <2>2
<1>74. Number(SubSeq(t, 4 * 4 + 1, 4 * 4 + 4)) = n[4]
  <2>1. SubSeq(t, 16 + 1, 16 + Len(w4)) = w4
    BY <1>24, <1>5, SubSeqIs
  <2>2. 4 * 4 + 1 = 16 + 1 /\ 4 * 4 + 4 = 16 + Len(w4)
    BY <1>24
  <2>. QED
    BY <1>24, <2>1, <2>2
<1>75. Number(SubSeq(t, 4 * 5 + 1, 4 * 5 + 4)) = num
  <2>1. SubSeq(t, 20 + 1, 20 + Len(w5)) = w5
    BY <1>25, <1>5, SubSeqIs
  <2>2. 4 * 5 + 1 = 20 + 1 /\ 4 * 5 + 4 = 20 + Len(w5)
    BY <1>25
  <2>. QED
    BY <1>25, <2>1, <2>2
<1>76. Number(SubSeq(t, 4 * 6 + 1, 4 * 6 + 4)) = done
  <2>1. SubSeq(t, 24 + 1, 24 + Len(w6)) = w6
    BY <1>26, <1>5, SubSeqIs
  <2>2. 4 * 6 + 1 = 24 + 1 /\ 4 * 6 + 4 = 24 + Len(w6)
    BY <1>26
  <2>. QED
    BY <1>26, <2>1, <2>2
<1>8. SubSeq(t, 29, 28 + CeilDiv(num, 8)) = bytes
  <2>1. SubSeq(t, 28 + 1, 28 + Len(bytes)) = bytes
    BY <1>5, SubSeqIs
  <2>. QED
    BY <2>1
<1>9. [i \in 1 .. 4 |-> Number(SubSeq(t, 4 * i + 1, 4 * i + 4))] = n
  BY <1>71, <1>72, <1>73, <1>74
<1>10. bits - 1 + 1 = bits
  OBVIOUS
<1> DEFINE W(i) == Number(SubSeq(t, 4 * i + 1, 4 * i + 4))
<1>11. from_task_bytes(t) =
         IF Len(t) # 4 * 7 + CeilDiv(W(5), 8) THEN None
         ELSE [b |-> W(0) + 1, dim |-> [i \in 1 .. 4 |-> W(i)], part_num |-> W(5), done_part_num |-> W(6),
               status |-> SubSeq(t, 29, 4 * 7 + CeilDiv(W(5), 8))]
  BY DEF from_task_bytes
<1>12. Len(t) = 4 * 7 + CeilDiv(W(5), 8) /\ 4 * 7 + CeilDiv(W(5), 8) = 28 + CeilDiv(num, 8)
  BY <1>5, <1>75
<1>13. W(0) + 1 = bits /\ W(5) = num /\ W(6) = done /\ [i \in 1 .. 4 |-> W(i)] = n
  BY <1>9, <1>10, <1>70, <1>75, <1>76
<1> HIDE DEF W
<1>14. from_task_bytes(t) = [b |-> bits, dim |-> n, part_num |-> num, done_part_num |-> done, status |-> bytes]
  BY <1>8, <1>11, <1>12, <1>13
<1>. QED
  BY <1>3, <1>14 DEF t, s1, s2, s3, s4, s5, s6, w0, w1, w2, w3, w4, w5, w6

-----------------------------------------------------------------------------
(* The invariant of the task, and of the status that is told.              *)
Done(num, bytes) == {id \in 0 .. num - 1 : is_part_done(bytes, id)}
Bitmap(num, bytes) == bytes \in Seq(Byte) /\ Len(bytes) = CeilDiv(num, 8)

TaskInv ==
  /\ setup \in Setups
  /\ Bitmap(PartNum, m_task_status_bytes)
  /\ m_done_part_num = Cardinality(Done(PartNum, m_task_status_bytes))
  /\ blob \in Seq(Byte) /\ Len(blob) = At(PartNum, PartByteNum)
  /\ \A id \in Done(PartNum, m_task_status_bytes) : PartOf(blob, PartByteNum, id) = PartOf(RawBytes, PartByteNum, id)
  /\ Finished => output = setup.file
StatusInv ==
  task_bytes # None =>
    \E bytes : /\ Bitmap(PartNum, bytes) /\ Done(PartNum, bytes) \subseteq Done(PartNum, m_task_status_bytes)
               /\ task_bytes = ToTaskBytes(b, dim, PartNum, Cardinality(Done(PartNum, bytes)), bytes)

(* The parts done are counted up to all of them.                           *)
LEMMA DoneFinite ==
  ASSUME setup \in Setups, NEW bytes
  PROVE  /\ IsFiniteSet(Done(PartNum, bytes)) /\ Cardinality(Done(PartNum, bytes)) \in 0 .. PartNum
         /\ Cardinality(Done(PartNum, bytes)) = PartNum => Done(PartNum, bytes) = 0 .. PartNum - 1
<1>1. PartNum \in Nat /\ 0 \in Int /\ PartNum - 1 \in Int
  BY RawType
<1>2. IsFiniteSet(0 .. PartNum - 1) /\ Cardinality(0 .. PartNum - 1) = PartNum
  <2>1. /\ IsFiniteSet(0 .. PartNum - 1)
        /\ Cardinality(0 .. PartNum - 1) = IF 0 > PartNum - 1 THEN 0 ELSE PartNum - 1 - 0 + 1
    BY <1>1, FS_Interval
  <2>. QED
    BY <1>1, <2>1
<1>3. Done(PartNum, bytes) \subseteq 0 .. PartNum - 1
  BY DEF Done
<1>4. /\ IsFiniteSet(Done(PartNum, bytes)) /\ Cardinality(Done(PartNum, bytes)) <= PartNum
      /\ Cardinality(Done(PartNum, bytes)) = PartNum => Done(PartNum, bytes) = 0 .. PartNum - 1
  BY <1>2, <1>3, FS_Subset
<1>5. Cardinality(Done(PartNum, bytes)) \in Nat
  BY <1>4, FS_CardinalityType
<1>. QED
  BY <1>1, <1>4, <1>5

(* A part number has its bit in the bitmap.                                *)
LEMMA PartBit ==
  ASSUME setup \in Setups, NEW bytes, Bitmap(PartNum, bytes), NEW id \in 0 .. PartNum - 1
  PROVE  id \in Nat /\ id \div 8 + 1 <= Len(bytes)
<1>1. PartNum \in Nat
  BY RawType
<1>2. CeilDiv(PartNum, 8) = (PartNum + 7) \div 8
  BY <1>1 DEF CeilDiv
<1>. QED
  BY <1>1, <1>2 DEF Bitmap

(* Mark adds its part to those done.                                       *)
LEMMA MarkDone ==
  ASSUME setup \in Setups, NEW bytes, Bitmap(PartNum, bytes), NEW id \in 0 .. PartNum - 1
  PROVE  Bitmap(PartNum, Mark(bytes, id)) /\ Done(PartNum, Mark(bytes, id)) = Done(PartNum, bytes) \cup {id}
<1>1. \A j \in 0 .. PartNum - 1 : j \in Nat /\ j \div 8 + 1 <= Len(bytes)
  BY PartBit
<1>2. bytes \in Seq(Byte)
  BY DEF Bitmap
<1> DEFINE new == Mark(bytes, id)
<1>3. /\ new \in Seq(Byte) /\ Len(new) = Len(bytes)
      /\ \A j \in Nat : j \div 8 + 1 <= Len(bytes) =>
            (is_part_done(new, j) <=> j = id \/ is_part_done(bytes, j))
  BY <1>1, <1>2, MarkIsDone
<1> HIDE DEF new
<1>4. \A j \in 0 .. PartNum - 1 : is_part_done(new, j) <=> j = id \/ is_part_done(bytes, j)
  BY <1>1, <1>3
<1>5. Done(PartNum, new) = Done(PartNum, bytes) \cup {id}
  BY <1>4 DEF Done
<1>. QED
  BY <1>3, <1>5 DEF Bitmap, new

(* The task begins with no part,                                           *)
LEMMA TaskInit ==
  ASSUME Init
  PROVE  TaskInv /\ StatusInv
<1>1. setup \in Setups /\ task_bytes = None
  BY DEF Init
<1>2. PartNum \in 1 .. MaxInt /\ PartByteNum \in Nat /\ 0 \in Byte /\ <<>> \in Seq(Byte)
  BY <1>1, RawType, SetupType DEF Byte
<1> DEFINE n == CeilDiv(PartNum, 8)
           m == At(PartNum, PartByteNum)
<1>3. n \in Nat /\ m \in Nat /\ m = PartNum * PartByteNum
  <2>1. PartNum \in Nat
    BY <1>2
  <2>. QED
    BY <1>2, <2>1 DEF CeilDiv, At
<1>4. m_task_status_bytes = Resized(<<>>, n) /\ m_done_part_num = 0 /\ blob = Resized(<<>>, m)
  BY <1>3 DEF Init
<1> HIDE DEF n, m
<1>5. /\ m_task_status_bytes \in Seq(Byte) /\ Len(m_task_status_bytes) = n
      /\ \A i \in 1 .. n : m_task_status_bytes[i] = 0
  <2>1. \A i \in 1 .. n : ~(i <= Len(<<>>))
    BY <1>3
  <2>. QED
    BY <1>2, <1>3, <1>4, <2>1, ResizedType
<1>6. blob \in Seq(Byte) /\ Len(blob) = m
  BY <1>2, <1>3, <1>4, ResizedType
<1>7. Bitmap(PartNum, m_task_status_bytes)
  BY <1>5 DEF Bitmap, n
<1>8. Done(PartNum, m_task_status_bytes) = {}
  <2> SUFFICES ASSUME NEW id \in 0 .. PartNum - 1
               PROVE  ~is_part_done(m_task_status_bytes, id)
    BY DEF Done
  <2>1. id \in Nat /\ id \div 8 + 1 <= n
    BY <1>1, <1>5, <1>7, PartBit
  <2>2. m_task_status_bytes[id \div 8 + 1] = 0
    BY <1>5, <2>1
  <2>3. Mask(id) \in {1, 2, 4, 8, 16, 32, 64, 128}
    BY <2>1 DEF Mask
  <2>. QED
    BY <2>2, <2>3 DEF is_part_done
<1>9. m_done_part_num = Cardinality(Done(PartNum, m_task_status_bytes)) /\ ~Finished
  <2>1. Cardinality({}) = 0
    BY FS_EmptySet
  <2>2. PartNum # 0
    BY <1>2
  <2>. QED
    BY <1>4, <1>8, <2>1, <2>2 DEF Finished
<1>. QED
  BY <1>1, <1>6, <1>7, <1>8, <1>9 DEF TaskInv, StatusInv, m

(* The setup never changes, nor what is computed from it.                  *)
LEMMA SameSetup ==
  ASSUME UNCHANGED setup
  PROVE  PartNum' = PartNum /\ PartByteNum' = PartByteNum /\ RawBytes' = RawBytes /\ b' = b /\ dim' = dim
BY DEF PartNum, RawBytes, PartByteNum, b, dim

(* A part that is kept keeps the invariant, and with the last one the file *)
(* is there.                                                               *)
LEMMA KeepPart ==
  ASSUME TaskInv, UNCHANGED setup, NEW id \in 0 .. PartNum - 1, ~is_part_done(m_task_status_bytes, id),
         Keep(id, PartOf(RawBytes, PartByteNum, id))
  PROVE  TaskInv' /\ Done(PartNum, m_task_status_bytes') = Done(PartNum, m_task_status_bytes) \cup {id}
<1> DEFINE n == PartByteNum
           num == PartNum
           raw == RawBytes
           part == PartOf(raw, n, id)
           old == Done(num, m_task_status_bytes)
           new == Done(num, m_task_status_bytes')
<1>1. /\ setup \in Setups /\ Bitmap(num, m_task_status_bytes) /\ m_done_part_num = Cardinality(old)
      /\ blob \in Seq(Byte) /\ Len(blob) = At(num, n)
      /\ \A i \in old : PartOf(blob, n, i) = PartOf(raw, n, i)
  BY DEF TaskInv
<1>2. n \in Nat /\ n >= 8 /\ raw \in Seq(Byte) /\ Len(raw) = At(num, n) /\ num \in Nat /\ Finalized(raw) = setup.file
  BY <1>1, SetupType, RawType, FinalizedFile
<1>3. part \in Seq(Byte) /\ Len(part) = n
  BY <1>2, PartOfType DEF IsPart
<1>4. /\ m_task_status_bytes' = Mark(m_task_status_bytes, id) /\ m_done_part_num' = m_done_part_num + 1
      /\ blob' = Write(blob, n, id, part)
      /\ output' = IF m_done_part_num' = num THEN Finalized(blob') ELSE None
  BY DEF Keep, Write, At
<1>5. Bitmap(num, m_task_status_bytes') /\ new = old \cup {id}
  BY <1>1, <1>4, MarkDone
<1>6. m_done_part_num' = Cardinality(new)
  <2>1. IsFiniteSet(old) /\ id \notin old
    BY <1>1, DoneFinite DEF Done
  <2>. QED
    BY <1>1, <1>4, <1>5, <2>1, FS_AddElement
<1> HIDE DEF n, num, raw, part
<1>7. /\ blob' \in Seq(Byte) /\ Len(blob') = At(num, n) /\ PartOf(blob', n, id) = part
      /\ \A j \in 0 .. num - 1 : j # id => PartOf(blob', n, j) = PartOf(blob, n, j)
  <2>1. id \in 0 .. num - 1
    BY DEF num
  <2>. QED
    BY <1>1, <1>2, <1>3, <1>4, <2>1, Written
<1>8. \A i \in new : PartOf(blob', n, i) = PartOf(raw, n, i)
  <2>1. \A i \in old : i \in 0 .. num - 1
    BY DEF Done
  <2>. QED
    BY <1>1, <1>5, <1>7, <2>1 DEF part
<1>9. m_done_part_num' = num => output' = setup.file
  <2> SUFFICES ASSUME m_done_part_num' = num PROVE output' = setup.file
    OBVIOUS
  <2>1. new = 0 .. num - 1
    BY <1>1, <1>6, DoneFinite DEF num
  <2>2. blob' = raw
    <3>1. n \in Nat \ {0} /\ \A i \in 0 .. num - 1 : PartOf(blob', n, i) = PartOf(raw, n, i)
      BY <1>2, <1>8, <2>1
    <3>. QED
      BY <1>2, <1>7, <3>1, AllParts
  <2>. QED
    BY <1>2, <1>4, <2>2
<1>10. PartNum' = num /\ PartByteNum' = n /\ RawBytes' = raw /\ setup' = setup
  BY SameSetup DEF n, num, raw
<1>. QED
  BY <1>1, <1>5, <1>6, <1>7, <1>8, <1>9, <1>10 DEF TaskInv, Finished, num, n, raw

(* Every step keeps the invariant, if the frame it saves was sent.         *)
LEMMA TaskStep ==
  ASSUME TaskInv, StatusInv, CrcTells, [Next]_vars
  PROVE  TaskInv' /\ StatusInv'
<1>1. ASSUME UNCHANGED <<setup, task, status>> PROVE TaskInv' /\ StatusInv'
  <2>1. /\ UNCHANGED setup /\ UNCHANGED m_task_status_bytes /\ UNCHANGED m_done_part_num /\ UNCHANGED blob
        /\ UNCHANGED output /\ UNCHANGED task_bytes
    BY <1>1 DEF task, status
  <2>2. PartNum' = PartNum /\ PartByteNum' = PartByteNum /\ RawBytes' = RawBytes /\ b' = b /\ dim' = dim
    BY <2>1, SameSetup
  <2>3. TaskInv'
    BY <2>1, <2>2 DEF TaskInv, Finished
  <2>4. StatusInv'
    BY <2>1, <2>2 DEF StatusInv
  <2>. QED
    BY <2>3, <2>4
<1>2. CASE SavePart
  <2>1. UNCHANGED setup /\ frame # None
    BY <1>2 DEF SavePart
  <2>2. PartNum' = PartNum /\ PartByteNum' = PartByteNum /\ RawBytes' = RawBytes /\ b' = b /\ dim' = dim
    BY <2>1, SameSetup
  <2>3. ASSUME UNCHANGED task PROVE TaskInv' /\ m_task_status_bytes' = m_task_status_bytes
    BY <2>1, <2>2, <2>3 DEF TaskInv, Finished, task
  <2>4. TaskInv' /\ Done(PartNum, m_task_status_bytes) \subseteq Done(PartNum, m_task_status_bytes')
    <3>1. CASE ~frame[1]
      BY <1>2, <2>3, <3>1 DEF SavePart
    <3>2. CASE frame[1]
      <4>1. PICK id \in 0 .. PartNum - 1 : frame = <<TRUE, Halves(id), PartOf(RawBytes, PartByteNum, id)>>
        BY <2>1, <3>2 DEF CrcTells
      <4>2. Whole(frame[2]) = id /\ frame[3] = PartOf(RawBytes, PartByteNum, id)
        <5>1. setup \in Setups
          BY DEF TaskInv
        <5>2. id \in 0 .. MaxInt
          BY <5>1, RawType, MaxIntType
        <5>. QED
          BY <4>1, <5>2, IntType
      <4>3. UpdatePart(id, PartOf(RawBytes, PartByteNum, id))
        BY <1>2, <3>2, <4>2 DEF SavePart
      <4>4. CASE is_part_done(m_task_status_bytes, id)
        BY <2>3, <4>3, <4>4 DEF UpdatePart
      <4>5. CASE ~is_part_done(m_task_status_bytes, id)
        BY <2>1, <4>3, <4>5, KeepPart DEF UpdatePart
      <4>. QED
        BY <4>4, <4>5
    <3>. QED
      BY <3>1, <3>2
  <2>5. StatusInv'
    <3>1. CASE task_bytes' = task_bytes
      BY <2>2, <2>4, <3>1 DEF StatusInv
    <3>2. CASE task_bytes' = ToTaskBytes(b, dim, PartNum, m_done_part_num', m_task_status_bytes')
      <4>1. Bitmap(PartNum, m_task_status_bytes') /\ m_done_part_num' = Cardinality(Done(PartNum, m_task_status_bytes'))
        BY <2>2, <2>4 DEF TaskInv
      <4>. QED
        BY <2>2, <3>2, <4>1 DEF StatusInv
    <3>. QED
      BY <1>2, <3>1, <3>2 DEF SavePart
  <2>. QED
    BY <2>4, <2>5
<1>3. CASE CalibrateFirst
  BY <1>1, <1>3 DEF CalibrateFirst
<1>4. CASE SendImage
  BY <1>1, <1>4 DEF SendImage
<1>5. CASE ReceiveImage
  BY <1>1, <1>5 DEF ReceiveImage
<1>6. CASE MisreadImage
  BY <1>1, <1>6 DEF MisreadImage
<1>7. CASE UNCHANGED vars
  BY <1>1, <1>7 DEF vars
<1>. QED
  BY <1>2, <1>3, <1>4, <1>5, <1>6, <1>7 DEF Next

(* The invariant is enough for what is kept,                               *)
LEMMA TaskInvKept ==
  ASSUME TaskInv
  PROVE  KeptIsSent
<1>1. Done(PartNum, m_task_status_bytes) = {id \in 0 .. PartNum - 1 : is_part_done(m_task_status_bytes, id)}
  BY DEF Done
<1>. QED
  BY <1>1 DEF TaskInv, KeptIsSent

(* ... and for what the status tells.                                      *)
LEMMA StatusInvTold ==
  ASSUME TaskInv, StatusInv
  PROVE  StatusTold
<1> SUFFICES ASSUME task_bytes # None
             PROVE  LET told == from_task_bytes(task_bytes)
                    IN  /\ told # None
                        /\ told.b = b /\ told.dim = dim /\ told.part_num = PartNum
                        /\ told.done_part_num = Cardinality({id \in 0 .. PartNum - 1 : is_part_done(told.status, id)})
                        /\ \A id \in 0 .. PartNum - 1 :
                              is_part_done(told.status, id) => is_part_done(m_task_status_bytes, id)
  BY DEF StatusTold
<1>1. PICK bytes : /\ Bitmap(PartNum, bytes) /\ Done(PartNum, bytes) \subseteq Done(PartNum, m_task_status_bytes)
                   /\ task_bytes = ToTaskBytes(b, dim, PartNum, Cardinality(Done(PartNum, bytes)), bytes)
  BY DEF StatusInv
<1> DEFINE count == Cardinality(Done(PartNum, bytes))
           told == from_task_bytes(task_bytes)
<1>2. setup \in Setups
  BY DEF TaskInv
<1>3. b \in 1 .. 3 /\ dim \in [1 .. 4 -> 1 .. MaxInt] /\ PartNum \in 0 .. MaxInt /\ count \in 0 .. MaxInt
  BY <1>2, SetupType, RawType, DoneFinite, MaxIntType
<1> HIDE DEF count
<1>4. told = [b |-> b, dim |-> dim, part_num |-> PartNum, done_part_num |-> count, status |-> bytes]
  BY <1>1, <1>3, TaskBytesBack DEF Bitmap, count
<1> HIDE DEF told
<1>5. told # None /\ told.b = b /\ told.dim = dim /\ told.part_num = PartNum /\ told.done_part_num = count /\ told.status = bytes
  BY <1>4 DEF None
<1>6. Done(PartNum, bytes) = {id \in 0 .. PartNum - 1 : is_part_done(bytes, id)}
  BY DEF Done
<1>7. \A id \in 0 .. PartNum - 1 : is_part_done(bytes, id) => is_part_done(m_task_status_bytes, id)
  BY <1>1 DEF Done
<1>. QED
  BY <1>5, <1>6, <1>7 DEF told, count

-----------------------------------------------------------------------------
(* base64: six bits are a character and back.                              *)
LEMMA InverseOfAlphabet ==
  ASSUME NEW v \in 0 .. 63
  PROVE  Alphabet(v) \in Byte /\ Inverse64(Alphabet(v)) = v
<1>1. Alphabet(v) = IF v < 26 THEN v + 65 ELSE IF v < 52 THEN v + 71 ELSE IF v < 62 THEN v - 4 ELSE IF v = 62 THEN 43 ELSE 47
  BY DEF Alphabet
<1> DEFINE c == Alphabet(v)
<1>2. Inverse64(c) = IF c \in 65 .. 90 THEN c - 65 ELSE IF c \in 97 .. 122 THEN c - 71 ELSE IF c \in 48 .. 57 THEN c + 4
                     ELSE IF c = 43 THEN 62 ELSE IF c = 47 THEN 63 ELSE -1
  <2> HIDE DEF c
  <2>1. c \in Int
    BY <1>1 DEF c
  <2>. QED
    BY <2>1 DEF Inverse64
<1> HIDE DEF c
<1>3. c \in 43 .. 122
  BY <1>1 DEF c
<1>. QED
  BY <1>1, <1>2, <1>3 DEF c, Byte

(* The padding is no character of the alphabet.                            *)
LEMMA InverseOfPad == PadChar \in Byte /\ Inverse64(PadChar) = -1
BY DEF PadChar, Inverse64, Byte

(* The six bits of a character, from the three bytes of its group.         *)
ByteOr0(bytes, i) == IF i <= Len(bytes) THEN bytes[i] ELSE 0
SixBits(b0, b1, b2, k) ==
  IF k = 0 THEN b0 \div 4
  ELSE IF k = 1 THEN (b0 % 4) * 16 + b1 \div 16
  ELSE IF k = 2 THEN (b1 % 16) * 4 + b2 \div 64
  ELSE b2 % 64

(* Three bytes are four times six bits, and back.                          *)
LEMMA SixBitsType ==
  ASSUME NEW b0 \in Byte, NEW b1 \in Byte, NEW b2 \in Byte
  PROVE  /\ \A k \in 0 .. 3 : SixBits(b0, b1, b2, k) \in 0 .. 63
         /\ (SixBits(b0, b1, b2, 0) * 4 + SixBits(b0, b1, b2, 1) \div 16) % 256 = b0
         /\ (SixBits(b0, b1, b2, 1) * 16 + SixBits(b0, b1, b2, 2) \div 4) % 256 = b1
         /\ (SixBits(b0, b1, b2, 2) * 64 + SixBits(b0, b1, b2, 3)) % 256 = b2
<1>1. SixBits(b0, b1, b2, 0) = b0 \div 4 /\ SixBits(b0, b1, b2, 1) = (b0 % 4) * 16 + b1 \div 16
      /\ SixBits(b0, b1, b2, 2) = (b1 % 16) * 4 + b2 \div 64 /\ SixBits(b0, b1, b2, 3) = b2 % 64
  BY DEF SixBits
<1>2. b0 \div 4 \in 0 .. 63 /\ (b0 % 4) * 16 + b1 \div 16 \in 0 .. 63 /\ (b1 % 16) * 4 + b2 \div 64 \in 0 .. 63 /\ b2 % 64 \in 0 .. 63
  BY DEF Byte
<1>3. \A k \in 0 .. 3 : k = 0 \/ k = 1 \/ k = 2 \/ k = 3
  OBVIOUS
<1>4. ((b0 \div 4) * 4 + ((b0 % 4) * 16 + b1 \div 16) \div 16) % 256 = b0
  <2>1. ((b0 % 4) * 16 + b1 \div 16) \div 16 = b0 % 4
    BY DEF Byte
  <2>2. (b0 \div 4) * 4 + (b0 % 4) = b0
    BY DEF Byte
  <2>. QED
    BY <2>1, <2>2 DEF Byte
<1>5. (((b0 % 4) * 16 + b1 \div 16) * 16 + ((b1 % 16) * 4 + b2 \div 64) \div 4) % 256 = b1
  <2>1. ((b1 % 16) * 4 + b2 \div 64) \div 4 = b1 % 16
    BY DEF Byte
  <2>2. (b1 \div 16) * 16 + (b1 % 16) = b1 /\ b1 \div 16 \in 0 .. 15 /\ b1 % 16 \in 0 .. 15
    BY DEF Byte
  <2>3. b0 % 4 \in 0 .. 3
    BY DEF Byte
  <2>. QED
    BY <2>1, <2>2, <2>3 DEF Byte
<1>6. (((b1 % 16) * 4 + b2 \div 64) * 64 + (b2 % 64)) % 256 = b2
  <2>1. b1 % 16 \in 0 .. 15 /\ b2 \div 64 \in 0 .. 3 /\ b2 % 64 \in 0 .. 63 /\ (b2 \div 64) * 64 + (b2 % 64) = b2
    BY DEF Byte
  <2>. QED
    BY <2>1 DEF Byte
<1>. QED
  BY <1>1, <1>2, <1>3, <1>4, <1>5, <1>6

(* Character k of group g, both from 0.                                    *)
Group64(bytes, g, k) ==
  SixBits(ByteOr0(bytes, 3 * g + 1), ByteOr0(bytes, 3 * g + 2), ByteOr0(bytes, 3 * g + 3), k)

(* The characters of a text, by their group.                               *)
LEMMA Encoded64 ==
  ASSUME NEW bytes \in Seq(Byte)
  PROVE  /\ b64encode(bytes) \in Seq(Byte) /\ Len(b64encode(bytes)) = 4 * CeilDiv(Len(bytes), 3)
         /\ CeilDiv(Len(bytes), 3) \in Nat
         /\ \A g \in 0 .. CeilDiv(Len(bytes), 3) - 1, k \in 0 .. 3 :
               /\ Group64(bytes, g, k) \in 0 .. 63
               /\ b64encode(bytes)[4 * g + k + 1] =
                     IF 3 * g + k <= Len(bytes) THEN Alphabet(Group64(bytes, g, k)) ELSE PadChar
<1> DEFINE n == Len(bytes)
           size == CeilDiv(n, 3)
           e == b64encode(bytes)
           Char(j) == LET i == 3 * ((j - 1) \div 4) + 1
                          k == (j - 1) % 4
                      IN  IF i + k - 1 <= n
                          THEN Alphabet(CASE k = 0 -> ByteOr0(bytes, i) \div 4
                                          [] k = 1 -> (ByteOr0(bytes, i) % 4) * 16 + ByteOr0(bytes, i + 1) \div 16
                                          [] k = 2 -> (ByteOr0(bytes, i + 1) % 16) * 4 + ByteOr0(bytes, i + 2) \div 64
                                          [] k = 3 -> ByteOr0(bytes, i + 2) % 64)
                          ELSE PadChar
<1>1. n \in Nat /\ size \in Nat /\ 0 \in Byte
  BY LenProperties DEF CeilDiv, Byte
<1>2. \A i \in Nat \ {0} : ByteOr0(bytes, i) \in Byte
  BY <1>1, ElementOfSeq DEF ByteOr0
<1>3. e = [j \in 1 .. 4 * size |-> Char(j)]
  BY DEF b64encode, ByteOr0
<1> HIDE DEF e, size, n
<1>4. ASSUME NEW g \in Nat, NEW k \in 0 .. 3
      PROVE  /\ Group64(bytes, g, k) \in 0 .. 63
             /\ Char(4 * g + k + 1) = IF 3 * g + k <= n THEN Alphabet(Group64(bytes, g, k)) ELSE PadChar
  <2>1. (4 * g + k + 1 - 1) \div 4 = g /\ (4 * g + k + 1 - 1) % 4 = k
    OBVIOUS
  <2>2. 3 * g + 1 \in Nat \ {0} /\ 3 * g + 2 \in Nat \ {0} /\ 3 * g + 3 \in Nat \ {0}
        /\ 3 * g + 1 + 1 = 3 * g + 2 /\ 3 * g + 1 + 2 = 3 * g + 3 /\ 3 * g + 1 + k - 1 = 3 * g + k
    OBVIOUS
  <2>3. Group64(bytes, g, k) \in 0 .. 63
    BY <1>2, <2>2, SixBitsType DEF Group64
  <2>4. Char(4 * g + k + 1) =
          IF 3 * g + k <= n
          THEN Alphabet(CASE k = 0 -> ByteOr0(bytes, 3 * g + 1) \div 4
                          [] k = 1 -> (ByteOr0(bytes, 3 * g + 1) % 4) * 16 + ByteOr0(bytes, 3 * g + 2) \div 16
                          [] k = 2 -> (ByteOr0(bytes, 3 * g + 2) % 16) * 4 + ByteOr0(bytes, 3 * g + 3) \div 64
                          [] k = 3 -> ByteOr0(bytes, 3 * g + 3) % 64)
          ELSE PadChar
    BY <2>1, <2>2, SMTT(30)
  <2> HIDE DEF Char
  <2>5. (CASE k = 0 -> ByteOr0(bytes, 3 * g + 1) \div 4
           [] k = 1 -> (ByteOr0(bytes, 3 * g + 1) % 4) * 16 + ByteOr0(bytes, 3 * g + 2) \div 16
           [] k = 2 -> (ByteOr0(bytes, 3 * g + 2) % 16) * 4 + ByteOr0(bytes, 3 * g + 3) \div 64
           [] k = 3 -> ByteOr0(bytes, 3 * g + 3) % 64) = Group64(bytes, g, k)
    BY DEF Group64, SixBits
  <2>. QED
    BY <2>3, <2>4, <2>5
<1> HIDE DEF Char
<1>5. ASSUME NEW j \in 1 .. 4 * size
      PROVE  Char(j) \in Byte
  <2> DEFINE g == (j - 1) \div 4
             k == (j - 1) % 4
  <2>1. g \in Nat /\ k \in 0 .. 3 /\ j = 4 * g + k + 1
    OBVIOUS
  <2> HIDE DEF g, k
  <2>. QED
    BY <1>4, <2>1, InverseOfAlphabet, InverseOfPad
<1>6. e \in [1 .. 4 * size -> Byte] /\ 4 * size \in Nat
  BY <1>1, <1>3, <1>5
<1>7. e \in Seq(Byte) /\ Len(e) = 4 * size
  BY <1>6, FunctionSeq
<1>8. ASSUME NEW g \in 0 .. size - 1, NEW k \in 0 .. 3
      PROVE  e[4 * g + k + 1] = Char(4 * g + k + 1) /\ g \in Nat
  BY <1>1, <1>3
<1>. QED
  BY <1>1, <1>4, <1>7, <1>8 DEF e, size, n

(* Base64 gives the bytes back, whatever of three the last group lacks.    *)
LEMMA Base64Back ==
  ASSUME NEW bytes \in Seq(Byte)
  PROVE  b64decode(b64encode(bytes)) = bytes
<1> DEFINE n == Len(bytes)
           size == CeilDiv(n, 3)
           e == b64encode(bytes)
           m == 4 * (n \div 3) + (IF n % 3 = 0 THEN 0 ELSE (n % 3) + 1)
           Stop(k) == /\ k = Len(e) \/ Inverse64(e[k + 1]) = -1
                      /\ \A i \in 1 .. k : Inverse64(e[i]) # -1
           Back(j) == LET i == 4 * ((j - 1) \div 3) + 1
                      IN  CASE j % 3 = 1 -> (Inverse64(e[i]) * 4 + Inverse64(e[i + 1]) \div 16) % 256
                            [] j % 3 = 2 -> (Inverse64(e[i + 1]) * 16 + Inverse64(e[i + 2]) \div 4) % 256
                            [] j % 3 = 0 -> (Inverse64(e[i + 2]) * 64 + Inverse64(e[i + 3])) % 256
<1>1. n \in Nat /\ size \in Nat /\ m \in 0 .. 4 * size /\ (m * 3) \div 4 = n
  <2>1. n \in Nat
    BY LenProperties
  <2>2. size = (n + 2) \div 3
    BY <2>1 DEF CeilDiv
  <2> HIDE DEF size, n
  <2>3. n % 3 \in 0 .. 2 /\ n = 3 * (n \div 3) + (n % 3) /\ n \div 3 \in Nat
    BY <2>1
  <2>. QED
    BY <2>1, <2>2, <2>3
<1>2. /\ e \in Seq(Byte) /\ Len(e) = 4 * size
      /\ \A g \in 0 .. size - 1, k \in 0 .. 3 :
               /\ Group64(bytes, g, k) \in 0 .. 63
               /\ e[4 * g + k + 1] = IF 3 * g + k <= n THEN Alphabet(Group64(bytes, g, k)) ELSE PadChar
  BY Encoded64
<1>3. b64decode(e) =
        LET stop == CHOOSE k \in 0 .. Len(e) : Stop(k) IN [j \in 1 .. (stop * 3) \div 4 |-> Back(j)]
  BY DEF b64decode
<1> HIDE DEF size, e
<1>4. ASSUME NEW g \in 0 .. size - 1, NEW k \in 0 .. 3
      PROVE  /\ 3 * g + k <= n => Inverse64(e[4 * g + k + 1]) = Group64(bytes, g, k)
             /\ ~(3 * g + k <= n) => Inverse64(e[4 * g + k + 1]) = -1
             /\ 3 * g + k <= n <=> 4 * g + k + 1 <= m
             /\ Group64(bytes, g, k) # -1
  <2> DEFINE v == Group64(bytes, g, k)
  <2>1. v \in 0 .. 63 /\ e[4 * g + k + 1] = IF 3 * g + k <= n THEN Alphabet(v) ELSE PadChar
    BY <1>2
  <2> HIDE DEF v
  <2>2. Inverse64(Alphabet(v)) = v /\ Inverse64(PadChar) = -1
    BY <2>1, InverseOfAlphabet, InverseOfPad
  <2>3. 3 * g + k <= n <=> 4 * g + k + 1 <= m
    <3>0. n \in Nat
      BY <1>1
    <3>1. size = (n + 2) \div 3
      BY <1>1 DEF CeilDiv, size
    <3> HIDE DEF n
    <3>2. n % 3 \in 0 .. 2 /\ n = 3 * (n \div 3) + (n % 3) /\ n \div 3 \in Nat
      BY <3>0
    <3> DEFINE q == n \div 3   r == n % 3
    <3>3. m = 4 * q + (IF r = 0 THEN 0 ELSE r + 1)
      OBVIOUS
    <3> HIDE DEF q, r, m
    <3>4. r \in 0 .. 2 /\ n = 3 * q + r /\ q \in Nat
      BY <3>2 DEF q, r
    <3>5. g <= (n + 2) \div 3 - 1
      BY <1>1, <3>1
    <3>. QED
      BY <1>1, <3>3, <3>4, <3>5
  <2>4. v # -1
    BY <2>1
  <2>5. 3 * g + k <= n => Inverse64(e[4 * g + k + 1]) = v
    BY <2>1, <2>2
  <2>6. ~(3 * g + k <= n) => Inverse64(e[4 * g + k + 1]) = -1
    BY <2>1, <2>2
  <2>. QED
    BY <2>3, <2>4, <2>5, <2>6 DEF v
<1> HIDE DEF m
<1>5. ASSUME NEW j \in 1 .. 4 * size
      PROVE  Inverse64(e[j]) # -1 <=> j <= m
  <2> DEFINE g == (j - 1) \div 4
             k == (j - 1) % 4
  <2>1. g \in 0 .. size - 1 /\ k \in 0 .. 3 /\ j = 4 * g + k + 1
    BY <1>1
  <2> HIDE DEF g, k
  <2>. QED
    BY <1>4, <2>1
<1>6. (CHOOSE k \in 0 .. Len(e) : Stop(k)) = m
  <2>1. m \in 0 .. Len(e) /\ Stop(m)
    <3>1. m = Len(e) \/ Inverse64(e[m + 1]) = -1
      <4> SUFFICES ASSUME m # Len(e) PROVE Inverse64(e[m + 1]) = -1
        OBVIOUS
      <4>1. m + 1 \in 1 .. 4 * size /\ ~(m + 1 <= m)
        BY <1>1, <1>2
      <4>. QED
        BY <1>5, <4>1
    <3>2. \A i \in 1 .. m : Inverse64(e[i]) # -1
      BY <1>1, <1>5
    <3>. QED
      BY <1>1, <1>2, <3>1, <3>2
  <2>2. ASSUME NEW k \in 0 .. Len(e), Stop(k) PROVE k = m
    <3>1. CASE k < m
      <4>1. k + 1 \in 1 .. 4 * size /\ k + 1 <= m /\ k # Len(e)
        BY <1>1, <1>2, <3>1
      <4>. QED
        BY <1>5, <2>2, <4>1
    <3>2. CASE m < k
      <4>1. m + 1 \in 1 .. 4 * size /\ ~(m + 1 <= m) /\ m + 1 \in 1 .. k
        BY <1>1, <1>2, <3>2
      <4>. QED
        BY <1>5, <2>2, <4>1
    <3>. QED
      BY <1>1, <1>2, <3>1, <3>2
  <2> HIDE DEF Stop
  <2>. QED
    BY <2>1, <2>2
<1>7. b64decode(e) = [j \in 1 .. n |-> Back(j)]
  <2> HIDE DEF Stop, Back, n
  <2>1. b64decode(e) = [j \in 1 .. (m * 3) \div 4 |-> Back(j)]
    BY <1>3, <1>6
  <2>. QED
    BY <1>1, <2>1
<1>8. ASSUME NEW j \in 1 .. n
      PROVE  Back(j) = bytes[j]
  <2> DEFINE g == (j - 1) \div 3
             b0 == ByteOr0(bytes, 3 * g + 1)
             b1 == ByteOr0(bytes, 3 * g + 2)
             b2 == ByteOr0(bytes, 3 * g + 3)
             V(k) == Inverse64(e[4 * g + k + 1])
  <2>1. g \in 0 .. size - 1 /\ 3 * g + 1 <= j /\ j <= 3 * g + 3 /\ g \in Nat
    <3>1. size = (n + 2) \div 3
      BY <1>1 DEF CeilDiv, size
    <3>. QED
      BY <1>1, <3>1
  <2>2. Back(j) = CASE j % 3 = 1 -> (V(0) * 4 + V(1) \div 16) % 256
                    [] j % 3 = 2 -> (V(1) * 16 + V(2) \div 4) % 256
                    [] j % 3 = 0 -> (V(2) * 64 + V(3)) % 256
    <3>1. 4 * g + 0 + 1 = 4 * g + 1 /\ 4 * g + 1 + 1 = 4 * g + 1 + 1 /\ 4 * g + 2 + 1 = 4 * g + 1 + 2 /\ 4 * g + 3 + 1 = 4 * g + 1 + 3
      BY <2>1
    <3>. QED
      BY <3>1
  <2>3. b0 \in Byte /\ b1 \in Byte /\ b2 \in Byte
    <3>1. 0 \in Byte /\ \A i \in Nat \ {0} : ByteOr0(bytes, i) \in Byte
      BY <1>1, ElementOfSeq DEF ByteOr0, Byte
    <3>2. 3 * g + 1 \in Nat \ {0} /\ 3 * g + 2 \in Nat \ {0} /\ 3 * g + 3 \in Nat \ {0}
      BY <2>1
    <3> HIDE DEF g
    <3>. QED
      BY <3>1, <3>2
  <2>4. \A k \in 0 .. 3 : 3 * g + k <= n => V(k) = SixBits(b0, b1, b2, k)
    BY <1>4, <2>1 DEF Group64
  <2>5. /\ (SixBits(b0, b1, b2, 0) * 4 + SixBits(b0, b1, b2, 1) \div 16) % 256 = b0
        /\ (SixBits(b0, b1, b2, 1) * 16 + SixBits(b0, b1, b2, 2) \div 4) % 256 = b1
        /\ (SixBits(b0, b1, b2, 2) * 64 + SixBits(b0, b1, b2, 3)) % 256 = b2
    BY <2>3, SixBitsType
  <2>6. j % 3 = 1 <=> j = 3 * g + 1
    OBVIOUS
  <2>7. j % 3 = 2 <=> j = 3 * g + 2
    OBVIOUS
  <2>8. j % 3 = 0 <=> j = 3 * g + 3
    OBVIOUS
  <2>9. b0 = (IF 3 * g + 1 <= n THEN bytes[3 * g + 1] ELSE 0) /\ b1 = (IF 3 * g + 2 <= n THEN bytes[3 * g + 2] ELSE 0)
        /\ b2 = (IF 3 * g + 3 <= n THEN bytes[3 * g + 3] ELSE 0)
    BY DEF ByteOr0
  <2> HIDE DEF g, b0, b1, b2, V, Back
  <2>10. CASE j = 3 * g + 1
    <3>1. V(0) = SixBits(b0, b1, b2, 0) /\ V(1) = SixBits(b0, b1, b2, 1) /\ b0 = bytes[j]
      BY <1>1, <2>1, <2>4, <2>9, <2>10
    <3>. QED
      BY <2>2, <2>5, <2>6, <2>10, <3>1
  <2>11. CASE j = 3 * g + 2
    <3>1. V(1) = SixBits(b0, b1, b2, 1) /\ V(2) = SixBits(b0, b1, b2, 2) /\ b1 = bytes[j]
      BY <1>1, <2>1, <2>4, <2>9, <2>11
    <3>. QED
      BY <2>2, <2>5, <2>7, <2>11, <3>1
  <2>12. CASE j = 3 * g + 3
    <3>1. V(2) = SixBits(b0, b1, b2, 2) /\ V(3) = SixBits(b0, b1, b2, 3) /\ b2 = bytes[j]
      BY <1>1, <2>1, <2>4, <2>9, <2>12
    <3>. QED
      BY <2>2, <2>5, <2>8, <2>12, <3>1
  <2>. QED
    BY <2>1, <2>10, <2>11, <2>12
<1>9. bytes = [j \in 1 .. n |-> bytes[j]]
  BY LenProperties
<1> HIDE DEF Back
<1>10. b64decode(e) = bytes
  BY <1>7, <1>8, <1>9
<1>. QED
  BY <1>10 DEF e

-----------------------------------------------------------------------------
(* A picture, and its way through the message.                             *)
Picture(img, c, r) ==
  /\ c \in 1 .. MaxInt /\ r \in 1 .. MaxInt /\ 2 * (c * r + 8) <= MaxInt
  /\ \E f \in [Cells(c, r) -> Byte] : img = [cols |-> c, rows |-> r, at |-> f]

(* What a picture is.                                                      *)
LEMMA PictureType ==
  ASSUME NEW img, NEW c, NEW r, Picture(img, c, r)
  PROVE  /\ c \in 1 .. MaxInt /\ r \in 1 .. MaxInt /\ c \in Nat \ {0} /\ r \in Nat \ {0} /\ c * r \in Nat
         /\ 2 * (c * r + 8) <= MaxInt
         /\ img.cols = c /\ img.rows = r /\ img.at \in [Cells(c, r) -> Byte]
         /\ img = [cols |-> c, rows |-> r, at |-> img.at]
<1>1. /\ c \in 1 .. MaxInt /\ r \in 1 .. MaxInt /\ 2 * (c * r + 8) <= MaxInt
      /\ \E f \in [Cells(c, r) -> Byte] : img = [cols |-> c, rows |-> r, at |-> f]
  BY DEF Picture
<1>2. PICK f \in [Cells(c, r) -> Byte] : img = [cols |-> c, rows |-> r, at |-> f]
  BY <1>1
<1>3. c \in Nat \ {0} /\ r \in Nat \ {0}
  BY <1>1, MaxIntType
<1>4. c * r \in Nat
  BY <1>3
<1>. QED
  BY <1>1, <1>2, <1>3, <1>4

(* The colours of a picture, row by row.                                   *)
Pixels(img, c, r) == [i \in 1 .. c * r |-> img.at[<<(i - 1) % c, (i - 1) \div c>>]]

(* The pixels of a picture, row by row.                                    *)
LEMMA PixelsType ==
  ASSUME NEW img, NEW c, NEW r, Picture(img, c, r)
  PROVE  /\ Pixels(img, c, r) \in Seq(Byte) /\ Len(Pixels(img, c, r)) = c * r
         /\ \A x \in 0 .. c - 1, y \in 0 .. r - 1 :
               x + At(y, c) + 1 \in 1 .. c * r /\ Pixels(img, c, r)[x + At(y, c) + 1] = img.at[<<x, y>>]
<1>1. c \in Nat \ {0} /\ r \in Nat \ {0} /\ c * r \in Nat /\ img.at \in [Cells(c, r) -> Byte]
  BY PictureType
<1> DEFINE n == c * r
<1>2. ASSUME NEW i \in 1 .. n PROVE img.at[<<(i - 1) % c, (i - 1) \div c>>] \in Byte
  <2> DEFINE y == (i - 1) \div c
  <2>1. i \in 1 .. At(r, c)
    BY <1>1 DEF At
  <2>2. PartWith(i, c) \in 0 .. r - 1
    BY <1>1, <2>1, PlaceInPart
  <2>3. (i - 1) % c \in 0 .. c - 1
    BY <1>1
  <2>4. <<(i - 1) % c, y>> \in Cells(c, r)
    BY <2>2, <2>3 DEF PartWith, Cells
  <2>. QED
    BY <1>1, <2>4
<1> HIDE DEF n
<1>3. Pixels(img, c, r) \in [1 .. n -> Byte] /\ n \in Nat
  BY <1>1, <1>2 DEF Pixels, n
<1>4. Pixels(img, c, r) \in Seq(Byte) /\ Len(Pixels(img, c, r)) = n
  BY <1>3, FunctionSeq
<1>5. ASSUME NEW x \in 0 .. c - 1, NEW y \in 0 .. r - 1
      PROVE  x + At(y, c) + 1 \in 1 .. n /\ Pixels(img, c, r)[x + At(y, c) + 1] = img.at[<<x, y>>]
  <2> DEFINE i == x + At(y, c) + 1
  <2>1. At(y, c) \in Nat /\ At(y, c) + c <= At(r, c) /\ At(r, c) = n
    <3>1. y \in Nat /\ r \in Nat /\ y < r /\ c \in Nat
      BY <1>1
    <3>2. At(r, c) = n
      BY <1>1 DEF At, n
    <3>. QED
      BY <3>1, <3>2, AtType
  <2>2. i \in 1 .. n
    BY <1>1, <1>3, <2>1
  <2>3. (i - 1) % c = x /\ (i - 1) \div c = y
    <3>1. (y * c + x) \div c = y /\ (y * c + x) % c = x
      BY <1>1
    <3>2. i - 1 = y * c + x
      BY <1>1 DEF At
    <3>. QED
      BY <3>1, <3>2
  <2> HIDE DEF i
  <2>4. Pixels(img, c, r)[i] = img.at[<<(i - 1) % c, (i - 1) \div c>>]
    BY <2>2 DEF Pixels, n
  <2>. QED
    BY <2>2, <2>3, <2>4 DEF i
<1>. QED
  BY <1>4, <1>5 DEF n

(* The file of a picture is read as the picture.                           *)
LEMMA PngBack ==
  ASSUME NEW img, NEW c, NEW r, Picture(img, c, r)
  PROVE  Png(img) \in Seq(Byte) /\ Len(Png(img)) = 8 + c * r /\ FromPng(Png(img)) = img
<1> DEFINE w0 == Int32(c)
           w1 == Int32(r)
           s == w0 \o w1
           p == Pixels(img, c, r)
           t == s \o p
           n == c * r
<1>1. /\ c \in Nat \ {0} /\ r \in Nat \ {0} /\ n \in Nat /\ c \in 0 .. MaxInt /\ r \in 0 .. MaxInt
      /\ img.cols = c /\ img.rows = r /\ img.at \in [Cells(c, r) -> Byte]
      /\ img = [cols |-> c, rows |-> r, at |-> img.at]
  <2>1. c \in 0 .. MaxInt /\ r \in 0 .. MaxInt
    BY PictureType, MaxIntType
  <2>. QED
    BY <2>1, PictureType
<1>2. w0 \in Seq(Byte) /\ Len(w0) = 4 /\ Number(w0) = c
  BY <1>1, IntType
<1>3. w1 \in Seq(Byte) /\ Len(w1) = 4 /\ Number(w1) = r
  BY <1>1, IntType
<1>4. p \in Seq(Byte) /\ Len(p) = n
  BY PixelsType
<1>5. Png(img) = t
  BY <1>1 DEF Png, Pixels
<1> HIDE DEF w0, w1, p, n, s, t
<1>6. s \in Seq(Byte) /\ Len(s) = 8 /\ Holds(s, 4, w1) /\ Holds(s, 0, w0)
  <2>1. Holds(w0, 0, w0)
    BY <1>2 DEF Holds
  <2>2. s \in Seq(Byte) /\ Len(s) = Len(w0) + Len(w1) /\ Holds(s, Len(w0), w1)
        /\ \A m \in Nat, w \in Seq(Byte) : Holds(w0, m, w) => Holds(s, m, w)
    BY <1>2, <1>3, ConcatHolds DEF s
  <2>. QED
    BY <1>2, <1>3, <2>1, <2>2
<1>7. t \in Seq(Byte) /\ Len(t) = 8 + n /\ Holds(t, 8, p) /\ Holds(t, 4, w1) /\ Holds(t, 0, w0)
  <2>2. t \in Seq(Byte) /\ Len(t) = Len(s) + Len(p) /\ Holds(t, Len(s), p)
        /\ \A m \in Nat, w \in Seq(Byte) : Holds(s, m, w) => Holds(t, m, w)
    BY <1>4, <1>6, ConcatHolds DEF t
  <2>. QED
    BY <1>2, <1>3, <1>4, <1>6, <2>2
<1>8. Number(SubSeq(t, 1, 4)) = c
  <2>1. SubSeq(t, 0 + 1, 0 + Len(w0)) = w0
    BY <1>2, <1>7, SubSeqIs
  <2>2. 0 + 1 = 1 /\ 0 + Len(w0) = 4
    BY <1>2
  <2>. QED
    BY <1>2, <2>1, <2>2
<1>9. Number(SubSeq(t, 5, 8)) = r
  <2>1. SubSeq(t, 4 + 1, 4 + Len(w1)) = w1
    BY <1>3, <1>7, SubSeqIs
  <2>2. 4 + 1 = 5 /\ 4 + Len(w1) = 8
    BY <1>3
  <2>. QED
    BY <1>3, <2>1, <2>2
<1>10. FromPng(t) = [cols |-> c, rows |-> r, at |-> [q \in Cells(c, r) |-> t[9 + q[1] + q[2] * c]]]
  BY <1>8, <1>9 DEF FromPng
<1>11. ASSUME NEW q \in Cells(c, r) PROVE t[9 + q[1] + q[2] * c] = img.at[q]
  <2>1. q[1] \in 0 .. c - 1 /\ q[2] \in 0 .. r - 1 /\ q = <<q[1], q[2]>>
    BY DEF Cells
  <2> DEFINE x == q[1]  y == q[2]  i == x + At(y, c) + 1
  <2>2. i \in 1 .. n /\ p[i] = img.at[<<x, y>>]
    BY <2>1, PixelsType DEF p, n
  <2>3. At(y, c) \in Nat /\ At(y, c) = y * c
    BY <1>1, <2>1, AtType DEF At
  <2>4. 9 + x + y * c = 8 + i
    BY <1>1, <2>1, <2>3
  <2> HIDE DEF x, y, i
  <2>5. t[8 + i] = p[i]
    BY <1>4, <1>7, <2>2 DEF Holds
  <2>6. q = <<x, y>>
    BY <2>1 DEF x, y
  <2>7. t[9 + x + y * c] = img.at[q]
    BY <2>2, <2>4, <2>5, <2>6
  <2>. QED
    BY <2>7 DEF x, y
<1>12. [q \in Cells(c, r) |-> t[9 + q[1] + q[2] * c]] = img.at
  BY <1>1, <1>11
<1>13. FromPng(t) = img
  BY <1>1, <1>10, <1>12
<1>. QED
  BY <1>5, <1>7, <1>13 DEF n

(* What is fetched from a message and read as a picture is the picture it  *)
(* was made of: img_to_msg_bytes and FetchData agree on the length of the  *)
(* text, base64 and PNG lose nothing.                                      *)
THEOREM MessageBack ==
  ASSUME NEW img, NEW c, NEW r, Picture(img, c, r)
  PROVE  FromPng(FetchData(img_to_msg_bytes(img))) = img
<1> DEFINE bytes == Png(img)
           text == b64encode(bytes)
           w == Int32(Len(text))
           h == Resized(w, 8)
           msg == h \o text
           n == c * r
<1>1. n \in Nat /\ 2 * (n + 8) <= MaxInt
  BY PictureType
<1>2. bytes \in Seq(Byte) /\ Len(bytes) = 8 + n /\ FromPng(bytes) = img
  BY PngBack
<1>3. img_to_msg_bytes(img) = msg
  BY DEF img_to_msg_bytes
<1> HIDE DEF n, bytes
<1>4. text \in Seq(Byte) /\ Len(text) = 4 * CeilDiv(8 + n, 3) /\ b64decode(text) = bytes
  BY <1>2, Encoded64, Base64Back
<1>5. Len(text) \in 0 .. MaxInt
  <2>1. CeilDiv(8 + n, 3) = (8 + n + 2) \div 3
    BY <1>1 DEF CeilDiv
  <2>2. 4 * ((8 + n + 2) \div 3) <= 2 * (n + 8) /\ 4 * ((8 + n + 2) \div 3) \in Nat
    BY <1>1
  <2>. QED
    BY <1>1, <1>4, <2>1, <2>2, MaxIntType
<1> HIDE DEF text
<1>6. w \in Seq(Byte) /\ Len(w) = 4 /\ Number(w) = Len(text)
  BY <1>5, IntType
<1> HIDE DEF w
<1>7. h \in Seq(Byte) /\ Len(h) = 8 /\ Holds(h, 0, w)
  <2>1. h \in Seq(Byte) /\ Len(h) = 8 /\ \A i \in 1 .. 8 : h[i] = IF i <= Len(w) THEN w[i] ELSE 0
    <3>1. 0 \in Byte
      BY DEF Byte
    <3>2. \A m \in Nat : Resized(w, m) \in Seq(Byte) /\ Len(Resized(w, m)) = m
                          /\ \A i \in 1 .. m : Resized(w, m)[i] = IF i <= Len(w) THEN w[i] ELSE 0
      BY <1>6, <3>1, ResizedType
    <3>. QED
      BY <3>2
  <2> HIDE DEF h
  <2>. QED
    BY <1>6, <2>1 DEF Holds
<1> HIDE DEF h
<1>8. msg \in Seq(Byte) /\ Holds(msg, 8, text) /\ Holds(msg, 0, w)
  <2>1. msg \in Seq(Byte) /\ Holds(msg, Len(h), text)
        /\ \A m \in Nat, v \in Seq(Byte) : Holds(h, m, v) => Holds(msg, m, v)
    BY <1>4, <1>7, ConcatHolds
  <2>. QED
    BY <1>6, <1>7, <2>1
<1> HIDE DEF msg
<1>9. Number(SubSeq(msg, 1, 4)) = Len(text)
  <2>1. SubSeq(msg, 0 + 1, 0 + Len(w)) = w
    BY <1>6, <1>8, SubSeqIs
  <2>2. 0 + 1 = 1 /\ 0 + Len(w) = 4
    BY <1>6
  <2>. QED
    BY <1>6, <2>1, <2>2
<1>10. SubSeq(msg, 9, 8 + Len(text)) = text
  <2>1. SubSeq(msg, 8 + 1, 8 + Len(text)) = text
    BY <1>4, <1>8, SubSeqIs
  <2>2. 8 + 1 = 9
    OBVIOUS
  <2>. QED
    BY <2>1, <2>2
<1>11. FetchData(msg) = bytes
  BY <1>4, <1>9, <1>10 DEF FetchData
<1>. QED
  BY <1>2, <1>3, <1>11

-----------------------------------------------------------------------------
(* The layout, along one axis: n tiles of s cells, space g.                *)
Px(t, p, x) == At(t, p) + x + 1
Offset(px, p) == (px - 1) % p

AxisOf(n, s, g, p, e) ==
  /\ p \in Nat \ {0} /\ p = s + 2 + g
  /\ e \in Nat /\ e = At(n, p) - g + 2 /\ e >= 5 /\ At(n, p) \in Nat
  /\ \A t \in 0 .. n - 1 : At(t, p) \in Nat /\ At(t, p) + s + 2 <= e - 2
  /\ \A t \in 0 .. n - 1, x \in 0 .. p - 1 : PartWith(Px(t, p, x), p) = t /\ Offset(Px(t, p, x), p) = x
  /\ \A px \in 1 .. e - 2 :
        /\ PartWith(px, p) \in 0 .. n - 1 /\ Offset(px, p) \in 0 .. p - 1
        /\ px = Px(PartWith(px, p), p, Offset(px, p))

(* The tiles are inside of the margin, each one pitch after the last.      *)
LEMMA Axis ==
  ASSUME NEW n \in Nat \ {0}, NEW s \in Nat \ {0}, NEW g \in Nat
  PROVE  AxisOf(n, s, g, Pitch(s, g), Extent(n, s, g))
<1> DEFINE p == Pitch(s, g)
<1> DEFINE e == Extent(n, s, g)
<1>1. p \in Nat \ {0} /\ p = s + 2 + g
  BY DEF Pitch
<1> HIDE DEF p
<1>2. At(n, p) \in Nat /\ e = At(n, p) - g + 2
  <2>1. n * p = n * (s + 2) + n * g /\ (n - 1) * g = n * g - g /\ n * (s + 2) \in Nat /\ n * g \in Nat
    BY <1>1
  <2>2. e = n * (s + 2) + (n - 1) * g + 2
    BY DEF Extent
  <2>. QED
    BY <2>1, <2>2 DEF At
<1> HIDE DEF e
<1>3. ASSUME NEW t \in 0 .. n - 1
      PROVE  At(t, p) \in Nat /\ At(t, p) + p <= At(n, p)
  <2>1. t \in Nat /\ n \in Nat /\ p \in Nat /\ t < n
    BY <1>1
  <2>. QED
    BY <2>1, AtType
<1>4. \A t \in 0 .. n - 1 : At(t, p) \in Nat /\ At(t, p) + s + 2 <= e - 2
  BY <1>1, <1>2, <1>3
<1>5. e \in Nat /\ e >= 5
  <2>1. 0 \in 0 .. n - 1
    OBVIOUS
  <2>2. At(0, p) \in Nat /\ At(0, p) + s + 2 <= e - 2
    BY <1>4, <2>1
  <2>. QED
    BY <1>2, <2>2
<1>6. ASSUME NEW t \in 0 .. n - 1, NEW x \in 0 .. p - 1
      PROVE  PartWith(Px(t, p, x), p) = t /\ Offset(Px(t, p, x), p) = x
  <2>1. (t * p + x) \div p = t /\ (t * p + x) % p = x
    BY <1>1
  <2>2. Px(t, p, x) - 1 = t * p + x
    BY <1>1, <1>3 DEF Px, At
  <2>. QED
    BY <2>1, <2>2 DEF PartWith, Offset
<1>7. ASSUME NEW px \in 1 .. e - 2
      PROVE  /\ PartWith(px, p) \in 0 .. n - 1 /\ Offset(px, p) \in 0 .. p - 1
             /\ px = Px(PartWith(px, p), p, Offset(px, p))
  <2>1. px \in 1 .. At(n, p) /\ n \in Nat
    BY <1>2, <1>5
  <2>2. PartWith(px, p) \in 0 .. n - 1 /\ InPart(px, p) \in 1 .. p /\ At(PartWith(px, p), p) + InPart(px, p) = px
    BY <1>1, <2>1, PlaceInPart
  <2>3. InPart(px, p) = Offset(px, p) + 1 /\ Offset(px, p) \in 0 .. p - 1
    BY <1>1, <2>1 DEF InPart, Offset
  <2>4. At(PartWith(px, p), p) \in Nat
    BY <1>3, <2>2
  <2>. QED
    BY <1>1, <2>2, <2>3, <2>4 DEF Px
<1>. QED
  BY <1>1, <1>2, <1>4, <1>5, <1>6, <1>7 DEF AxisOf, e, p

(* The dimensions of a frame.                                              *)
Dims(d) == d[1] \in Nat \ {0} /\ d[2] \in Nat \ {0} /\ d[3] \in Nat \ {0} /\ d[4] \in Nat \ {0}
Cols(d, space) == Extent(d[1], d[3], space)
Rows(d, space) == Extent(d[2], d[4], space)

(* Both axes of a frame.                                                   *)
LEMMA DimsAxis ==
  ASSUME NEW d, Dims(d), NEW space \in Nat
  PROVE  /\ d[1] \in Nat \ {0} /\ d[2] \in Nat \ {0} /\ d[3] \in Nat \ {0} /\ d[4] \in Nat \ {0}
         /\ AxisOf(d[1], d[3], space, Pitch(d[3], space), Cols(d, space))
         /\ AxisOf(d[2], d[4], space, Pitch(d[4], space), Rows(d, space))
<1>1. d[1] \in Nat \ {0} /\ d[2] \in Nat \ {0} /\ d[3] \in Nat \ {0} /\ d[4] \in Nat \ {0}
  BY DEF Dims
<1>. QED
  BY <1>1, Axis DEF Cols, Rows

(* A layout shows the cells of the tiles, what is between, and its margin. *)
LEMMA LayoutAt ==
  ASSUME NEW d, Dims(d), NEW space \in Nat, NEW between, NEW cell, NEW img, img = Layout(d, space, between, cell),
         NEW px, NEW py, NEW p, p = Pitch(d[3], space), NEW q, q = Pitch(d[4], space)
  PROVE  /\ img.cols = Cols(d, space) /\ img.rows = Rows(d, space)
         /\ DOMAIN img.at = Cells(Cols(d, space), Rows(d, space))
         /\ <<px, py>> \in Cells(Cols(d, space), Rows(d, space)) =>
               img.at[<<px, py>>] =
                 IF px \in {0, Cols(d, space) - 1} \/ py \in {0, Rows(d, space) - 1} THEN WHITE
                 ELSE IF Offset(px, p) > d[3] + 1 \/ Offset(py, q) > d[4] + 1 THEN between
                 ELSE cell[<<PartWith(px, p), PartWith(py, q), Offset(px, p), Offset(py, q)>>]
<1> DEFINE cols == Cols(d, space)
           rows == Rows(d, space)
           Color(x, y) ==
             IF x \in {0, cols - 1} \/ y \in {0, rows - 1} THEN WHITE
             ELSE IF Offset(x, p) > d[3] + 1 \/ Offset(y, q) > d[4] + 1 THEN between
             ELSE cell[<<PartWith(x, p), PartWith(y, q), Offset(x, p), Offset(y, q)>>]
<1>1. img = [cols |-> cols, rows |-> rows, at |-> [c \in Cells(cols, rows) |-> Color(c[1], c[2])]]
  BY DEF Layout, Cols, Rows, Offset, PartWith
<1> HIDE DEF cols, rows, Color
<1>2. img.cols = cols /\ img.rows = rows /\ img.at = [c \in Cells(cols, rows) |-> Color(c[1], c[2])]
  BY <1>1
<1>3. <<px, py>> \in Cells(cols, rows) => img.at[<<px, py>>] = Color(px, py)
  BY <1>2
<1>. QED
  BY <1>2, <1>3 DEF cols, rows, Color

(* A cell of a tile is where the layout puts it.                           *)
LEMMA LayoutCell ==
  ASSUME NEW d, Dims(d), NEW space \in Nat, NEW between, NEW cell, NEW img, img = Layout(d, space, between, cell),
         NEW p, p = Pitch(d[3], space), NEW q, q = Pitch(d[4], space),
         NEW tx \in 0 .. d[1] - 1, NEW ty \in 0 .. d[2] - 1, NEW x \in 0 .. d[3] + 1, NEW y \in 0 .. d[4] + 1
  PROVE  /\ Px(tx, p, x) \in 1 .. Cols(d, space) - 2 /\ Px(ty, q, y) \in 1 .. Rows(d, space) - 2
         /\ <<Px(tx, p, x), Px(ty, q, y)>> \in DOMAIN img.at
         /\ img.at[<<Px(tx, p, x), Px(ty, q, y)>>] = cell[<<tx, ty, x, y>>]
<1> DEFINE px == Px(tx, p, x)
           py == Px(ty, q, y)
<1>1. d[1] \in Nat \ {0} /\ d[2] \in Nat \ {0} /\ d[3] \in Nat \ {0} /\ d[4] \in Nat \ {0}
  BY DEF Dims
<1>a. AxisOf(d[1], d[3], space, p, Cols(d, space)) /\ AxisOf(d[2], d[4], space, q, Rows(d, space))
  BY DimsAxis
<1>2. /\ At(tx, p) \in Nat /\ At(tx, p) + d[3] + 2 <= Cols(d, space) - 2 /\ Cols(d, space) \in Nat /\ p \in Nat \ {0} /\ p = d[3] + 2 + space
      /\ \A x1 \in 0 .. p - 1 : PartWith(Px(tx, p, x1), p) = tx /\ Offset(Px(tx, p, x1), p) = x1
  BY <1>a, <1>1 DEF AxisOf
<1>3. /\ At(ty, q) \in Nat /\ At(ty, q) + d[4] + 2 <= Rows(d, space) - 2 /\ Rows(d, space) \in Nat /\ q \in Nat \ {0} /\ q = d[4] + 2 + space
      /\ \A x1 \in 0 .. q - 1 : PartWith(Px(ty, q, x1), q) = ty /\ Offset(Px(ty, q, x1), q) = x1
  BY <1>a, <1>1 DEF AxisOf
<1>4. PartWith(px, p) = tx /\ Offset(px, p) = x /\ px \in 1 .. Cols(d, space) - 2
  BY <1>1, <1>2 DEF Px
<1>5. PartWith(py, q) = ty /\ Offset(py, q) = y /\ py \in 1 .. Rows(d, space) - 2
  BY <1>1, <1>3 DEF Px
<1> HIDE DEF px, py
<1>6. <<px, py>> \in Cells(Cols(d, space), Rows(d, space))
  BY <1>2, <1>3, <1>4, <1>5 DEF Cells
<1>7. px \notin {0, Cols(d, space) - 1} /\ py \notin {0, Rows(d, space) - 1} /\ ~(x > d[3] + 1 \/ y > d[4] + 1)
  BY <1>1, <1>2, <1>3, <1>4, <1>5
<1>8. /\ DOMAIN img.at = Cells(Cols(d, space), Rows(d, space))
      /\ img.at[<<px, py>>] =
           IF px \in {0, Cols(d, space) - 1} \/ py \in {0, Rows(d, space) - 1} THEN WHITE
           ELSE IF Offset(px, p) > d[3] + 1 \/ Offset(py, q) > d[4] + 1 THEN between
           ELSE cell[<<PartWith(px, p), PartWith(py, q), Offset(px, p), Offset(py, q)>>]
  BY <1>6, LayoutAt
<1>9. img.at[<<px, py>>] = cell[<<tx, ty, x, y>>]
  BY <1>4, <1>5, <1>7, <1>8
<1>. QED
  BY <1>4, <1>5, <1>6, <1>8, <1>9 DEF px, py

(* Where a pixel of a layout is.                                           *)
PlaceOf(d, space, between, cell, img, p, q, px, py) ==
  \/ /\ px \in {0, Cols(d, space) - 1} \/ py \in {0, Rows(d, space) - 1}
     /\ img.at[<<px, py>>] = WHITE
  \/ \E tx \in 0 .. d[1] - 1, ty \in 0 .. d[2] - 1, x \in 0 .. p - 1, y \in 0 .. q - 1 :
        /\ px = Px(tx, p, x) /\ py = Px(ty, q, y)
        /\ px \in 1 .. Cols(d, space) - 2 /\ py \in 1 .. Rows(d, space) - 2
        /\ img.at[<<px, py>>] = IF x > d[3] + 1 \/ y > d[4] + 1 THEN between ELSE cell[<<tx, ty, x, y>>]

(* A cell of the picture is margin, space or of a tile.                    *)
LEMMA LayoutPlace ==
  ASSUME NEW d, Dims(d), NEW space \in Nat, NEW between, NEW cell, NEW img, img = Layout(d, space, between, cell),
         NEW px \in 0 .. Cols(d, space) - 1, NEW py \in 0 .. Rows(d, space) - 1
  PROVE  PlaceOf(d, space, between, cell, img, Pitch(d[3], space), Pitch(d[4], space), px, py)
<1> DEFINE p == Pitch(d[3], space)
           q == Pitch(d[4], space)
<1>1. d[1] \in Nat \ {0} /\ d[2] \in Nat \ {0} /\ d[3] \in Nat \ {0} /\ d[4] \in Nat \ {0}
  BY DEF Dims
<1>2. /\ Cols(d, space) \in Nat /\ Cols(d, space) >= 5
      /\ \A px1 \in 1 .. Cols(d, space) - 2 :
            /\ PartWith(px1, p) \in 0 .. d[1] - 1 /\ Offset(px1, p) \in 0 .. p - 1
            /\ px1 = Px(PartWith(px1, p), p, Offset(px1, p))
  BY DimsAxis DEF AxisOf
<1>3. /\ Rows(d, space) \in Nat /\ Rows(d, space) >= 5
      /\ \A px1 \in 1 .. Rows(d, space) - 2 :
            /\ PartWith(px1, q) \in 0 .. d[2] - 1 /\ Offset(px1, q) \in 0 .. q - 1
            /\ px1 = Px(PartWith(px1, q), q, Offset(px1, q))
  BY DimsAxis DEF AxisOf
<1>4. <<px, py>> \in Cells(Cols(d, space), Rows(d, space))
  BY DEF Cells
<1>5. img.at[<<px, py>>] =
        IF px \in {0, Cols(d, space) - 1} \/ py \in {0, Rows(d, space) - 1} THEN WHITE
        ELSE IF Offset(px, p) > d[3] + 1 \/ Offset(py, q) > d[4] + 1 THEN between
        ELSE cell[<<PartWith(px, p), PartWith(py, q), Offset(px, p), Offset(py, q)>>]
  BY <1>4, LayoutAt
<1>6. CASE px \in {0, Cols(d, space) - 1} \/ py \in {0, Rows(d, space) - 1}
  BY <1>5, <1>6 DEF PlaceOf
<1>7. CASE ~(px \in {0, Cols(d, space) - 1} \/ py \in {0, Rows(d, space) - 1})
  <2>1. px \in 1 .. Cols(d, space) - 2 /\ py \in 1 .. Rows(d, space) - 2
    BY <1>2, <1>3, <1>7
  <2> DEFINE tx == PartWith(px, p)  ty == PartWith(py, q)  x == Offset(px, p)  y == Offset(py, q)
  <2>2. tx \in 0 .. d[1] - 1 /\ ty \in 0 .. d[2] - 1 /\ x \in 0 .. p - 1 /\ y \in 0 .. q - 1
        /\ px = Px(tx, p, x) /\ py = Px(ty, q, y)
    BY <1>2, <1>3, <2>1
  <2>3. img.at[<<px, py>>] = IF x > d[3] + 1 \/ y > d[4] + 1 THEN between ELSE cell[<<tx, ty, x, y>>]
    BY <1>5, <1>7
  <2> HIDE DEF tx, ty, x, y
  <2>. QED
    BY <2>1, <2>2, <2>3 DEF PlaceOf
<1>. QED
  BY <1>6, <1>7 DEF p, q

(* A layout is a picture that can be sent.                                 *)
LEMMA LayoutPicture ==
  ASSUME NEW d, Dims(d), NEW space \in Nat, NEW between \in Byte, NEW cell \in [TileCells(d) -> Byte],
         NEW img, img = Layout(d, space, between, cell), 2 * (Cols(d, space) * Rows(d, space) + 8) <= MaxInt
  PROVE  Picture(img, Cols(d, space), Rows(d, space))
<1> DEFINE cols == Cols(d, space)
           rows == Rows(d, space)
           p == Pitch(d[3], space)
           q == Pitch(d[4], space)
<1>1. d[1] \in Nat \ {0} /\ d[2] \in Nat \ {0} /\ d[3] \in Nat \ {0} /\ d[4] \in Nat \ {0}
  BY DEF Dims
<1>2. cols \in Nat /\ cols >= 5 /\ rows \in Nat /\ rows >= 5
  BY DimsAxis DEF AxisOf
<1>3. img = [cols |-> cols, rows |-> rows, at |-> img.at] /\ DOMAIN img.at = Cells(cols, rows)
  BY DEF Layout, Cols, Rows
<1>4. img.at = [c \in Cells(cols, rows) |-> img.at[c]]
  BY DEF Layout, Cols, Rows
<1>5. ASSUME NEW c \in Cells(cols, rows) PROVE img.at[c] \in Byte
  <2>1. PICK px \in 0 .. cols - 1, py \in 0 .. rows - 1 : c = <<px, py>>
    BY DEF Cells
  <2>2. CASE img.at[<<px, py>>] = WHITE
    BY <2>1, <2>2 DEF Byte, WHITE
  <2>3. CASE \E tx \in 0 .. d[1] - 1, ty \in 0 .. d[2] - 1, x \in 0 .. p - 1, y \in 0 .. q - 1 :
               /\ px = Px(tx, p, x) /\ py = Px(ty, q, y)
               /\ px \in 1 .. Cols(d, space) - 2 /\ py \in 1 .. Rows(d, space) - 2
               /\ img.at[<<px, py>>] = IF x > d[3] + 1 \/ y > d[4] + 1 THEN between ELSE cell[<<tx, ty, x, y>>]
    <3>1. PICK tx \in 0 .. d[1] - 1, ty \in 0 .. d[2] - 1, x \in 0 .. p - 1, y \in 0 .. q - 1 :
               img.at[<<px, py>>] = IF x > d[3] + 1 \/ y > d[4] + 1 THEN between ELSE cell[<<tx, ty, x, y>>]
      BY <2>3
    <3>2. CASE x > d[3] + 1 \/ y > d[4] + 1
      BY <2>1, <3>1, <3>2
    <3>3. CASE ~(x > d[3] + 1 \/ y > d[4] + 1)
      <4>1. <<tx, ty, x, y>> \in TileCells(d)
        <5>1. p \in Nat /\ q \in Nat
          BY <1>1 DEF Pitch
        <5> HIDE DEF p, q
        <5>2. x \in 0 .. d[3] + 1 /\ y \in 0 .. d[4] + 1
          BY <1>1, <3>3, <5>1
        <5>. QED
          BY <5>2 DEF TileCells
      <4>2. cell[<<tx, ty, x, y>>] \in Byte
        BY <4>1
      <4>. QED
        BY <2>1, <3>1, <3>3, <4>2
    <3>. QED
      BY <3>2, <3>3
  <2>a. px \in 0 .. Cols(d, space) - 1 /\ py \in 0 .. Rows(d, space) - 1
    OBVIOUS
  <2>b. PlaceOf(d, space, between, cell, img, p, q, px, py)
    BY <2>a, LayoutPlace
  <2> HIDE DEF p, q
  <2>4. \/ img.at[<<px, py>>] = WHITE
        \/ \E tx \in 0 .. d[1] - 1, ty \in 0 .. d[2] - 1, x \in 0 .. p - 1, y \in 0 .. q - 1 :
               /\ px = Px(tx, p, x) /\ py = Px(ty, q, y)
               /\ px \in 1 .. Cols(d, space) - 2 /\ py \in 1 .. Rows(d, space) - 2
               /\ img.at[<<px, py>>] = IF x > d[3] + 1 \/ y > d[4] + 1 THEN between ELSE cell[<<tx, ty, x, y>>]
    BY <2>b DEF PlaceOf
  <2>. QED
    BY <2>2, <2>3, <2>4
<1>6. img.at \in [Cells(cols, rows) -> Byte]
  BY <1>4, <1>5
<1>7. cols \in 1 .. MaxInt /\ rows \in 1 .. MaxInt
  <2>1. cols <= cols * rows /\ rows <= cols * rows /\ cols * rows \in Nat
    BY <1>2
  <2> HIDE DEF cols, rows
  <2>2. 2 * (cols * rows + 8) <= MaxInt
    BY DEF cols, rows
  <2> DEFINE n == cols * rows
  <2> HIDE DEF n
  <2>. QED
    BY <1>2, <2>1, <2>2, MaxIntType DEF n
<1>. QED
  BY <1>3, <1>6, <1>7 DEF Picture

-----------------------------------------------------------------------------
(* A corner is the one dark cell whose diagonal comes first.               *)
First(img, c, r, dx, dy, x, y) ==
  /\ c \in Nat /\ r \in Nat /\ DOMAIN img.at = Cells(c, r) /\ dx \in {1, -1} /\ dy \in {1, -1}
  /\ x \in 0 .. c - 1 /\ y \in 0 .. r - 1 /\ img.at[<<x, y>>] \in Dark
  /\ \A v \in 0 .. c - 1, w \in 0 .. r - 1 : img.at[<<v, w>>] \in Dark =>
     (<<v, w>> = <<x, y>> \/ dx * x + dy * y < dx * v + dy * w)

(* The corner is the cell that is first on its diagonal.                   *)
LEMMA CornerIs ==
  ASSUME NEW img, NEW c, NEW r, NEW dx, NEW dy, NEW x, NEW y, First(img, c, r, dx, dy, x, y)
  PROVE  Corner(img, dx, dy) = <<x, y>>
<1>0. /\ c \in Nat /\ r \in Nat /\ DOMAIN img.at = Cells(c, r) /\ dx \in {1, -1} /\ dy \in {1, -1}
      /\ x \in 0 .. c - 1 /\ y \in 0 .. r - 1 /\ img.at[<<x, y>>] \in Dark
      /\ \A v \in 0 .. c - 1, w \in 0 .. r - 1 : img.at[<<v, w>>] \in Dark =>
            (<<v, w>> = <<x, y>> \/ dx * x + dy * y < dx * v + dy * w)
  BY DEF First
<1> DEFINE dark == {p \in DOMAIN img.at : img.at[p] \in Dark}
           Diagonal(p) == dx * p[1] + dy * p[2]
           D == {Diagonal(p) : p \in dark}
           first == Min(D)
           on == {p \in dark : Diagonal(p) = first}
           z == <<x, y>>
<1>1. z \in dark
  BY <1>0 DEF Cells
<1>2. ASSUME NEW p \in dark PROVE Diagonal(p) \in Int /\ (p = z \/ Diagonal(z) < Diagonal(p))
  <2>1. PICK v \in 0 .. c - 1, w \in 0 .. r - 1 : p = <<v, w>>
    BY <1>0 DEF Cells
  <2>2. img.at[<<v, w>>] \in Dark
    BY <2>1
  <2>3. <<v, w>> = <<x, y>> \/ dx * x + dy * y < dx * v + dy * w
    BY <1>0, <2>2
  <2>. QED
    BY <1>0, <2>1, <2>3
<1> HIDE DEF dark, Diagonal, z
<1>3. Diagonal(z) \in D /\ \A e \in D : e \in Int /\ Diagonal(z) <= e
  BY <1>1, <1>2
<1>4. first = Diagonal(z)
  <2>1. first = CHOOSE e \in D : \A f \in D : e <= f
    BY DEF Min
  <2> HIDE DEF D
  <2>2. \A e \in D : (\A f \in D : e <= f) => e = Diagonal(z)
    BY <1>3
  <2>. QED
    BY <1>3, <2>1, <2>2
<1> HIDE DEF first
<1>5. on = {z}
  BY <1>1, <1>2, <1>4
<1>6. (CHOOSE p \in on : \A q \in on : p[1] <= q[1]) = z
  <2>1. z[1] <= z[1]
    BY <1>0 DEF z
  <2> HIDE DEF on
  <2>. QED
    BY <1>5, <2>1
<1>7. Corner(img, dx, dy) = IF dark = {} THEN <<0, 0>> ELSE CHOOSE p \in on : \A q \in on : p[1] <= q[1]
  BY DEF Corner, dark, Diagonal, first
<1>. QED
  BY <1>1, <1>6, <1>7 DEF z

(* An upright rectangle with dark corners and nothing dark outside it is   *)
(* what is cut out.                                                        *)
LEMMA QuadIs ==
  ASSUME NEW img, NEW c \in Nat, NEW r \in Nat, DOMAIN img.at = Cells(c, r),
         NEW x1 \in 0 .. c - 1, NEW x2 \in 0 .. c - 1, NEW y1 \in 0 .. r - 1, NEW y2 \in 0 .. r - 1,
         x1 <= x2, y1 <= y2,
         img.at[<<x1, y1>>] \in Dark, img.at[<<x1, y2>>] \in Dark, img.at[<<x2, y1>>] \in Dark, img.at[<<x2, y2>>] \in Dark,
         \A v \in 0 .. c - 1, w \in 0 .. r - 1 : img.at[<<v, w>>] \in Dark => v \in x1 .. x2 /\ w \in y1 .. y2
  PROVE  do_auto_quad(img) = do_crop(img, <<x1, y1, x2 + 1, y2 + 1>>)
<1>0. 1 \in {1, -1} /\ -1 \in {1, -1}
  OBVIOUS
<1>1. nw(img) = <<x1, y1>>
  <2>0. 1 \in {1, -1} /\ 1 \in {1, -1}
    OBVIOUS
  <2>1. \A v \in 0 .. c - 1, w \in 0 .. r - 1 : img.at[<<v, w>>] \in Dark =>
            (<<v, w>> = <<x1, y1>> \/ 1 * x1 + 1 * y1 < 1 * v + 1 * w)
    OBVIOUS
  <2>2. First(img, c, r, 1, 1, x1, y1)
    BY <2>1, <1>0, <2>0 DEF First
  <2>. QED
    BY <2>2, CornerIs DEF nw
<1>2. ne(img) = <<x2, y1>>
  <2>0. -1 \in {1, -1} /\ 1 \in {1, -1}
    OBVIOUS
  <2>1. \A v \in 0 .. c - 1, w \in 0 .. r - 1 : img.at[<<v, w>>] \in Dark =>
            (<<v, w>> = <<x2, y1>> \/ (-1) * x2 + 1 * y1 < (-1) * v + 1 * w)
    OBVIOUS
  <2>2. First(img, c, r, -1, 1, x2, y1)
    BY <2>1, <1>0, <2>0 DEF First
  <2>. QED
    BY <2>2, CornerIs DEF ne
<1>3. sw(img) = <<x1, y2>>
  <2>0. 1 \in {1, -1} /\ -1 \in {1, -1}
    OBVIOUS
  <2>1. \A v \in 0 .. c - 1, w \in 0 .. r - 1 : img.at[<<v, w>>] \in Dark =>
            (<<v, w>> = <<x1, y2>> \/ 1 * x1 + (-1) * y2 < 1 * v + (-1) * w)
    OBVIOUS
  <2>2. First(img, c, r, 1, -1, x1, y2)
    BY <2>1, <1>0, <2>0 DEF First
  <2>. QED
    BY <2>2, CornerIs DEF sw
<1>4. se(img) = <<x2, y2>>
  <2>0. -1 \in {1, -1} /\ -1 \in {1, -1}
    OBVIOUS
  <2>1. \A v \in 0 .. c - 1, w \in 0 .. r - 1 : img.at[<<v, w>>] \in Dark =>
            (<<v, w>> = <<x2, y2>> \/ (-1) * x2 + (-1) * y2 < (-1) * v + (-1) * w)
    OBVIOUS
  <2>2. First(img, c, r, -1, -1, x2, y2)
    BY <2>1, <1>0, <2>0 DEF First
  <2>. QED
    BY <2>2, CornerIs DEF se
<1>. QED
  BY <1>1, <1>2, <1>3, <1>4 DEF do_auto_quad

-----------------------------------------------------------------------------
(* The cells of a frame, counted.                                          *)
Quo(k, c) == k \div c
Rem(k, c) == k % c

(* Quotient and remainder,                                                 *)
LEMMA QuoRem ==
  ASSUME NEW k \in Nat, NEW c \in Nat \ {0}
  PROVE  Quo(k, c) \in Nat /\ Rem(k, c) \in 0 .. c - 1 /\ At(Quo(k, c), c) \in Nat /\ k = At(Quo(k, c), c) + Rem(k, c)
<1>1. k \div c \in Nat /\ k % c \in 0 .. c - 1 /\ k = (k \div c) * c + (k % c) /\ (k \div c) * c \in Nat
  OBVIOUS
<1>. QED
  BY <1>1 DEF Quo, Rem, At

(* ... are the only ones,                                                  *)
LEMMA QuoRemIs ==
  ASSUME NEW a \in Nat, NEW c \in Nat \ {0}, NEW r \in 0 .. c - 1
  PROVE  Quo(At(a, c) + r, c) = a /\ Rem(At(a, c) + r, c) = r
BY DivMod DEF Quo, Rem, At

(* ... are bounded,                                                        *)
LEMMA QuoBound ==
  ASSUME NEW n \in Nat, NEW c \in Nat \ {0}, NEW k \in Nat, k < At(n, c)
  PROVE  Quo(k, c) \in 0 .. n - 1
<1>1. k + 1 \in 1 .. At(n, c)
  BY AtType
<1>2. PartWith(k + 1, c) \in 0 .. n - 1
  BY <1>1, PlaceInPart
<1>3. k + 1 - 1 = k
  OBVIOUS
<1>. QED
  BY <1>2, <1>3 DEF PartWith, Quo

(* ... and are taken in two steps.                                         *)
LEMMA QuoQuo ==
  ASSUME NEW k \in Nat, NEW a \in Nat \ {0}, NEW c \in Nat \ {0}
  PROVE  Quo(k, At(a, c)) = Quo(Quo(k, a), c) /\ At(a, c) \in Nat \ {0}
<1> DEFINE q == Quo(k, a)
           q2 == Quo(q, c)
           y == Rem(q, c)
           x == Rem(k, a)
           ac == a * c
<1>1. q \in Nat /\ x \in 0 .. a - 1 /\ k = q * a + x
  BY QuoRem DEF At
<1>2. q2 \in Nat /\ y \in 0 .. c - 1 /\ q = q2 * c + y
  BY <1>1, QuoRem DEF At
<1> HIDE DEF q, q2, y, x
<1>3. ac \in Nat \ {0}
  OBVIOUS
<1>4. k = q2 * ac + (y * a + x)
  <2>1. q * a = (q2 * c + y) * a
    BY <1>2
  <2>2. (q2 * c + y) * a = q2 * (a * c) + y * a
    BY <1>2
  <2>. QED
    BY <1>1, <1>2, <2>1, <2>2
<1>5. y * a + x \in 0 .. ac - 1
  <2>1. y * a + a <= c * a
    BY <1>2, Times
  <2>2. c * a = ac /\ y * a \in Nat
    BY <1>2
  <2> DEFINE ya == y * a
  <2> HIDE DEF ya, ac
  <2>. QED
    BY <1>1, <1>3, <2>1, <2>2 DEF ya
<1> DEFINE r == y * a + x
<1> HIDE DEF r, ac
<1>6. (q2 * ac + r) \div ac = q2
  BY <1>2, <1>3, <1>5, DivMod DEF r
<1>. QED
  BY <1>3, <1>4, <1>6 DEF r, q2, q, ac, Quo, At

(* The place of a symbol, and the symbol of a place.                       *)
LEMMA PlaceType ==
  ASSUME NEW d, Dims(d), NEW k \in 0 .. FrameSize(d) - 1, NEW p, p = Place(d, k)
  PROVE  /\ p.x \in 0 .. d[3] - 1 /\ p.y \in 0 .. d[4] - 1 /\ p.tx \in 0 .. d[1] - 1 /\ p.ty \in 0 .. d[2] - 1
         /\ SymbolIndex(d, p.tx, p.ty, p.x, p.y) = k
<1>1. d[1] \in Nat \ {0} /\ d[2] \in Nat \ {0} /\ d[3] \in Nat \ {0} /\ d[4] \in Nat \ {0}
  BY DEF Dims
<1> DEFINE d1 == d[1]   d2 == d[2]   d3 == d[3]   d4 == d[4]
           q1 == Quo(k, d3)
           q2 == Quo(q1, d4)
           ty == Quo(q2, d1)
           x == Rem(k, d3)
           y == Rem(q1, d4)
           tx == Rem(q2, d1)
<1> HIDE DEF d1, d2, d3, d4
<1>2. d1 \in Nat \ {0} /\ d2 \in Nat \ {0} /\ d3 \in Nat \ {0} /\ d4 \in Nat \ {0} /\ FrameSize(d) = d1 * d2 * d3 * d4
  BY <1>1 DEF d1, d2, d3, d4, FrameSize
<1>3. k \in Nat
  BY <1>2
<1>4. Quo(k, At(d3, d4)) = q2 /\ At(d3, d4) \in Nat \ {0}
  BY <1>2, <1>3, QuoQuo
<1>5. Quo(k, At(At(d3, d4), d1)) = ty
  BY <1>2, <1>3, <1>4, QuoQuo
<1>6. p.x = x /\ p.y = y /\ p.tx = tx /\ p.ty = ty
  BY <1>4, <1>5 DEF Place, Quo, Rem, At, d1, d3, d4
<1>7. /\ q1 \in Nat /\ x \in 0 .. d3 - 1 /\ k = At(q1, d3) + x
  BY <1>2, <1>3, QuoRem
<1>8. q2 \in Nat /\ y \in 0 .. d4 - 1 /\ q1 = At(q2, d4) + y
  BY <1>2, <1>7, QuoRem
<1>9. ty \in Nat /\ tx \in 0 .. d1 - 1 /\ q2 = At(ty, d1) + tx
  BY <1>2, <1>8, QuoRem
<1>10. ty \in 0 .. d2 - 1
  <2> DEFINE c == At(At(d3, d4), d1)
  <2>1. c \in Nat \ {0}
    BY <1>2, <1>4, QuoQuo
  <2>2. At(d2, c) = FrameSize(d)
    BY <1>2 DEF At
  <2>3. k < At(d2, c)
    BY <1>2, <2>2
  <2> HIDE DEF c
  <2>. QED
    BY <1>2, <1>3, <1>5, <2>1, <2>3, QuoBound DEF c
<1>11. SymbolIndex(d, tx, ty, x, y) = k
  BY <1>7, <1>8, <1>9 DEF SymbolIndex, At, d1, d2, d3, d4
<1>. QED
  BY <1>6, <1>7, <1>8, <1>9, <1>10, <1>11 DEF d1, d2, d3, d4

-----------------------------------------------------------------------------
(* The columns, or rows, of the symbols of a frame: where each is in the   *)
(* layout.                                                                 *)
Mid(c, s, p) == Px(Quo(c, s), p, Rem(c, s) + 1)

MidOf(n, s, p, t, x) == At(t, s) + x \in 0 .. At(n, s) - 1 /\ Mid(At(t, s) + x, s, p) = Px(t, p, x + 1)

(* A column of cells is in its tile,                                       *)
LEMMA MidIs ==
  ASSUME NEW n \in Nat \ {0}, NEW s \in Nat \ {0}, NEW p, NEW t \in 0 .. n - 1, NEW x \in 0 .. s - 1
  PROVE  MidOf(n, s, p, t, x)
<1>0. t \in Nat /\ n \in Nat /\ s \in Nat /\ t < n
  OBVIOUS
<1>1. At(t, s) \in Nat /\ At(t, s) + s <= At(n, s) /\ At(n, s) \in Nat
  BY <1>0, AtType
<1>2. Quo(At(t, s) + x, s) = t /\ Rem(At(t, s) + x, s) = x
  BY QuoRemIs
<1>. QED
  BY <1>1, <1>2 DEF Mid, MidOf

(* ... inside of the margin,                                               *)
LEMMA MidType ==
  ASSUME NEW n \in Nat \ {0}, NEW s \in Nat \ {0}, NEW g \in Nat, NEW p, NEW e, AxisOf(n, s, g, p, e),
         NEW c \in 0 .. At(n, s) - 1
  PROVE  Mid(c, s, p) \in 1 .. e - 2 /\ e \in Nat
<1>1. /\ p \in Nat /\ p = s + 2 + g /\ e \in Nat
      /\ \A t \in 0 .. n - 1 : At(t, p) \in Nat /\ At(t, p) + s + 2 <= e - 2
  BY DEF AxisOf
<1>2. At(n, s) \in Nat
  BY AtType
<1>3. c \in Nat /\ c < At(n, s)
  BY <1>2
<1>4. Quo(c, s) \in 0 .. n - 1 /\ Rem(c, s) \in 0 .. s - 1
  BY <1>3, QuoBound, QuoRem
<1>. QED
  BY <1>1, <1>4 DEF Mid, Px

(* ... and right of those before it.                                       *)
LEMMA MidOrder ==
  ASSUME NEW n \in Nat \ {0}, NEW s \in Nat \ {0}, NEW g \in Nat, NEW p, NEW e, AxisOf(n, s, g, p, e),
         NEW c \in 0 .. At(n, s) - 1, NEW c2 \in 0 .. At(n, s) - 1, c < c2
  PROVE  Mid(c, s, p) < Mid(c2, s, p)
<1> DEFINE q == Quo(c, s)   x == Rem(c, s)   q2 == Quo(c2, s)   x2 == Rem(c2, s)
<1>1. At(n, s) \in Nat /\ p \in Nat /\ p = s + 2 + g
  BY AtType DEF AxisOf
<1>2. q \in Nat /\ x \in 0 .. s - 1 /\ At(q, s) \in Nat /\ c = At(q, s) + x
  BY <1>1, QuoRem
<1>3. q2 \in Nat /\ x2 \in 0 .. s - 1 /\ At(q2, s) \in Nat /\ c2 = At(q2, s) + x2
  BY <1>1, QuoRem
<1> HIDE DEF q, x, q2, x2
<1>4. At(q, p) \in Nat /\ At(q2, p) \in Nat
  BY <1>1, <1>2, <1>3, AtType
<1>5. q <= q2
  <2>1. SUFFICES ASSUME q2 < q PROVE FALSE
    BY <1>2, <1>3
  <2>2. At(q2, s) + s <= At(q, s)
    BY <1>2, <1>3, <2>1, AtType
  <2>. QED
    BY <1>2, <1>3, <2>2
<1>6. CASE q = q2
  <2>1. x < x2
    BY <1>2, <1>3, <1>6
  <2>. QED
    BY <1>2, <1>3, <1>4, <1>6, <2>1 DEF Mid, Px, q, q2, x, x2
<1>7. CASE q < q2
  <2>1. At(q, p) + p <= At(q2, p)
    BY <1>1, <1>2, <1>3, <1>7, AtType
  <2>. QED
    BY <1>1, <1>2, <1>3, <1>4, <2>1 DEF Mid, Px, q, q2, x, x2
<1>. QED
  BY <1>2, <1>3, <1>5, <1>6, <1>7

(* The position page: a dot at each of them, and nothing else that is dark. *)
MidX(d, space, c) == Mid(c, d[3], Pitch(d[3], space))
MidY(d, space, r) == Mid(r, d[4], Pitch(d[4], space))
ColNum(d) == At(d[1], d[3])
RowNum(d) == At(d[2], d[4])
IsPage(img, d, space) ==
  /\ img.cols = Cols(d, space) /\ img.rows = Rows(d, space)
  /\ DOMAIN img.at = Cells(Cols(d, space), Rows(d, space))
  /\ \A c \in 0 .. ColNum(d) - 1, r \in 0 .. RowNum(d) - 1 : img.at[<<MidX(d, space, c), MidY(d, space, r)>>] \in Dark
  /\ \A v \in 0 .. Cols(d, space) - 1, w \in 0 .. Rows(d, space) - 1 :
        img.at[<<v, w>>] \in Dark =>
           \E c \in 0 .. ColNum(d) - 1, r \in 0 .. RowNum(d) - 1 : v = MidX(d, space, c) /\ w = MidY(d, space, r)

(* On the position page exactly the dots are dark.                         *)
LEMMA Page ==
  ASSUME NEW d, Dims(d), NEW space \in Nat
  PROVE  IsPage(PositionPage(d, space), d, space)
<1> DEFINE cell == [c \in TileCells(d) |-> IF is_tile_border(d[3], d[4], c[3], c[4]) THEN WHITE ELSE BLACK]
           img == Layout(d, space, WHITE, cell)
           p == Pitch(d[3], space)
           q == Pitch(d[4], space)
<1>1. PositionPage(d, space) = img
  BY DEF PositionPage
<1>2. /\ d[1] \in Nat \ {0} /\ d[2] \in Nat \ {0} /\ d[3] \in Nat \ {0} /\ d[4] \in Nat \ {0}
      /\ AxisOf(d[1], d[3], space, p, Cols(d, space)) /\ AxisOf(d[2], d[4], space, q, Rows(d, space))
  BY DimsAxis
<1>3. \A tx \in 0 .. d[1] - 1, ty \in 0 .. d[2] - 1, x \in 0 .. d[3] + 1, y \in 0 .. d[4] + 1 :
         cell[<<tx, ty, x, y>>] = IF is_tile_border(d[3], d[4], x, y) THEN WHITE ELSE BLACK
  BY DEF TileCells
<1>4. /\ \A tx \in 0 .. d[1] - 1, ty \in 0 .. d[2] - 1, x \in 0 .. d[3] + 1, y \in 0 .. d[4] + 1 :
            img.at[<<Px(tx, p, x), Px(ty, q, y)>>] = cell[<<tx, ty, x, y>>]
  BY LayoutCell
<1>5. ASSUME NEW v \in 0 .. Cols(d, space) - 1, NEW w \in 0 .. Rows(d, space) - 1
      PROVE  PlaceOf(d, space, WHITE, cell, img, p, q, v, w)
  BY LayoutPlace
<1>6. img.cols = Cols(d, space) /\ img.rows = Rows(d, space) /\ DOMAIN img.at = Cells(Cols(d, space), Rows(d, space))
  BY DEF Layout, Cols, Rows
<1> HIDE DEF img, cell, p, q
<1>7. ASSUME NEW c \in 0 .. ColNum(d) - 1, NEW r \in 0 .. RowNum(d) - 1
      PROVE  img.at[<<MidX(d, space, c), MidY(d, space, r)>>] \in Dark
  <2> DEFINE tx == Quo(c, d[3])   x == Rem(c, d[3])   ty == Quo(r, d[4])   y == Rem(r, d[4])
  <2>1. c \in Nat /\ r \in Nat /\ c < At(d[1], d[3]) /\ r < At(d[2], d[4])
    <3>1. At(d[1], d[3]) \in Nat /\ At(d[2], d[4]) \in Nat
      BY <1>2, AtType
    <3>. QED
      BY <3>1 DEF ColNum, RowNum
  <2>2. tx \in 0 .. d[1] - 1 /\ x \in 0 .. d[3] - 1 /\ ty \in 0 .. d[2] - 1 /\ y \in 0 .. d[4] - 1
    BY <1>2, <2>1, QuoBound, QuoRem
  <2>3. MidX(d, space, c) = Px(tx, p, x + 1) /\ MidY(d, space, r) = Px(ty, q, y + 1)
    BY DEF MidX, MidY, Mid, p, q
  <2> HIDE DEF tx, ty, x, y
  <2>4. x + 1 \in 0 .. d[3] + 1 /\ y + 1 \in 0 .. d[4] + 1 /\ ~is_tile_border(d[3], d[4], x + 1, y + 1)
    BY <1>2, <2>2 DEF is_tile_border
  <2> DEFINE x1 == x + 1   y1 == y + 1
  <2>5. x1 \in 0 .. d[3] + 1 /\ y1 \in 0 .. d[4] + 1 /\ ~is_tile_border(d[3], d[4], x1, y1)
    BY <2>4
  <2>6. MidX(d, space, c) = Px(tx, p, x1) /\ MidY(d, space, r) = Px(ty, q, y1)
    BY <2>3
  <2> HIDE DEF x1, y1
  <2>7. cell[<<tx, ty, x1, y1>>] = BLACK
    BY <1>3, <2>2, <2>5
  <2>8. img.at[<<Px(tx, p, x1), Px(ty, q, y1)>>] = cell[<<tx, ty, x1, y1>>]
    BY <1>4, <2>2, <2>5
  <2>. QED
    BY <2>6, <2>7, <2>8, DarkAssumption
<1>8. ASSUME NEW v \in 0 .. Cols(d, space) - 1, NEW w \in 0 .. Rows(d, space) - 1, img.at[<<v, w>>] \in Dark
      PROVE  \E c \in 0 .. ColNum(d) - 1, r \in 0 .. RowNum(d) - 1 : v = MidX(d, space, c) /\ w = MidY(d, space, r)
  <2>1. WHITE \notin Dark
    BY DarkAssumption
  <2>2. PICK tx \in 0 .. d[1] - 1, ty \in 0 .. d[2] - 1, x \in 0 .. p - 1, y \in 0 .. q - 1 :
               /\ v = Px(tx, p, x) /\ w = Px(ty, q, y)
               /\ img.at[<<v, w>>] = IF x > d[3] + 1 \/ y > d[4] + 1 THEN WHITE ELSE cell[<<tx, ty, x, y>>]
    BY <1>5, <1>8, <2>1 DEF PlaceOf
  <2>3. p \in Nat /\ q \in Nat
    BY <1>2 DEF AxisOf
  <2>4. x \in 0 .. d[3] + 1 /\ y \in 0 .. d[4] + 1
    BY <1>2, <1>8, <2>1, <2>2, <2>3
  <2>5. cell[<<tx, ty, x, y>>] = IF is_tile_border(d[3], d[4], x, y) THEN WHITE ELSE BLACK
    BY <1>3, <2>4
  <2>6. ~is_tile_border(d[3], d[4], x, y)
    BY <1>2, <1>8, <2>1, <2>2, <2>4, <2>5
  <2>7. x - 1 \in 0 .. d[3] - 1 /\ y - 1 \in 0 .. d[4] - 1 /\ x - 1 + 1 = x /\ y - 1 + 1 = y
    BY <1>2, <2>4, <2>6 DEF is_tile_border
  <2>8. /\ At(tx, d[3]) + (x - 1) \in 0 .. At(d[1], d[3]) - 1 /\ Mid(At(tx, d[3]) + (x - 1), d[3], p) = Px(tx, p, x)
        /\ At(ty, d[4]) + (y - 1) \in 0 .. At(d[2], d[4]) - 1 /\ Mid(At(ty, d[4]) + (y - 1), d[4], q) = Px(ty, q, y)
    <3> DEFINE x1 == x - 1  y1 == y - 1
    <3>1. x1 \in 0 .. d[3] - 1 /\ y1 \in 0 .. d[4] - 1 /\ x1 + 1 = x /\ y1 + 1 = y
      BY <2>7
    <3> HIDE DEF x1, y1
    <3>2. MidOf(d[1], d[3], p, tx, x1) /\ MidOf(d[2], d[4], q, ty, y1)
      BY <1>2, <3>1, MidIs
    <3>. QED
      BY <3>1, <3>2 DEF x1, y1, MidOf
  <2>. QED
    BY <2>2, <2>8 DEF MidX, MidY, ColNum, RowNum, p, q
<1>. QED
  BY <1>1, <1>6, <1>7, <1>8 DEF IsPage

-----------------------------------------------------------------------------
(* What is cut out of a picture.                                           *)
CropOf(img, crop, x0, y0, x1, y1) ==
  /\ crop.cols = x1 - x0 /\ crop.rows = y1 - y0
  /\ DOMAIN crop.at = Cells(x1 - x0, y1 - y0)
  /\ \A v \in 0 .. x1 - x0 - 1, w \in 0 .. y1 - y0 - 1 : crop.at[<<v, w>>] = img.at[<<v + x0, w + y0>>]

(* do_crop does that.                                                      *)
LEMMA Crop ==
  ASSUME NEW img, NEW x0, NEW y0, NEW x1, NEW y1
  PROVE  CropOf(img, do_crop(img, <<x0, y0, x1, y1>>), x0, y0, x1, y1)
<1> DEFINE c == x1 - x0
           r == y1 - y0
           f == [p \in Cells(c, r) |-> img.at[<<p[1] + x0, p[2] + y0>>]]
           crop == do_crop(img, <<x0, y0, x1, y1>>)
<1>1. crop = [cols |-> c, rows |-> r, at |-> f]
  BY DEF do_crop
<1>2. \A v \in 0 .. c - 1, w \in 0 .. r - 1 : f[<<v, w>>] = img.at[<<v + x0, w + y0>>]
  BY DEF Cells
<1>3. DOMAIN f = Cells(c, r)
  OBVIOUS
<1> HIDE DEF c, r, f, crop
<1>4. crop.cols = c /\ crop.rows = r /\ crop.at = f
  BY <1>1
<1>. QED
  BY <1>2, <1>3, <1>4 DEF CropOf, c, r, crop

(* The k-th dot the calibration finds, counted from 0.                     *)
Dot(d, space, k) == <<MidX(d, space, Rem(k, ColNum(d))), MidY(d, space, Quo(k, ColNum(d)))>>
Found(d, space, k) == [j \in 1 .. k |-> Dot(d, space, j - 1)]

(* A frame has so many columns and rows of cells.                          *)
LEMMA Counts ==
  ASSUME NEW d, Dims(d)
  PROVE  /\ ColNum(d) \in Nat \ {0} /\ RowNum(d) \in Nat \ {0} /\ FrameSize(d) \in Nat \ {0}
         /\ FrameSize(d) = At(RowNum(d), ColNum(d))
         /\ d[1] * d[3] = ColNum(d)
<1>1. d[1] \in Nat \ {0} /\ d[2] \in Nat \ {0} /\ d[3] \in Nat \ {0} /\ d[4] \in Nat \ {0}
  BY DEF Dims
<1>2. d[1] * d[3] \in Nat \ {0} /\ d[2] * d[4] \in Nat \ {0}
  BY <1>1
<1>3. (d[2] * d[4]) * (d[1] * d[3]) \in Nat \ {0}
  BY <1>2
<1>4. d[1] * d[2] * d[3] * d[4] = (d[2] * d[4]) * (d[1] * d[3])
  BY <1>1
<1>. QED
  BY <1>2, <1>3, <1>4 DEF ColNum, RowNum, FrameSize, At

(* Columns and rows of dots are in order.                                  *)
LEMMA MidXY ==
  ASSUME NEW d, Dims(d), NEW space \in Nat
  PROVE  /\ \A c \in 0 .. ColNum(d) - 1 : MidX(d, space, c) \in 1 .. Cols(d, space) - 2
         /\ \A r \in 0 .. RowNum(d) - 1 : MidY(d, space, r) \in 1 .. Rows(d, space) - 2
         /\ \A c, c2 \in 0 .. ColNum(d) - 1 : c < c2 => MidX(d, space, c) < MidX(d, space, c2)
         /\ \A r, r2 \in 0 .. RowNum(d) - 1 : r < r2 => MidY(d, space, r) < MidY(d, space, r2)
         /\ Cols(d, space) \in Nat /\ Rows(d, space) \in Nat
<1>1. /\ d[1] \in Nat \ {0} /\ d[2] \in Nat \ {0} /\ d[3] \in Nat \ {0} /\ d[4] \in Nat \ {0}
      /\ AxisOf(d[1], d[3], space, Pitch(d[3], space), Cols(d, space))
      /\ AxisOf(d[2], d[4], space, Pitch(d[4], space), Rows(d, space))
  BY DimsAxis
<1>2. Cols(d, space) \in Nat /\ Rows(d, space) \in Nat
  BY <1>1 DEF AxisOf
<1>3. \A c \in 0 .. At(d[1], d[3]) - 1 : Mid(c, d[3], Pitch(d[3], space)) \in 1 .. Cols(d, space) - 2
  BY <1>1, MidType
<1>4. \A r \in 0 .. At(d[2], d[4]) - 1 : Mid(r, d[4], Pitch(d[4], space)) \in 1 .. Rows(d, space) - 2
  BY <1>1, MidType
<1>5. \A c, c2 \in 0 .. At(d[1], d[3]) - 1 : c < c2 => Mid(c, d[3], Pitch(d[3], space)) < Mid(c2, d[3], Pitch(d[3], space))
  BY <1>1, MidOrder
<1>6. \A c, c2 \in 0 .. At(d[2], d[4]) - 1 : c < c2 => Mid(c, d[4], Pitch(d[4], space)) < Mid(c2, d[4], Pitch(d[4], space))
  BY <1>1, MidOrder
<1>. QED
  BY <1>2, <1>3, <1>4, <1>5, <1>6 DEF MidX, MidY, ColNum, RowNum

(* Of what is left of the page beyond the dots found, the corner is the    *)
(* next dot.                                                               *)
LEMMA CornerDot ==
  ASSUME NEW d, Dims(d), NEW space \in Nat, NEW img, IsPage(img, d, space),
         NEW c \in 0 .. ColNum(d) - 1, NEW r \in 0 .. RowNum(d) - 1, NEW x0 \in Nat, NEW y0 \in Nat,
         x0 <= MidX(d, space, c), \A c2 \in 0 .. ColNum(d) - 1 : c2 < c => MidX(d, space, c2) < x0,
         y0 <= MidY(d, space, r), \A r2 \in 0 .. RowNum(d) - 1 : r2 < r => MidY(d, space, r2) < y0
  PROVE  nw(do_crop(img, <<x0, y0, img.cols, img.rows>>)) = <<MidX(d, space, c) - x0, MidY(d, space, r) - y0>>
<1> DEFINE cols == Cols(d, space)   rows == Rows(d, space)
           X(c2) == MidX(d, space, c2)   Y(r2) == MidY(d, space, r2)
           W == ColNum(d)   H == RowNum(d)
           crop == do_crop(img, <<x0, y0, img.cols, img.rows>>)
<1>1. /\ W \in Nat /\ H \in Nat /\ cols \in Nat /\ rows \in Nat
      /\ \A c2 \in 0 .. W - 1 : X(c2) \in 1 .. cols - 2
      /\ \A r2 \in 0 .. H - 1 : Y(r2) \in 1 .. rows - 2
      /\ \A c1, c2 \in 0 .. W - 1 : c1 < c2 => X(c1) < X(c2)
      /\ \A r1, r2 \in 0 .. H - 1 : r1 < r2 => Y(r1) < Y(r2)
  BY Counts, MidXY
<1>2. /\ img.cols = cols /\ img.rows = rows
      /\ \A c2 \in 0 .. W - 1, r2 \in 0 .. H - 1 : img.at[<<X(c2), Y(r2)>>] \in Dark
      /\ \A v \in 0 .. cols - 1, w \in 0 .. rows - 1 : img.at[<<v, w>>] \in Dark =>
            \E c2 \in 0 .. W - 1, r2 \in 0 .. H - 1 : v = X(c2) /\ w = Y(r2)
  BY DEF IsPage
<1>3. CropOf(img, crop, x0, y0, cols, rows)
  BY <1>2, Crop
<1>4. /\ \A c2 \in 0 .. W - 1 : c2 < c => X(c2) < x0
      /\ \A r2 \in 0 .. H - 1 : r2 < r => Y(r2) < y0
      /\ x0 <= X(c) /\ y0 <= Y(r) /\ c \in 0 .. W - 1 /\ r \in 0 .. H - 1
  OBVIOUS
<1> HIDE DEF cols, rows, X, Y, W, H, crop
<1> DEFINE x == X(c) - x0   y == Y(r) - y0
<1>5. X(c) \in 1 .. cols - 2 /\ Y(r) \in 1 .. rows - 2
  BY <1>1, <1>4
<1>6. /\ cols - x0 \in Nat /\ rows - y0 \in Nat /\ x \in 0 .. (cols - x0) - 1 /\ y \in 0 .. (rows - y0) - 1
      /\ x + x0 = X(c) /\ y + y0 = Y(r)
  BY <1>1, <1>4, <1>5
<1>7. crop.at[<<x, y>>] \in Dark
  <2> HIDE DEF x, y
  <2>1. crop.at[<<x, y>>] = img.at[<<x + x0, y + y0>>]
    BY <1>3, <1>6 DEF CropOf
  <2>2. img.at[<<X(c), Y(r)>>] \in Dark
    BY <1>2, <1>4
  <2>. QED
    BY <1>6, <2>1, <2>2
<1>8. ASSUME NEW v \in 0 .. (cols - x0) - 1, NEW w \in 0 .. (rows - y0) - 1, crop.at[<<v, w>>] \in Dark
      PROVE  <<v, w>> = <<x, y>> \/ 1 * x + 1 * y < 1 * v + 1 * w
  <2>1. v + x0 \in 0 .. cols - 1 /\ w + y0 \in 0 .. rows - 1
    BY <1>1
  <2>2. img.at[<<v + x0, w + y0>>] \in Dark
    BY <1>3, <1>8 DEF CropOf
  <2>3. PICK c2 \in 0 .. W - 1, r2 \in 0 .. H - 1 : v + x0 = X(c2) /\ w + y0 = Y(r2)
    BY <1>2, <2>1, <2>2
  <2>4. X(c2) \in Nat /\ Y(r2) \in Nat /\ x0 <= X(c2) /\ y0 <= Y(r2)
    BY <1>1, <2>3
  <2>5. c <= c2 /\ r <= r2
    BY <1>1, <1>4, <1>5, <2>4
  <2>6. X(c) <= X(c2) /\ Y(r) <= Y(r2)
    <3>1. c2 = c \/ c < c2
      BY <1>1, <1>4, <2>5
    <3>2. r2 = r \/ r < r2
      BY <1>1, <1>4, <2>5
    <3>3. X(c) <= X(c2)
      BY <1>1, <1>4, <1>5, <2>4, <3>1
    <3>4. Y(r) <= Y(r2)
      BY <1>1, <1>4, <1>5, <2>4, <3>2
    <3>. QED
      BY <3>3, <3>4
  <2>7. x <= v /\ y <= w /\ x \in Int /\ y \in Int /\ v \in Int /\ w \in Int
    BY <1>5, <2>3, <2>4, <2>6
  <2> HIDE DEF x, y
  <2>. QED
    BY <2>7
<1> HIDE DEF x, y
<1>9. First(crop, cols - x0, rows - y0, 1, 1, x, y)
  <2>1. DOMAIN crop.at = Cells(cols - x0, rows - y0) /\ 1 \in {1, -1}
    BY <1>3 DEF CropOf
  <2>. QED
    BY <1>6, <1>7, <1>8, <2>1 DEF First
<1>10. nw(crop) = <<x, y>>
  BY <1>9, CornerIs DEF nw
<1>. QED
  BY <1>10 DEF crop, x, y, X, Y

(* A set of numbers has a least one: what is done here in place of an      *)
(* induction.                                                              *)
LEMMA Least ==
  ASSUME NEW T, T \subseteq Nat, T # {}
  PROVE  \E m \in T : \A k \in T : m <= k
<1> DEFINE R == OpToRel(<, Nat)
<1>1. \E x \in T : \A y \in T : ~ (<<y, x>> \in R)
  BY WFMin, NatLessThanWellFounded
<1>2. \A x \in Nat, y \in Nat : <<y, x>> \in R <=> y < x
  BY DEF OpToRel
<1> HIDE DEF R
<1>3. PICK x \in T : \A y \in T : ~ (<<y, x>> \in R)
  BY <1>1
<1>4. ASSUME NEW y \in T PROVE x <= y
  <2>1. x \in Nat /\ y \in Nat
    OBVIOUS
  <2>2. ~(y < x)
    BY <1>2, <1>3, <2>1
  <2>. QED
    BY <2>1, <2>2
<1>. QED
  BY <1>4

-----------------------------------------------------------------------------
(* The dots found are a sequence.                                          *)
LEMMA FoundType ==
  ASSUME NEW d, NEW space, NEW k \in Nat
  PROVE  /\ Found(d, space, k) \in Seq({Dot(d, space, j) : j \in Nat}) /\ Len(Found(d, space, k)) = k
         /\ \A j \in 1 .. k : Found(d, space, k)[j] = Dot(d, space, j - 1)
<1> DEFINE S == {Dot(d, space, j) : j \in Nat}
<1>1. \A j \in 1 .. k : Dot(d, space, j - 1) \in S
  OBVIOUS
<1> HIDE DEF S
<1>2. Found(d, space, k) \in [1 .. k -> S]
  BY <1>1 DEF Found
<1>3. Found(d, space, k) \in Seq(S) /\ Len(Found(d, space, k)) = k
  BY <1>2, FunctionSeq
<1>4. \A j \in 1 .. k : Found(d, space, k)[j] = Dot(d, space, j - 1)
  BY DEF Found
<1>. QED
  BY <1>3, <1>4 DEF S

(* The next dot that is found is the next dot.                             *)
LEMMA NextIs ==
  ASSUME NEW d, Dims(d), NEW space \in Nat, NEW img, IsPage(img, d, space), NEW k \in 0 .. FrameSize(d) - 1
  PROVE  WithNextDot(img, d[1] * d[3], Found(d, space, k)) = Found(d, space, k + 1)
<1> DEFINE W == ColNum(d)
           H == RowNum(d)
           c == Rem(k, W)
           r == Quo(k, W)
           found == Found(d, space, k)
           X(c2) == MidX(d, space, c2)
           Y(r2) == MidY(d, space, r2)
           x0 == IF k % W = 0 THEN 0 ELSE found[k][1] + 1
           y0 == IF k < W THEN 0 ELSE found[k + 1 - W][2] + 1
           dot == nw(do_crop(img, <<x0, y0, img.cols, img.rows>>))
<1>1. W \in Nat \ {0} /\ H \in Nat \ {0} /\ FrameSize(d) = At(H, W) /\ FrameSize(d) \in Nat /\ d[1] * d[3] = W
  BY Counts
<1>2. Len(found) = k /\ \A j \in 1 .. k : found[j] = Dot(d, space, j - 1)
  <2>1. k \in Nat
    BY <1>1
  <2>. QED
    BY <2>1, FoundType
<1>3. WithNextDot(img, d[1] * d[3], found) = Append(found, <<dot[1] + x0, dot[2] + y0>>)
  BY <1>1, <1>2 DEF WithNextDot
<1>4. /\ \A c2 \in 0 .. W - 1 : X(c2) \in Nat
      /\ \A r2 \in 0 .. H - 1 : Y(r2) \in Nat
      /\ \A c1, c2 \in 0 .. W - 1 : c1 < c2 => X(c1) < X(c2)
      /\ \A r1, r2 \in 0 .. H - 1 : r1 < r2 => Y(r1) < Y(r2)
  <2>1. /\ \A c2 \in 0 .. W - 1 : X(c2) \in 1 .. Cols(d, space) - 2
        /\ \A r2 \in 0 .. H - 1 : Y(r2) \in 1 .. Rows(d, space) - 2
        /\ \A c1, c2 \in 0 .. W - 1 : c1 < c2 => X(c1) < X(c2)
        /\ \A r1, r2 \in 0 .. H - 1 : r1 < r2 => Y(r1) < Y(r2)
        /\ Cols(d, space) \in Nat /\ Rows(d, space) \in Nat
    BY MidXY
  <2> HIDE DEF W, H, X, Y
  <2>. QED
    BY <2>1
<1>5. \A j \in Nat : Dot(d, space, j) = <<X(Rem(j, W)), Y(Quo(j, W))>>
  BY DEF Dot
<1>6. k % W = c
  BY DEF Rem
<1>7. k \in Nat /\ k < At(H, W)
  BY <1>1
<1> HIDE DEF W, H, X, Y, found
<1>8. c \in 0 .. W - 1 /\ r \in Nat /\ k = At(r, W) + c /\ At(r, W) \in Nat
  BY <1>1, <1>7, QuoRem
<1>9. r \in 0 .. H - 1
  BY <1>1, <1>7, QuoBound
<1> HIDE DEF c, r
<1>10. x0 = IF c = 0 THEN 0 ELSE X(c - 1) + 1
  <2>1. CASE c = 0
    BY <1>6, <2>1
  <2>2. CASE c # 0
    <3> DEFINE c1 == c - 1
               k1 == k - 1
    <3>1. c1 \in 0 .. W - 1 /\ k1 = At(r, W) + c1 /\ k1 \in Nat /\ k \in 1 .. k
      BY <1>1, <1>7, <1>8, <2>2
    <3>2. found[k] = Dot(d, space, k1)
      BY <1>2, <3>1
    <3> HIDE DEF c1, k1
    <3>3. Rem(k1, W) = c1
      BY <1>1, <1>8, <3>1, QuoRemIs
    <3>4. found[k][1] = X(c1)
      BY <1>5, <3>1, <3>2, <3>3
    <3>. QED
      BY <1>6, <2>2, <3>4 DEF c1
  <2>. QED
    BY <2>1, <2>2
<1>11. y0 = IF r = 0 THEN 0 ELSE Y(r - 1) + 1
  <2>1. CASE r = 0
    <3>1. At(r, W) = 0
      BY <1>1, <2>1 DEF At
    <3>. QED
      BY <1>1, <1>8, <2>1, <3>1
  <2>2. CASE r # 0
    <3> DEFINE r1 == r - 1
               k1 == k - W
    <3>1. r1 \in 0 .. H - 1 /\ r1 \in Nat
      BY <1>1, <1>8, <1>9, <2>2
    <3>2. At(r, W) = At(r1, W) + W /\ At(r1, W) \in Nat
      <4>1. (r - 1) * W + W = r * W
        BY <1>1, <1>8
      <4>. QED
        BY <1>1, <3>1, <4>1, AtType DEF At
    <3>3. k1 = At(r1, W) + c /\ k1 \in Nat /\ k + 1 - W \in 1 .. k /\ k + 1 - W - 1 = k1 /\ ~(k < W)
      BY <1>1, <1>7, <1>8, <3>2
    <3>4. found[k + 1 - W] = Dot(d, space, k1)
      <4> DEFINE k2 == k + 1 - W
      <4>1. k2 \in 1 .. k /\ k2 - 1 = k1
        BY <1>1, <1>7, <3>3
      <4> HIDE DEF k1, k2
      <4>2. found[k2] = Dot(d, space, k2 - 1)
        BY <1>2, <4>1
      <4>. QED
        BY <4>1, <4>2 DEF k2
    <3> HIDE DEF r1, k1
    <3>5. Quo(k1, W) = r1
      BY <1>1, <1>8, <3>1, <3>3, QuoRemIs
    <3>6. found[k + 1 - W][2] = Y(r1)
      BY <1>5, <3>3, <3>4, <3>5
    <3>. QED
      BY <2>2, <3>3, <3>6 DEF r1
  <2>. QED
    BY <2>1, <2>2
<1> HIDE DEF x0, y0
<1>12. x0 \in Nat /\ x0 <= X(c) /\ \A c2 \in 0 .. W - 1 : c2 < c => X(c2) < x0
  <2>1. CASE c = 0
    BY <1>4, <1>8, <1>10, <2>1
  <2>2. CASE c # 0
    <3> DEFINE c1 == c - 1
    <3>1. c1 \in 0 .. W - 1 /\ c1 < c /\ \A c2 \in 0 .. W - 1 : c2 < c => (c2 = c1 \/ c2 < c1)
      BY <1>1, <1>8, <2>2
    <3>2. x0 = X(c1) + 1
      BY <1>10, <2>2
    <3> HIDE DEF c1
    <3>. QED
      BY <1>4, <1>8, <3>1, <3>2
  <2>. QED
    BY <2>1, <2>2
<1>13. y0 \in Nat /\ y0 <= Y(r) /\ \A r2 \in 0 .. H - 1 : r2 < r => Y(r2) < y0
  <2>1. CASE r = 0
    BY <1>4, <1>9, <1>11, <2>1
  <2>2. CASE r # 0
    <3> DEFINE r1 == r - 1
    <3>1. r1 \in 0 .. H - 1 /\ r1 < r /\ \A r2 \in 0 .. H - 1 : r2 < r => (r2 = r1 \/ r2 < r1)
      BY <1>1, <1>9, <2>2
    <3>2. y0 = Y(r1) + 1
      BY <1>11, <2>2
    <3> HIDE DEF r1
    <3>. QED
      BY <1>4, <1>9, <3>1, <3>2
  <2>. QED
    BY <2>1, <2>2
<1>14. dot = <<X(c) - x0, Y(r) - y0>>
  BY <1>8, <1>9, <1>12, <1>13, CornerDot DEF W, H, X, Y
<1>15. <<dot[1] + x0, dot[2] + y0>> = Dot(d, space, k)
  <2>1. X(c) \in Nat /\ Y(r) \in Nat
    BY <1>4, <1>8, <1>9
  <2>2. Dot(d, space, k) = <<X(c), Y(r)>>
    BY <1>5, <1>7 DEF c, r
  <2> HIDE DEF dot
  <2>. QED
    BY <1>12, <1>13, <1>14, <2>1, <2>2
<1>16. Append(found, Dot(d, space, k)) = Found(d, space, k + 1)
  <2> DEFINE S == {Dot(d, space, j) : j \in Nat}
             k1 == k + 1
             f1 == Append(found, Dot(d, space, k))
             f2 == Found(d, space, k1)
  <2>1. found \in Seq(S) /\ Len(found) = k /\ \A j \in 1 .. k : found[j] = Dot(d, space, j - 1)
    BY <1>7, FoundType DEF found
  <2>2. k1 \in Nat /\ k1 = k + 1
    BY <1>7
  <2> HIDE DEF k1
  <2>3. f2 \in Seq(S) /\ Len(f2) = k1 /\ \A j \in 1 .. k1 : f2[j] = Dot(d, space, j - 1)
    BY <2>2, FoundType
  <2>4. Dot(d, space, k) \in S
    BY <1>7
  <2> HIDE DEF S
  <2>5. /\ f1 \in Seq(S) /\ Len(f1) = k + 1 /\ \A j \in 1 .. k : f1[j] = found[j]
        /\ f1[k + 1] = Dot(d, space, k)
    BY <2>1, <2>4, AppendProperties
  <2> HIDE DEF f1, f2
  <2>6. ASSUME NEW j \in 1 .. k1 PROVE f1[j] = f2[j]
    <3>1. CASE j = k1
      <4>1. j - 1 = k
        BY <1>7, <2>2, <3>1
      <4>. QED
        BY <2>2, <2>3, <2>5, <3>1, <4>1
    <3>2. CASE j # k1
      <4>1. j \in 1 .. k
        BY <1>7, <2>2, <3>2
      <4>. QED
        BY <2>1, <2>3, <2>5, <4>1
    <3>. QED
      BY <3>1, <3>2
  <2>7. f1 = f2
    BY <2>2, <2>3, <2>5, <2>6, SeqEqual
  <2>. QED
    BY <2>7 DEF f1, f2, k1
<1>. QED
  BY <1>3, <1>15, <1>16 DEF found

(* The dots are found in the order of the layout: the recursion of         *)
(* Calibrate has one solution.                                             *)
LEMMA DotsAre ==
  ASSUME NEW d, Dims(d), NEW space \in Nat, NEW img, IsPage(img, d, space)
  PROVE  Dots(img, d)[FrameSize(d)] = Found(d, space, FrameSize(d))
<1> DEFINE n == FrameSize(d)
           w == d[1] * d[3]
           Body(f) == [k \in 0 .. n |-> IF k = 0 THEN <<>> ELSE WithNextDot(img, w, f[k - 1])]
           g == [k \in 0 .. n |-> Found(d, space, k)]
           dots == Dots(img, d)
<1>1. n \in Nat
  BY Counts
<1>2. dots = CHOOSE f : f = Body(f)
  BY DEF Dots
<1>3. g = Body(g)
  <2>1. ASSUME NEW k \in 0 .. n, k # 0 PROVE Found(d, space, k) = WithNextDot(img, w, g[k - 1])
    <3> DEFINE j == k - 1
    <3>1. j \in 0 .. n - 1 /\ j \in 0 .. n /\ j + 1 = k
      BY <1>1, <2>1
    <3> HIDE DEF j
    <3>2. WithNextDot(img, w, Found(d, space, j)) = Found(d, space, j + 1)
      BY <3>1, NextIs
    <3>3. g[j] = Found(d, space, j)
      BY <3>1
    <3>. QED
      BY <3>1, <3>2, <3>3 DEF j
  <2>2. Found(d, space, 0) = <<>>
    BY DEF Found
  <2> DEFINE h == Body(g)
  <2>3. ASSUME NEW k \in 0 .. n PROVE g[k] = h[k]
    BY <2>1, <2>2
  <2>. QED
    BY <2>3
<1>4. dots = Body(dots)
  <2> HIDE DEF Body, g
  <2>. QED
    BY <1>2, <1>3
<1>5. \A k \in 0 .. n : dots[k] = IF k = 0 THEN <<>> ELSE WithNextDot(img, w, dots[k - 1])
  <2> HIDE DEF dots, n, w
  <2>. QED
    BY <1>4
<1>6. \A k \in 0 .. n : g[k] = IF k = 0 THEN <<>> ELSE WithNextDot(img, w, g[k - 1])
  <2> HIDE DEF g, n, w
  <2>. QED
    BY <1>3
<1> DEFINE T == {k \in 0 .. n : dots[k] # g[k]}
<1> HIDE DEF dots, g, n, w
<1>7. ASSUME T # {} PROVE FALSE
  <2>1. T \subseteq Nat
    OBVIOUS
  <2>2. PICK m \in T : \A k \in T : m <= k
    BY <1>7, <2>1, Least
  <2>3. m \in 0 .. n /\ dots[m] # g[m]
    OBVIOUS
  <2>4. m # 0
    BY <1>5, <1>6, <2>3
  <2> DEFINE j == m - 1
  <2>5. j \in 0 .. n /\ j < m /\ j \in Nat
    BY <1>1, <2>3, <2>4
  <2>6. dots[m] = WithNextDot(img, w, dots[j]) /\ g[m] = WithNextDot(img, w, g[j])
    BY <1>5, <1>6, <2>3, <2>4
  <2>7. dots[j] # g[j]
    <3> HIDE DEF j
    <3>. QED
      BY <2>3, <2>6
  <2>8. j \in T
    BY <2>5, <2>7
  <2>. QED
    BY <2>2, <2>3, <2>5, <2>8
<1>8. dots[n] = g[n]
  BY <1>1, <1>7
<1>. QED
  BY <1>1, <1>8 DEF dots, g, n

(* Where a symbol is drawn.                                                *)
LEMMA CellOfIs ==
  ASSUME NEW d, Dims(d), NEW space \in Nat, NEW k \in 0 .. FrameSize(d) - 1, NEW p, p = Place(d, k)
  PROVE  CellOf(d, space, k) = <<Px(p.tx, Pitch(d[3], space), p.x + 1), Px(p.ty, Pitch(d[4], space), p.y + 1)>>
<1> DEFINE pw == Pitch(d[3], space)   ph == Pitch(d[4], space)
<1>1. /\ d[1] \in Nat \ {0} /\ d[2] \in Nat \ {0} /\ pw \in Nat /\ ph \in Nat
  BY DimsAxis DEF AxisOf
<1>2. p.x \in Nat /\ p.y \in Nat /\ p.tx \in Nat /\ p.ty \in Nat
  <2>1. /\ p.x \in 0 .. d[3] - 1 /\ p.y \in 0 .. d[4] - 1 /\ p.tx \in 0 .. d[1] - 1 /\ p.ty \in 0 .. d[2] - 1
    BY PlaceType
  <2>. QED
    BY <2>1
<1>3. At(p.tx, pw) \in Nat /\ At(p.ty, ph) \in Nat
  BY <1>1, <1>2, AtType
<1>4. CellOf(d, space, k) = <<At(p.tx, pw) + p.x + 2, At(p.ty, ph) + p.y + 2>>
  BY DEF CellOf, At
<1> HIDE DEF pw, ph
<1>5. At(p.tx, pw) + (p.x + 1) + 1 = At(p.tx, pw) + p.x + 2 /\ At(p.ty, ph) + (p.y + 1) + 1 = At(p.ty, ph) + p.y + 2
  BY <1>2, <1>3
<1>. QED
  BY <1>4, <1>5 DEF Px, pw, ph

(* Calibrate, on the position page of a frame, finds the cell of every     *)
(* symbol, in the order the symbols are drawn: the dots found row by row   *)
(* over the whole picture are dealt to the right tiles.                    *)
THEOREM CalibrateIs ==
  ASSUME NEW d, Dims(d), NEW space \in Nat
  PROVE  Calibrate(PositionPage(d, space), d) = [k \in 1 .. FrameSize(d) |-> CellOf(d, space, k - 1)]
<1> DEFINE n == FrameSize(d)
           img == PositionPage(d, space)
           centers == Dots(img, d)[n]
<1>1. Calibrate(img, d) = [k \in 1 .. n |-> centers[CenterIndex(d, Place(d, k - 1)) + 1]]
  BY DEF Calibrate
<1>2. centers = Found(d, space, n)
  BY Page, DotsAre
<1>3. n \in Nat
  BY Counts
<1> HIDE DEF n, img, centers
<1>4. \A j \in 1 .. n : centers[j] = Dot(d, space, j - 1)
  BY <1>2, <1>3, FoundType
<1>5. ASSUME NEW k \in 0 .. n - 1
      PROVE  centers[CenterIndex(d, Place(d, k)) + 1] = CellOf(d, space, k)
  <2> DEFINE p == Place(d, k)
             i == CenterIndex(d, p)
             col == At(p.tx, d[3]) + p.x
             row == At(p.ty, d[4]) + p.y
  <2>1. /\ d[1] \in Nat \ {0} /\ d[2] \in Nat \ {0} /\ d[3] \in Nat \ {0} /\ d[4] \in Nat \ {0}
    BY DEF Dims
  <2>2. /\ p.x \in 0 .. d[3] - 1 /\ p.y \in 0 .. d[4] - 1 /\ p.tx \in 0 .. d[1] - 1 /\ p.ty \in 0 .. d[2] - 1
    BY PlaceType DEF n
  <2>3. CellOf(d, space, k) = <<Px(p.tx, Pitch(d[3], space), p.x + 1), Px(p.ty, Pitch(d[4], space), p.y + 1)>>
    BY CellOfIs DEF n
  <2>4. i = At(row, ColNum(d)) + col
    <3> DEFINE px == p.x  py == p.y  ptx == p.tx  pty == p.ty  d1 == d[1]  d3 == d[3]  d4 == d[4]
    <3>1. px \in Nat /\ py \in Nat /\ ptx \in Nat /\ pty \in Nat /\ d1 \in Nat /\ d3 \in Nat /\ d4 \in Nat
      BY <2>1, <2>2
    <3>2. i = ((pty * d4 + py) * d1 + ptx) * d3 + px
      BY DEF CenterIndex
    <3>3. At(row, ColNum(d)) + col = (pty * d4 + py) * (d1 * d3) + (ptx * d3 + px)
      BY DEF At, ColNum
    <3> HIDE DEF px, py, ptx, pty, d1, d3, d4, i, row, col
    <3>. QED
      BY <3>1, <3>2, <3>3
  <2> HIDE DEF p, i
  <2>5. MidOf(d[1], d[3], Pitch(d[3], space), p.tx, p.x) /\ MidOf(d[2], d[4], Pitch(d[4], space), p.ty, p.y)
    BY <2>1, <2>2, MidIs
  <2>6. /\ col \in 0 .. ColNum(d) - 1 /\ row \in 0 .. RowNum(d) - 1
        /\ MidX(d, space, col) = Px(p.tx, Pitch(d[3], space), p.x + 1)
        /\ MidY(d, space, row) = Px(p.ty, Pitch(d[4], space), p.y + 1)
    BY <2>5 DEF MidOf, MidX, MidY, ColNum, RowNum
  <2> HIDE DEF col, row
  <2>7. ColNum(d) \in Nat \ {0} /\ RowNum(d) \in Nat \ {0} /\ n = At(RowNum(d), ColNum(d))
    BY Counts DEF n
  <2>8. Rem(i, ColNum(d)) = col /\ Quo(i, ColNum(d)) = row
    BY <2>4, <2>6, <2>7, QuoRemIs
  <2>9. i \in 0 .. n - 1
    <3>1. row \in Nat /\ row < RowNum(d) /\ ColNum(d) \in Nat /\ RowNum(d) \in Nat
      BY <2>6, <2>7
    <3>2. At(row, ColNum(d)) \in Nat /\ At(row, ColNum(d)) + ColNum(d) <= At(RowNum(d), ColNum(d))
      BY <3>1, AtType
    <3>. QED
      BY <1>3, <2>4, <2>6, <2>7, <3>2
  <2>10. centers[i + 1] = Dot(d, space, i)
    <3> DEFINE j == i + 1
    <3>1. j \in 1 .. n /\ j - 1 = i
      BY <1>3, <2>9
    <3> HIDE DEF j
    <3>2. centers[j] = Dot(d, space, j - 1)
      BY <1>4, <3>1
    <3>. QED
      BY <3>1, <3>2 DEF j
  <2>11. Dot(d, space, i) = <<MidX(d, space, col), MidY(d, space, row)>>
    BY <2>8 DEF Dot
  <2>. QED
    BY <2>3, <2>6, <2>10, <2>11 DEF i, p
<1>6. \A k \in 1 .. n : k - 1 \in 0 .. n - 1
  BY <1>3
<1>. QED
  BY <1>1, <1>5, <1>6 DEF n, img

(* A codec's own colours stay.                                             *)
LEMMA PixelizeIs ==
  ASSUME NEW bits \in 1 .. 3, NEW s \in SymbolsOf(bits)
  PROVE  do_pixelize(bits, s) = s
<1>1. CASE bits = 1
  <2>1. s \in 0 .. 1
    BY <1>1 DEF SymbolsOf
  <2>. QED
    BY <1>1, <2>1 DEF do_pixelize, BLACK, WHITE, RED
<1>2. CASE bits = 2
  <2>1. s \in 0 .. 3
    BY <1>2 DEF SymbolsOf
  <2>. QED
    BY <1>2, <2>1 DEF do_pixelize
<1>3. CASE bits = 3
  BY <1>3 DEF do_pixelize
<1>. QED
  BY <1>1, <1>2, <1>3

(* A cell of a tile has a symbol.                                          *)
LEMMA SymbolIndexType ==
  ASSUME NEW d, Dims(d), NEW tx \in 0 .. d[1] - 1, NEW ty \in 0 .. d[2] - 1, NEW x \in 0 .. d[3] - 1, NEW y \in 0 .. d[4] - 1
  PROVE  SymbolIndex(d, tx, ty, x, y) \in 0 .. FrameSize(d) - 1
<1> DEFINE d1 == d[1]   d2 == d[2]   d3 == d[3]   d4 == d[4]
<1>1. d1 \in Nat \ {0} /\ d2 \in Nat \ {0} /\ d3 \in Nat \ {0} /\ d4 \in Nat \ {0}
  BY DEF Dims
<1>2. tx \in 0 .. d1 - 1 /\ ty \in 0 .. d2 - 1 /\ x \in 0 .. d3 - 1 /\ y \in 0 .. d4 - 1
  OBVIOUS
<1>3. SymbolIndex(d, tx, ty, x, y) = At(At(At(ty, d1) + tx, d4) + y, d3) + x /\ FrameSize(d) = d1 * d2 * d3 * d4
  BY DEF SymbolIndex, FrameSize, At
<1> HIDE DEF d1, d2, d3, d4
<1>4. FrameSize(d) = At(At(At(d2, d1), d4), d3)
  BY <1>1, <1>3 DEF At
<1> DEFINE i1 == At(ty, d1) + tx
<1>5. i1 \in Nat /\ i1 < At(d2, d1) /\ At(d2, d1) \in Nat
  <2>1. ty \in Nat /\ d2 \in Nat /\ ty < d2 /\ d1 \in Nat
    BY <1>1, <1>2
  <2>2. At(ty, d1) \in Nat /\ At(ty, d1) + d1 <= At(d2, d1) /\ At(d2, d1) \in Nat
    BY <2>1, AtType
  <2>. QED
    BY <1>1, <1>2, <2>2
<1> DEFINE i2 == At(i1, d4) + y
<1> HIDE DEF i1
<1>6. i2 \in Nat /\ i2 < At(At(d2, d1), d4) /\ At(At(d2, d1), d4) \in Nat
  <2>1. At(i1, d4) \in Nat /\ At(i1, d4) + d4 <= At(At(d2, d1), d4) /\ At(At(d2, d1), d4) \in Nat
    BY <1>1, <1>5, AtType
  <2>. QED
    BY <1>1, <1>2, <2>1
<1> HIDE DEF i2
<1>7. At(i2, d3) \in Nat /\ At(i2, d3) + d3 <= FrameSize(d) /\ FrameSize(d) \in Nat
  BY <1>1, <1>4, <1>6, AtType
<1>8. At(i2, d3) + x \in 0 .. FrameSize(d) - 1
  BY <1>1, <1>2, <1>7
<1>. QED
  BY <1>3, <1>8 DEF i1, i2

(* The cells of a part's image, and the image.                             *)
Drawn(d, symbols) ==
  [c \in TileCells(d) |->
      IF is_tile_border(d[3], d[4], c[3], c[4]) THEN BLACK
      ELSE symbols[SymbolIndex(d, c[1], c[2], c[3] - 1, c[4] - 1) + 1]]

(* The cells are drawn in colours.                                         *)
LEMMA DrawnType ==
  ASSUME NEW d, Dims(d), NEW symbols \in Seq(Byte), Len(symbols) = FrameSize(d)
  PROVE  Drawn(d, symbols) \in [TileCells(d) -> Byte]
<1>1. d[1] \in Nat \ {0} /\ d[2] \in Nat \ {0} /\ d[3] \in Nat \ {0} /\ d[4] \in Nat \ {0}
  BY DEF Dims
<1>2. ASSUME NEW tx \in 0 .. d[1] - 1, NEW ty \in 0 .. d[2] - 1, NEW x \in 0 .. d[3] + 1, NEW y \in 0 .. d[4] + 1,
             ~is_tile_border(d[3], d[4], x, y)
      PROVE  symbols[SymbolIndex(d, tx, ty, x - 1, y - 1) + 1] \in Byte
  <2> DEFINE x1 == x - 1   y1 == y - 1   i == SymbolIndex(d, tx, ty, x1, y1)
  <2>1. x1 \in 0 .. d[3] - 1 /\ y1 \in 0 .. d[4] - 1
    <3> DEFINE d3 == d[3]   d4 == d[4]
    <3>1. y # 0 /\ y # d4 + 1 /\ x # 0 /\ x # d3 + 1
      BY <1>2 DEF is_tile_border
    <3>2. d3 \in Nat /\ d4 \in Nat /\ x \in 0 .. d3 + 1 /\ y \in 0 .. d4 + 1
      BY <1>1
    <3> HIDE DEF d3, d4
    <3>3. x \in 1 .. d3 /\ y \in 1 .. d4
      BY <3>1, <3>2
    <3>4. x - 1 \in 0 .. d3 - 1 /\ y - 1 \in 0 .. d4 - 1
      BY <3>2, <3>3
    <3>. QED
      BY <3>4 DEF d3, d4
  <2> HIDE DEF x1, y1
  <2>2. i \in 0 .. FrameSize(d) - 1 /\ FrameSize(d) \in Nat
    BY <2>1, SymbolIndexType, Counts
  <2> HIDE DEF i
  <2>3. i + 1 \in 1 .. Len(symbols)
    BY <2>2
  <2>4. symbols[i + 1] \in Byte
    BY <2>3, ElementOfSeq
  <2>. QED
    BY <2>4 DEF i, x1, y1
<1>3. BLACK \in Byte
  BY DEF BLACK, Byte
<1>. QED
  BY <1>2, <1>3 DEF Drawn, TileCells

PartImage(d, space, between, symbols) == Layout(d, space, between, Drawn(d, symbols))

(* A symbol is shown where its cell is.                                    *)
LEMMA SymbolShown ==
  ASSUME NEW d, Dims(d), NEW space \in Nat, NEW between, NEW symbols, NEW k \in 0 .. FrameSize(d) - 1
  PROVE  PartImage(d, space, between, symbols).at[CellOf(d, space, k)] = symbols[k + 1]
<1> DEFINE p == Place(d, k)
<1> HIDE DEF p
<1>1. d[1] \in Nat \ {0} /\ d[2] \in Nat \ {0} /\ d[3] \in Nat \ {0} /\ d[4] \in Nat \ {0}
  BY DEF Dims
<1>2. /\ p.x \in 0 .. d[3] - 1 /\ p.y \in 0 .. d[4] - 1 /\ p.tx \in 0 .. d[1] - 1 /\ p.ty \in 0 .. d[2] - 1
      /\ SymbolIndex(d, p.tx, p.ty, p.x, p.y) = k
  BY PlaceType DEF p
<1> DEFINE x == p.x + 1   y == p.y + 1   cell == Drawn(d, symbols)
           img == PartImage(d, space, between, symbols)
<1>3. x \in 0 .. d[3] + 1 /\ y \in 0 .. d[4] + 1 /\ x - 1 = p.x /\ y - 1 = p.y /\ ~is_tile_border(d[3], d[4], x, y)
  BY <1>1, <1>2 DEF is_tile_border
<1>4. CellOf(d, space, k) = <<Px(p.tx, Pitch(d[3], space), x), Px(p.ty, Pitch(d[4], space), y)>>
  BY CellOfIs DEF p
<1> HIDE DEF x, y
<1>5. cell[<<p.tx, p.ty, x, y>>] = symbols[k + 1]
  <2>1. <<p.tx, p.ty, x, y>> \in TileCells(d)
    BY <1>2, <1>3 DEF TileCells
  <2>. QED
    BY <1>2, <1>3, <2>1 DEF Drawn
<1>6. img.at[<<Px(p.tx, Pitch(d[3], space), x), Px(p.ty, Pitch(d[4], space), y)>>] = cell[<<p.tx, p.ty, x, y>>]
  <2>1. img = Layout(d, space, between, cell)
    BY DEF PartImage
  <2> HIDE DEF img, cell
  <2>. QED
    BY <1>2, <1>3, <2>1, LayoutCell
<1>. QED
  BY <1>4, <1>5, <1>6 DEF x, y

(* What the camera's colours are read as.                                  *)
Pixelized(d, bits, symbols) == [k \in 1 .. FrameSize(d) |-> do_pixelize(bits, symbols[k])]

(* A codec's own colours stay.                                             *)
LEMMA PixelizedIs ==
  ASSUME NEW d, NEW bits \in 1 .. 3, NEW symbols \in Seq(SymbolsOf(bits)), Len(symbols) = FrameSize(d)
  PROVE  Pixelized(d, bits, symbols) = symbols
<1> DEFINE n == FrameSize(d)
<1>1. symbols = [k \in 1 .. n |-> symbols[k]] /\ \A k \in 1 .. n : symbols[k] \in SymbolsOf(bits)
  BY ElementOfSeq, LenProperties
<1> HIDE DEF n
<1>2. \A k \in 1 .. n : do_pixelize(bits, symbols[k]) = symbols[k]
  BY <1>1, PixelizeIs
<1>. QED
  BY <1>1, <1>2 DEF Pixelized, n

(* Read at the centres of the calibration, every symbol is the colour its  *)
(* cell was drawn in.                                                      *)
LEMMA CalibratedColors ==
  ASSUME NEW d, Dims(d), NEW space \in Nat, NEW between, NEW bits, NEW symbols
  PROVE  CalibratedSymbols(PartImage(d, space, between, symbols), bits, Calibrate(PositionPage(d, space), d))
           = Pixelized(d, bits, symbols)
<1> DEFINE n == FrameSize(d)
           img == PartImage(d, space, between, symbols)
           centers == Calibrate(PositionPage(d, space), d)
<1>1. n \in Nat /\ centers = [k \in 1 .. n |-> CellOf(d, space, k - 1)]
  BY Counts, CalibrateIs
<1>2. ASSUME NEW k \in 0 .. n - 1 PROVE img.at[CellOf(d, space, k)] = symbols[k + 1]
  BY SymbolShown
<1>3. CalibratedSymbols(img, bits, centers) = [k \in DOMAIN centers |-> do_pixelize(bits, img.at[centers[k]])]
  BY DEF CalibratedSymbols
<1> HIDE DEF n, img, centers
<1>4. ASSUME NEW k \in 1 .. n PROVE img.at[centers[k]] = symbols[k]
  <2> DEFINE j == k - 1
  <2>1. j \in 0 .. n - 1 /\ j + 1 = k /\ centers[k] = CellOf(d, space, j)
    BY <1>1
  <2> HIDE DEF j
  <2>. QED
    BY <1>2, <2>1
<1>5. DOMAIN centers = 1 .. n
  BY <1>1
<1>6. CalibratedSymbols(img, bits, centers) = [k \in 1 .. n |-> do_pixelize(bits, symbols[k])]
  BY <1>3, <1>4, <1>5
<1>. QED
  BY <1>6 DEF img, centers, n, Pixelized

(* Read at the centres of the calibration, a part's image gives the        *)
(* symbols that were drawn, whatever is between its tiles.                 *)
THEOREM CalibratedReading ==
  ASSUME NEW d, Dims(d), NEW space \in Nat, NEW between, NEW bits \in 1 .. 3,
         NEW symbols \in Seq(SymbolsOf(bits)), Len(symbols) = FrameSize(d)
  PROVE  CalibratedSymbols(PartImage(d, space, between, symbols), bits, Calibrate(PositionPage(d, space), d)) = symbols
BY CalibratedColors, PixelizedIs

-----------------------------------------------------------------------------
(* The reading without a calibration.  First the margin is cut off: what   *)
(* is left shows the tiles and what is between them.                       *)
Spot(t, p, x) == At(t, p) + x
IsQuad(img, d, between, cell, p, q, c, r) ==
  /\ img.cols = c /\ img.rows = r /\ DOMAIN img.at = Cells(c, r)
  /\ \A v \in 0 .. c - 1, w \in 0 .. r - 1 :
        img.at[<<v, w>>] = IF Rem(v, p) > d[3] + 1 \/ Rem(w, q) > d[4] + 1 THEN between
                           ELSE cell[<<Quo(v, p), Quo(w, q), Rem(v, p), Rem(w, q)>>]

(* One axis of it: n tiles of s cells, g between them.                     *)
TileAxis(n, s, g, p, m) ==
  /\ n \in Nat \ {0} /\ s \in Nat \ {0} /\ g \in Nat /\ p = s + 2 + g
  /\ m \in Nat /\ m = Spot(n - 1, p, s + 2)
  /\ \A v \in 0 .. m - 1 : Quo(v, p) \in 0 .. n - 1 /\ Rem(v, p) \in 0 .. p - 1 /\ v = Spot(Quo(v, p), p, Rem(v, p))
  /\ \A t \in 0 .. n - 1, x \in 0 .. s + 1 :
        Spot(t, p, x) \in 0 .. m - 1 /\ Quo(Spot(t, p, x), p) = t /\ Rem(Spot(t, p, x), p) = x

(* The layout has such axes, without its margin.                           *)
LEMMA TileAxisIs ==
  ASSUME NEW n \in Nat \ {0}, NEW s \in Nat \ {0}, NEW g \in Nat
  PROVE  TileAxis(n, s, g, Pitch(s, g), Extent(n, s, g) - 2)
<1> DEFINE p == Pitch(s, g)   m == Extent(n, s, g) - 2   k == n - 1
<1>1. AxisOf(n, s, g, p, Extent(n, s, g))
  BY Axis
<1>2. p \in Nat \ {0} /\ p = s + 2 + g /\ Extent(n, s, g) \in Nat /\ Extent(n, s, g) = At(n, p) - g + 2
      /\ Extent(n, s, g) >= 5 /\ At(n, p) \in Nat
      /\ \A t \in 0 .. n - 1 : At(t, p) \in Nat /\ At(t, p) + s + 2 <= Extent(n, s, g) - 2
  BY <1>1 DEF AxisOf
<1> HIDE DEF p
<1>3. m \in Nat /\ m = At(n, p) - g /\ m <= At(n, p)
  BY <1>2
<1>4. \A t \in 0 .. n - 1 : At(t, p) \in Nat /\ At(t, p) + s + 2 <= m
  BY <1>2
<1> HIDE DEF m
<1>5. At(n, p) = At(k, p) + p /\ At(k, p) \in Nat
  <2>1. (n - 1) * p + p = n * p
    BY <1>2
  <2>2. k \in Nat
    OBVIOUS
  <2>. QED
    BY <1>2, <2>1, <2>2, AtType DEF At
<1>6. m = Spot(n - 1, p, s + 2)
  BY <1>2, <1>3, <1>5 DEF Spot
<1>7. ASSUME NEW v \in 0 .. m - 1
      PROVE  Quo(v, p) \in 0 .. n - 1 /\ Rem(v, p) \in 0 .. p - 1 /\ v = Spot(Quo(v, p), p, Rem(v, p))
  <2>1. v \in Nat /\ v < At(n, p)
    BY <1>2, <1>3
  <2>. QED
    BY <1>2, <2>1, QuoBound, QuoRem DEF Spot
<1>8. ASSUME NEW t \in 0 .. n - 1, NEW x \in 0 .. s + 1
      PROVE  Spot(t, p, x) \in 0 .. m - 1 /\ Quo(Spot(t, p, x), p) = t /\ Rem(Spot(t, p, x), p) = x
  <2>1. At(t, p) \in Nat /\ At(t, p) + s + 2 <= m
    BY <1>4
  <2>2. x \in 0 .. p - 1 /\ t \in Nat
    BY <1>2
  <2>3. Quo(At(t, p) + x, p) = t /\ Rem(At(t, p) + x, p) = x
    BY <1>2, <2>2, QuoRemIs
  <2>. QED
    BY <1>3, <2>1, <2>3 DEF Spot
<1>. QED
  BY <1>2, <1>3, <1>6, <1>7, <1>8 DEF TileAxis, m, p

(* An image whose tiles have dark borders is cut to them.                  *)
Bordered(d, cell) ==
  \A tx \in 0 .. d[1] - 1, ty \in 0 .. d[2] - 1, x \in 0 .. d[3] + 1, y \in 0 .. d[4] + 1 :
     is_tile_border(d[3], d[4], x, y) => cell[<<tx, ty, x, y>>] \in Dark

(* do_auto_quad cuts off the margin, and nothing else.                     *)
LEMMA QuadOfLayout ==
  ASSUME NEW d, Dims(d), NEW space \in Nat, NEW between, NEW cell, Bordered(d, cell)
  PROVE  IsQuad(do_auto_quad(Layout(d, space, between, cell)), d, between, cell,
                Pitch(d[3], space), Pitch(d[4], space), Cols(d, space) - 2, Rows(d, space) - 2)
<1> DEFINE img == Layout(d, space, between, cell)
           p == Pitch(d[3], space)   q == Pitch(d[4], space)
           cols == Cols(d, space)   rows == Rows(d, space)
           c == cols - 2   r == rows - 2
           quad == do_auto_quad(img)
<1>1. /\ d[1] \in Nat \ {0} /\ d[2] \in Nat \ {0} /\ d[3] \in Nat \ {0} /\ d[4] \in Nat \ {0}
      /\ cols \in Nat /\ rows \in Nat /\ cols >= 5 /\ rows >= 5
  BY DimsAxis DEF AxisOf
<1>2. TileAxis(d[1], d[3], space, p, c) /\ TileAxis(d[2], d[4], space, q, r)
  BY <1>1, TileAxisIs DEF Cols, Rows
<1>3. ASSUME NEW v \in 0 .. cols - 1, NEW w \in 0 .. rows - 1
      PROVE  img.at[<<v, w>>] =
               IF v \in {0, cols - 1} \/ w \in {0, rows - 1} THEN WHITE
               ELSE IF Offset(v, p) > d[3] + 1 \/ Offset(w, q) > d[4] + 1 THEN between
               ELSE cell[<<PartWith(v, p), PartWith(w, q), Offset(v, p), Offset(w, q)>>]
  <2>1. <<v, w>> \in Cells(cols, rows)
    BY DEF Cells
  <2>. QED
    BY <2>1, LayoutAt
<1>4. DOMAIN img.at = Cells(cols, rows)
  BY DEF Layout, Cols, Rows
<1> HIDE DEF img, p, q, cols, rows
<1>5. ASSUME NEW tx \in 0 .. d[1] - 1, NEW ty \in 0 .. d[2] - 1, NEW x \in {0, d[3] + 1}, NEW y \in {0, d[4] + 1}
      PROVE  img.at[<<Px(tx, p, x), Px(ty, q, y)>>] \in Dark
  <2>1. x \in 0 .. d[3] + 1 /\ y \in 0 .. d[4] + 1 /\ is_tile_border(d[3], d[4], x, y)
    BY <1>1 DEF is_tile_border
  <2>2. img.at[<<Px(tx, p, x), Px(ty, q, y)>>] = cell[<<tx, ty, x, y>>]
    BY <2>1, LayoutCell DEF img, p, q
  <2>. QED
    BY <2>1, <2>2 DEF Bordered
<1>6. Px(0, p, 0) = 1 /\ Px(d[1] - 1, p, d[3] + 1) = cols - 2 /\ Px(0, q, 0) = 1 /\ Px(d[2] - 1, q, d[4] + 1) = rows - 2
  <2>1. c = Spot(d[1] - 1, p, d[3] + 2) /\ r = Spot(d[2] - 1, q, d[4] + 2) /\ p \in Nat /\ q \in Nat
    BY <1>2 DEF TileAxis
  <2>2. At(0, p) = 0 /\ At(0, q) = 0
    BY <2>1 DEF At
  <2>3. d[1] - 1 \in Nat /\ d[2] - 1 \in Nat
    BY <1>1
  <2>4. At(d[1] - 1, p) \in Nat /\ At(d[2] - 1, q) \in Nat
    BY <2>1, <2>3, AtType
  <2>. QED
    BY <1>1, <2>1, <2>2, <2>4 DEF Px, Spot
<1>7. ASSUME NEW v \in 0 .. cols - 1, NEW w \in 0 .. rows - 1, img.at[<<v, w>>] \in Dark
      PROVE  v \in 1 .. cols - 2 /\ w \in 1 .. rows - 2
  <2>1. ~(v \in {0, cols - 1} \/ w \in {0, rows - 1})
    BY <1>3, <1>7, DarkAssumption
  <2>. QED
    BY <1>1, <2>1
<1>8. /\ img.at[<<1, 1>>] \in Dark /\ img.at[<<1, rows - 2>>] \in Dark
      /\ img.at[<<cols - 2, 1>>] \in Dark /\ img.at[<<cols - 2, rows - 2>>] \in Dark
  <2>1. 0 \in 0 .. d[1] - 1 /\ d[1] - 1 \in 0 .. d[1] - 1 /\ 0 \in 0 .. d[2] - 1 /\ d[2] - 1 \in 0 .. d[2] - 1
    BY <1>1
  <2>. QED
    BY <1>5, <1>6, <2>1
<1>9. quad = do_crop(img, <<1, 1, cols - 2 + 1, rows - 2 + 1>>)
  <2> DEFINE x2 == cols - 2   y2 == rows - 2
  <2>1. 1 \in 0 .. cols - 1 /\ x2 \in 0 .. cols - 1 /\ 1 \in 0 .. rows - 1 /\ y2 \in 0 .. rows - 1 /\ 1 <= x2 /\ 1 <= y2
    BY <1>1
  <2>2. /\ img.at[<<1, 1>>] \in Dark /\ img.at[<<1, y2>>] \in Dark /\ img.at[<<x2, 1>>] \in Dark /\ img.at[<<x2, y2>>] \in Dark
        /\ \A v \in 0 .. cols - 1, w \in 0 .. rows - 1 : img.at[<<v, w>>] \in Dark => v \in 1 .. x2 /\ w \in 1 .. y2
    BY <1>7, <1>8
  <2> HIDE DEF x2, y2
  <2>3. do_auto_quad(img) = do_crop(img, <<1, 1, x2 + 1, y2 + 1>>)
    BY <1>1, <1>4, <2>1, <2>2, QuadIs, SMTT(30)
  <2>. QED
    BY <2>3 DEF x2, y2
<1>10. CropOf(img, quad, 1, 1, cols - 1, rows - 1)
  <2>1. cols - 2 + 1 = cols - 1 /\ rows - 2 + 1 = rows - 1
    BY <1>1
  <2>. QED
    BY <1>9, <2>1, Crop
<1>11. cols - 1 - 1 = c /\ rows - 1 - 1 = r
  BY <1>1
<1> HIDE DEF quad
<1>12. /\ quad.cols = c /\ quad.rows = r /\ DOMAIN quad.at = Cells(c, r)
       /\ \A v \in 0 .. c - 1, w \in 0 .. r - 1 : quad.at[<<v, w>>] = img.at[<<v + 1, w + 1>>]
  BY <1>10, <1>11 DEF CropOf
<1>13. ASSUME NEW v \in 0 .. c - 1, NEW w \in 0 .. r - 1
       PROVE  quad.at[<<v, w>>] = IF Rem(v, p) > d[3] + 1 \/ Rem(w, q) > d[4] + 1 THEN between
                                  ELSE cell[<<Quo(v, p), Quo(w, q), Rem(v, p), Rem(w, q)>>]
  <2> DEFINE v1 == v + 1   w1 == w + 1
  <2>1. v1 \in 0 .. cols - 1 /\ w1 \in 0 .. rows - 1 /\ v1 \notin {0, cols - 1} /\ w1 \notin {0, rows - 1}
    BY <1>1
  <2>2. v1 - 1 = v /\ w1 - 1 = w
    BY <1>1
  <2>3. Offset(v1, p) = Rem(v, p) /\ PartWith(v1, p) = Quo(v, p) /\ Offset(w1, q) = Rem(w, q) /\ PartWith(w1, q) = Quo(w, q)
    BY <2>2 DEF Offset, PartWith, Rem, Quo
  <2> HIDE DEF c, r
  <2>4. quad.at[<<v, w>>] = img.at[<<v1, w1>>]
    BY <1>12
  <2> HIDE DEF v1, w1
  <2>. QED
    BY <1>3, <2>1, <2>3, <2>4
<1>. QED
  BY <1>12, <1>13 DEF IsQuad, quad, img, p, q, cols, rows

-----------------------------------------------------------------------------
(* The spaces between the tiles are found, in their order.                 *)
LEMMA ImageCount ==
  ASSUME NEW t \in Nat, NEW f \in [0 .. t - 1 -> Nat], \A u, v \in 0 .. t - 1 : f[u] = f[v] => u = v
  PROVE  Cardinality({f[u] : u \in 0 .. t - 1}) = t
<1> DEFINE S == 0 .. t - 1
           T == {f[u] : u \in S}
<1>1. IsFiniteSet(S) /\ Cardinality(S) = t
  <2>1. 0 \in Int /\ t - 1 \in Int /\ (IF 0 > t - 1 THEN 0 ELSE t - 1 - 0 + 1) = t
    OBVIOUS
  <2>2. IsFiniteSet(0 .. t - 1) /\ Cardinality(0 .. t - 1) = IF 0 > t - 1 THEN 0 ELSE t - 1 - 0 + 1
    BY <2>1, FS_Interval
  <2>. QED
    BY <2>1, <2>2
<1>2. f \in Surjection(S, T) /\ f \in Injection(S, T)
  <2>1. f \in [S -> T]
    OBVIOUS
  <2>. QED
    BY <2>1 DEF Surjection, Injection, IsInjective
<1>. QED
  BY <1>1, <1>2, FS_Surjection

Cuts(sp, n, s, p) ==
  /\ sp \in Seq(Nat) /\ Len(sp) = n - 1
  /\ \A k \in 1 .. n - 1 : sp[k] >= Spot(k - 1, p, s + 2) /\ sp[k] <= Spot(k, p, 0)
White(m, s, p) == {v \in 0 .. m - 1 : Rem(v, p) > s + 1}

(* The middles of the spaces cut between the tiles.                        *)
LEMMA SpacesAre ==
  ASSUME NEW n, NEW s, NEW g, NEW p, NEW m, TileAxis(n, s, g, p, m), g > 0 \/ n = 1
  PROVE  Cuts(Spaces(m, White(m, s, p)), n, s, p)
<1> DEFINE white == White(m, s, p)
           B(t) == Spot(t, p, s + 2)
           begins == {a \in white : a - 1 \notin white}
           Begin(k) == CHOOSE a \in begins : Cardinality({c \in begins : c < a}) = k - 1
           End(a) == CHOOSE e \in a + 1 .. m : e \notin white /\ a .. e - 1 \subseteq white
           sp == Spaces(m, white)
           all == {B(t) : t \in 0 .. n - 2}
<1>1. /\ n \in Nat \ {0} /\ s \in Nat \ {0} /\ g \in Nat /\ p = s + 2 + g /\ p \in Nat \ {0}
      /\ m \in Nat /\ m = B(n - 1)
      /\ \A v \in 0 .. m - 1 : Quo(v, p) \in 0 .. n - 1 /\ Rem(v, p) \in 0 .. p - 1 /\ v = Spot(Quo(v, p), p, Rem(v, p))
  BY DEF TileAxis
<1>2. sp = [k \in 1 .. Cardinality(begins) |-> (Begin(k) + End(Begin(k))) \div 2]
  BY DEF Spaces
<1>3. \A v : v \in white <=> v \in 0 .. m - 1 /\ Rem(v, p) > s + 1
  BY DEF White
<1> HIDE DEF white, sp
<1>4. \A t \in Nat, x \in 0 .. p - 1 : Quo(Spot(t, p, x), p) = t /\ Rem(Spot(t, p, x), p) = x
  BY <1>1, QuoRemIs DEF Spot
<1>5. \A t \in Nat, x \in Nat : Spot(t, p, x) \in Nat /\ Spot(t, p, x) = Spot(t, p, 0) + x
  <2>1. \A t \in Nat : At(t, p) \in Nat
    BY <1>1, AtType
  <2>. QED
    BY <2>1 DEF Spot
<1>6. \A t, u \in Nat : t < u => Spot(t, p, 0) + p <= Spot(u, p, 0)
  <2>1. \A t, u \in Nat : t < u => At(t, p) + p <= At(u, p)
    BY <1>1, AtType
  <2>2. \A t \in Nat : Spot(t, p, 0) = At(t, p)
    BY <1>1, AtType DEF Spot
  <2>. QED
    BY <2>1, <2>2
<1>7. \A t \in 0 .. n - 2 : B(t) \in Nat /\ B(t) = Spot(t, p, 0) + s + 2
  <2> DEFINE x == s + 2
  <2>1. x \in Nat /\ \A t \in 0 .. n - 2 : t \in Nat
    BY <1>1
  <2> HIDE DEF x
  <2>2. \A t \in 0 .. n - 2 : Spot(t, p, x) \in Nat /\ Spot(t, p, x) = Spot(t, p, 0) + x /\ Spot(t, p, 0) \in Nat
    BY <1>5, <2>1
  <2>3. \A t \in 0 .. n - 2 : Spot(t, p, 0) + x = Spot(t, p, 0) + s + 2
    BY <1>1, <2>2 DEF x
  <2>. QED
    BY <2>2, <2>3 DEF x
<1>8. \A t, u \in 0 .. n - 2 : t < u => B(t) < B(u)
  <2>1. \A t \in 0 .. n - 2 : t \in Nat /\ Spot(t, p, 0) \in Nat
    BY <1>5
  <2>. QED
    BY <1>1, <1>6, <1>7, <2>1
<1>9. ASSUME NEW t \in 0 .. n - 2
      PROVE  /\ Spot(t + 1, p, 0) \in Nat /\ Spot(t + 1, p, 0) = B(t) + g /\ g > 0 /\ Spot(t + 1, p, 0) < m
             /\ \A x \in 0 .. g - 1 : Rem(B(t) + x, p) = s + 2 + x
             /\ Rem(B(t) - 1, p) = s + 1 /\ Rem(Spot(t + 1, p, 0), p) = 0 /\ B(t) - 1 \in Nat
  <2> DEFINE u == t + 1
  <2>1. u \in Nat /\ t \in Nat /\ u <= n - 1 /\ g > 0 /\ n - 1 \in Nat
    BY <1>1
  <2>2. Spot(u, p, 0) = Spot(t, p, 0) + p
    <3>1. (t + 1) * p = t * p + p /\ t * p \in Nat
      BY <1>1, <2>1
    <3>. QED
      BY <1>1, <3>1 DEF Spot, At
  <2>3. Spot(u, p, 0) \in Nat /\ Spot(t, p, 0) \in Nat /\ B(t) = Spot(t, p, 0) + s + 2
    BY <1>5, <1>7, <2>1
  <2>4. Spot(u, p, 0) < m
    <3>1. m = Spot(n - 1, p, 0) + s + 2 /\ Spot(n - 1, p, 0) \in Nat
      <4> DEFINE x == s + 2   t1 == n - 1
      <4>1. x \in Nat /\ t1 \in Nat /\ m = Spot(t1, p, x)
        BY <1>1
      <4> HIDE DEF u, x, t1
      <4>2. m = Spot(t1, p, 0) + x /\ Spot(t1, p, 0) \in Nat
        BY <1>5, <4>1
      <4>3. Spot(t1, p, 0) + x = Spot(t1, p, 0) + s + 2
        BY <1>1, <4>2 DEF x
      <4>. QED
        BY <4>2, <4>3 DEF t1
    <3>2. u = n - 1 \/ u < n - 1
      BY <1>1, <2>1
    <3> DEFINE t1 == n - 1
    <3>a. t1 \in Nat /\ Spot(t1, p, 0) \in Nat /\ (u = t1 \/ u < t1)
      BY <2>1, <3>1, <3>2
    <3> HIDE DEF u, t1
    <3>b. Spot(u, p, 0) <= Spot(t1, p, 0)
      BY <1>1, <1>6, <2>1, <2>3, <3>a
    <3>3. Spot(u, p, 0) <= Spot(n - 1, p, 0)
      BY <3>b DEF t1
    <3>. QED
      BY <1>1, <2>3, <3>1, <3>3
  <2>5. ASSUME NEW x \in 0 .. g - 1 PROVE Rem(B(t) + x, p) = s + 2 + x
    <3> DEFINE y == s + 2 + x
    <3>1. y \in 0 .. p - 1 /\ y \in Nat
      BY <1>1
    <3>2. B(t) + x = Spot(t, p, 0) + y
      BY <1>1, <2>3
    <3> HIDE DEF y
    <3>3. B(t) + x = Spot(t, p, y)
      BY <1>5, <2>1, <3>1, <3>2
    <3>4. Rem(B(t) + x, p) = y
      BY <1>4, <2>1, <3>1, <3>3
    <3>. QED
      BY <3>4 DEF y
  <2>6. Rem(B(t) - 1, p) = s + 1
    <3> DEFINE y == s + 1
    <3>1. y \in 0 .. p - 1 /\ y \in Nat
      BY <1>1
    <3>2. B(t) - 1 = Spot(t, p, 0) + y
      BY <1>1, <2>3
    <3> HIDE DEF y
    <3>3. B(t) - 1 = Spot(t, p, y)
      BY <1>5, <2>1, <3>1, <3>2
    <3>4. Rem(B(t) - 1, p) = y
      BY <1>4, <2>1, <3>1, <3>3
    <3>. QED
      BY <3>4 DEF y
  <2>7. Rem(Spot(u, p, 0), p) = 0
    <3>1. 0 \in 0 .. p - 1
      BY <1>1
    <3>. QED
      BY <1>4, <2>1, <3>1
  <2>8. Spot(u, p, 0) = B(t) + g /\ B(t) - 1 \in Nat
    BY <1>1, <2>2, <2>3
  <2> HIDE DEF B
  <2>. QED
    BY <2>1, <2>3, <2>4, <2>5, <2>6, <2>7, <2>8
<1>10. begins = all
  <2>1. ASSUME NEW t \in 0 .. n - 2 PROVE B(t) \in begins
    <3>1. /\ Spot(t + 1, p, 0) \in Nat /\ Spot(t + 1, p, 0) = B(t) + g /\ g > 0 /\ Spot(t + 1, p, 0) < m
          /\ \A x \in 0 .. g - 1 : Rem(B(t) + x, p) = s + 2 + x
          /\ Rem(B(t) - 1, p) = s + 1
      BY <1>9
    <3>2. B(t) \in Nat
      BY <1>7
    <3> HIDE DEF B
    <3>3. B(t) + 0 = B(t) /\ 0 \in 0 .. g - 1 /\ s + 2 + 0 > s + 1
      BY <1>1, <3>1, <3>2
    <3>4. Rem(B(t), p) > s + 1 /\ B(t) \in 0 .. m - 1
      BY <1>1, <3>1, <3>2, <3>3
    <3>5. ~(s + 1 > s + 1)
      BY <1>1
    <3>. QED
      BY <1>3, <3>1, <3>4, <3>5
  <2>2. ASSUME NEW a \in begins PROVE \E t \in 0 .. n - 2 : a = B(t)
    <3> DEFINE t == Quo(a, p)
               x == Rem(a, p)
    <3>1. a \in 0 .. m - 1 /\ Rem(a, p) > s + 1 /\ a - 1 \notin white
      BY <1>3
    <3>2. t \in 0 .. n - 1 /\ x \in 0 .. p - 1 /\ a = Spot(t, p, x) /\ x > s + 1
      BY <1>1, <3>1
    <3>3. a = Spot(t, p, 0) + x /\ Spot(t, p, 0) \in Nat /\ t \in Nat /\ x \in Nat
      BY <1>1, <1>5, <3>2
    <3> HIDE DEF t, x
    <3>4. t # n - 1
      <4>1. m = Spot(n - 1, p, 0) + (s + 2)
        BY <1>1, <1>5
      <4>. QED
        BY <1>1, <3>1, <3>2, <3>3, <4>1
    <3>5. x = s + 2
      <4>1. SUFFICES ASSUME x # s + 2 PROVE FALSE
        OBVIOUS
      <4> DEFINE y == x - 1
      <4>2. y \in 0 .. p - 1 /\ y \in Nat /\ y > s + 1
        BY <1>1, <3>2, <4>1
      <4>3. a - 1 = Spot(t, p, 0) + y /\ a - 1 \in 0 .. m - 1
        BY <1>1, <3>1, <3>2, <3>3, <4>1
      <4> HIDE DEF y
      <4>4. a - 1 = Spot(t, p, y)
        BY <1>5, <3>3, <4>2, <4>3
      <4>5. Rem(a - 1, p) = y
        BY <1>4, <3>3, <4>2, <4>4
      <4>. QED
        BY <1>3, <3>1, <4>2, <4>3, <4>5
    <3>6. t \in 0 .. n - 2
      BY <1>1, <3>2, <3>4
    <3>. QED
      BY <3>2, <3>5, <3>6
  <2> HIDE DEF B, begins
  <2>3. \A a : a \in all <=> \E t \in 0 .. n - 2 : a = B(t)
    OBVIOUS
  <2> HIDE DEF all
  <2>. QED
    BY <2>1, <2>2, <2>3
<1> DEFINE F == [t \in 0 .. n - 2 |-> B(t)]
<1>11. \A t \in 0 .. n - 2 : F[t] = B(t) /\ F[t] \in Nat
  BY <1>7
<1>12. \A t, u \in 0 .. n - 2 : t < u => F[t] < F[u]
  BY <1>8, <1>11
<1>13. all = {F[u] : u \in 0 .. n - 2}
  BY <1>11
<1>14. ASSUME NEW t \in 0 .. n - 1
       PROVE  Cardinality({F[u] : u \in 0 .. t - 1}) = t
  <2> DEFINE f == [u \in 0 .. t - 1 |-> F[u]]
  <2>1. t \in Nat /\ 0 .. t - 1 \subseteq 0 .. n - 2
    BY <1>1
  <2> HIDE DEF F
  <2>2. f \in [0 .. t - 1 -> Nat] /\ \A u \in 0 .. t - 1 : f[u] = F[u]
    BY <1>11, <2>1
  <2>3. \A u, v \in 0 .. t - 1 : f[u] = f[v] => u = v
    <3>1. ASSUME NEW u \in 0 .. t - 1, NEW v \in 0 .. t - 1, f[u] = f[v] PROVE u = v
      <4>1. u \in 0 .. n - 2 /\ v \in 0 .. n - 2 /\ u \in Int /\ v \in Int
        BY <2>1
      <4>2. F[u] = F[v] /\ F[u] \in Nat
        BY <1>11, <2>2, <3>1, <4>1
      <4>3. ~(u < v) /\ ~(v < u)
        BY <1>12, <4>1, <4>2
      <4>. QED
        BY <4>1, <4>3
    <3>. QED
      BY <3>1
  <2>4. {F[u] : u \in 0 .. t - 1} = {f[u] : u \in 0 .. t - 1}
    BY <2>2
  <2> HIDE DEF f
  <2>5. Cardinality({f[u] : u \in 0 .. t - 1}) = t
    BY <2>1, <2>2, <2>3, ImageCount
  <2>. QED
    BY <2>4, <2>5
<1>15. Cardinality(begins) = n - 1
  <2>1. n - 1 \in 0 .. n - 1 /\ n - 1 - 1 = n - 2
    BY <1>1
  <2>2. Cardinality({F[u] : u \in 0 .. (n - 1) - 1}) = n - 1
    BY <1>14, <2>1
  <2> HIDE DEF F, all, begins
  <2>. QED
    BY <1>10, <1>13, <2>1, <2>2
<1>16. ASSUME NEW t \in 0 .. n - 2
       PROVE  Cardinality({c \in begins : c < B(t)}) = t
  <2>1. {c \in begins : c < B(t)} = {F[u] : u \in 0 .. t - 1}
    <3>1. begins = {F[u] : u \in 0 .. n - 2} /\ B(t) = F[t]
      BY <1>10, <1>11, <1>13
    <3> HIDE DEF begins, F, B, all
    <3>2. ASSUME NEW u \in 0 .. n - 2 PROVE F[u] < F[t] <=> u < t
      <4>1. u < t \/ u = t \/ t < u
        OBVIOUS
      <4>. QED
        BY <1>11, <1>12, <4>1
    <3>3. \A u : u \in 0 .. t - 1 <=> u \in 0 .. n - 2 /\ u < t
      BY <1>1
    <3>. QED
      BY <3>1, <3>2, <3>3
  <2>2. t \in 0 .. n - 1
    BY <1>1
  <2> HIDE DEF F, B, begins
  <2>. QED
    BY <1>14, <2>1, <2>2
<1>17. ASSUME NEW t \in 0 .. n - 2, NEW k, k = t + 1
       PROVE  Begin(k) = B(t)
  <2>1. k - 1 = t
    BY <1>17
  <2>2. B(t) \in begins /\ \A a \in begins : \E u \in 0 .. n - 2 : a = B(u)
    BY <1>10
  <2> HIDE DEF B, begins
  <2>3. \A a \in begins : Cardinality({c \in begins : c < a}) = k - 1 <=> a = B(t)
    BY <1>16, <2>1, <2>2
  <2>. QED
    BY <2>2, <2>3
<1>18. ASSUME NEW t \in 0 .. n - 2
       PROVE  End(B(t)) = Spot(t + 1, p, 0)
  <2> DEFINE z == Spot(t + 1, p, 0)
             a == B(t)
             Good(e) == e \notin white /\ a .. e - 1 \subseteq white
  <2>1. /\ z \in Nat /\ z = a + g /\ g > 0 /\ z < m /\ a \in Nat
        /\ \A x \in 0 .. g - 1 : Rem(a + x, p) = s + 2 + x
        /\ Rem(z, p) = 0
    BY <1>7, <1>9
  <2>2. End(a) = CHOOSE e \in a + 1 .. m : Good(e)
    OBVIOUS
  <2> HIDE DEF a, z
  <2>3. ASSUME NEW v \in a .. z - 1 PROVE v \in white
    <3> DEFINE x == v - a
    <3>1. x \in 0 .. g - 1 /\ v = a + x
      BY <1>1, <2>1
    <3> HIDE DEF x
    <3>2. Rem(v, p) = s + 2 + x /\ s + 2 + x > s + 1
      BY <1>1, <2>1, <3>1
    <3>3. v \in 0 .. m - 1
      BY <1>1, <2>1
    <3>. QED
      BY <1>3, <3>2, <3>3
  <2>4. z \notin white
    <3>1. ~(0 > s + 1)
      BY <1>1
    <3>. QED
      BY <1>3, <2>1, <3>1
  <2>5. z \in a + 1 .. m /\ Good(z)
    BY <1>1, <2>1, <2>3, <2>4
  <2>6. ASSUME NEW e \in a + 1 .. m, Good(e) PROVE e = z
    <3>1. ~(e < z)
      <4>1. e < z => e \in a .. z - 1
        BY <1>1, <2>1
      <4>. QED
        BY <2>3, <2>6, <4>1
    <3>2. ~(z < e)
      <4>1. z < e => z \in a .. e - 1
        BY <1>1, <2>1
      <4>. QED
        BY <2>4, <2>6, <4>1
    <3>. QED
      BY <1>1, <2>1, <3>1, <3>2
  <2> HIDE DEF Good
  <2>7. (CHOOSE e \in a + 1 .. m : Good(e)) = z
    BY <2>5, <2>6
  <2>8. End(a) = z
    BY <2>2, <2>7 DEF Good
  <2>. QED
    BY <2>8 DEF a, z
<1>19. ASSUME NEW k \in 1 .. n - 1
       PROVE  /\ sp[k] \in Nat /\ sp[k] >= Spot(k - 1, p, s + 2) /\ sp[k] <= Spot(k, p, 0)
  <2> DEFINE t == k - 1
  <2>1. t \in 0 .. n - 2 /\ k = t + 1
    BY <1>1
  <2>2. Begin(k) = B(t)
    BY <1>17, <2>1
  <2>3. End(B(t)) = Spot(k, p, 0)
    BY <1>18, <2>1
  <2>4. sp[k] = (Begin(k) + End(Begin(k))) \div 2
    BY <1>2, <1>15
  <2>5. B(t) \in Nat /\ Spot(k, p, 0) \in Nat /\ B(t) <= Spot(k, p, 0)
    <3>1. Spot(k, p, 0) \in Nat /\ Spot(k, p, 0) = B(t) + g /\ B(t) \in Nat
      BY <1>7, <1>9, <2>1
    <3>. QED
      BY <1>1, <3>1
  <2>6. sp[k] = (B(t) + Spot(k, p, 0)) \div 2
    <3> HIDE DEF Begin, End, B
    <3>. QED
      BY <2>2, <2>3, <2>4
  <2>7. B(t) = Spot(k - 1, p, s + 2)
    OBVIOUS
  <2> HIDE DEF B
  <2>8. sp[k] \in Nat /\ sp[k] >= B(t) /\ sp[k] <= Spot(k, p, 0)
    BY <2>5, <2>6
  <2>. QED
    BY <2>7, <2>8
<1>20. sp \in [1 .. n - 1 -> Nat]
  <2>1. DOMAIN sp = 1 .. n - 1 /\ sp = [k \in 1 .. n - 1 |-> sp[k]]
    BY <1>2, <1>15
  <2>. QED
    BY <1>19, <2>1
<1>21. n - 1 \in Nat
  BY <1>1
<1>22. sp \in Seq(Nat) /\ Len(sp) = n - 1
  BY <1>20, <1>21, FunctionSeq
<1>. QED
  BY <1>19, <1>22 DEF Cuts, sp, white

(* Where nothing is white there are no spaces.                             *)
LEMMA NoSpaces ==
  ASSUME NEW m
  PROVE  Spaces(m, {}) = <<>>
<1>1. Cardinality({}) = 0
  BY FS_EmptySet
<1>2. {a \in {} : a - 1 \notin {}} = {}
  OBVIOUS
<1>. QED
  BY <1>1, <1>2 DEF Spaces

(* The columns, and the rows, that are white.                              *)
Columns(img) == {x \in 0 .. img.cols - 1 : \A y \in 0 .. img.rows - 1 : img.at[<<x, y>>] \notin Dark}
Lines(img) == {y \in 0 .. img.rows - 1 : \A x \in 0 .. img.cols - 1 : img.at[<<x, y>>] \notin Dark}

(* get_spaces takes those.                                                 *)
LEMMA GetSpaces ==
  ASSUME NEW img
  PROVE  get_spaces(img) = <<Spaces(img.cols, Columns(img)), Spaces(img.rows, Lines(img))>>
BY DEF get_spaces, Columns, Lines

WhiteIs(img, d, between, p, q, c, r) ==
  /\ Columns(img) = IF between \in Dark THEN {} ELSE White(c, d[3], p)
  /\ Lines(img) = IF between \in Dark THEN {} ELSE White(r, d[4], q)

(* If the spaces look white they are the white columns and rows, and       *)
(* otherwise none is white.                                                *)
LEMMA WhiteOf ==
  ASSUME NEW img, NEW d, NEW between, NEW cell, NEW p, NEW q, NEW c, NEW r, NEW g,
         IsQuad(img, d, between, cell, p, q, c, r), Bordered(d, cell),
         TileAxis(d[1], d[3], g, p, c), TileAxis(d[2], d[4], g, q, r)
  PROVE  WhiteIs(img, d, between, p, q, c, r)
<1>1. /\ img.cols = c /\ img.rows = r
      /\ \A v \in 0 .. c - 1, w \in 0 .. r - 1 :
            img.at[<<v, w>>] = IF Rem(v, p) > d[3] + 1 \/ Rem(w, q) > d[4] + 1 THEN between
                               ELSE cell[<<Quo(v, p), Quo(w, q), Rem(v, p), Rem(w, q)>>]
  BY DEF IsQuad
<1>2. /\ d[1] \in Nat \ {0} /\ d[3] \in Nat \ {0} /\ c \in Nat /\ p \in Nat
      /\ \A v \in 0 .. c - 1 : Quo(v, p) \in 0 .. d[1] - 1 /\ Rem(v, p) \in 0 .. p - 1
      /\ \A t \in 0 .. d[1] - 1, x \in 0 .. d[3] + 1 :
            Spot(t, p, x) \in 0 .. c - 1 /\ Quo(Spot(t, p, x), p) = t /\ Rem(Spot(t, p, x), p) = x
  BY DEF TileAxis
<1>3. /\ d[2] \in Nat \ {0} /\ d[4] \in Nat \ {0} /\ r \in Nat /\ q \in Nat
      /\ \A v \in 0 .. r - 1 : Quo(v, q) \in 0 .. d[2] - 1 /\ Rem(v, q) \in 0 .. q - 1
      /\ \A t \in 0 .. d[2] - 1, x \in 0 .. d[4] + 1 :
            Spot(t, q, x) \in 0 .. r - 1 /\ Quo(Spot(t, q, x), q) = t /\ Rem(Spot(t, q, x), q) = x
  BY DEF TileAxis
<1>4. \A tx \in 0 .. d[1] - 1, ty \in 0 .. d[2] - 1, x \in 0 .. d[3] + 1, y \in 0 .. d[4] + 1 :
         x = 0 \/ y = 0 => cell[<<tx, ty, x, y>>] \in Dark
  BY DEF Bordered, is_tile_border
<1> DEFINE v0 == Spot(0, p, 0)
           w0 == Spot(0, q, 0)
<1>5. /\ v0 \in 0 .. c - 1 /\ Quo(v0, p) = 0 /\ Rem(v0, p) = 0 /\ w0 \in 0 .. r - 1 /\ Quo(w0, q) = 0 /\ Rem(w0, q) = 0
      /\ 0 \in 0 .. d[1] - 1 /\ 0 \in 0 .. d[2] - 1 /\ 0 \in 0 .. d[3] + 1 /\ 0 \in 0 .. d[4] + 1
      /\ ~(0 > d[3] + 1) /\ ~(0 > d[4] + 1)
  BY <1>2, <1>3
<1> HIDE DEF v0, w0
<1>6. ASSUME NEW v \in 0 .. c - 1
      PROVE  (\A w \in 0 .. r - 1 : img.at[<<v, w>>] \notin Dark) <=> between \notin Dark /\ Rem(v, p) > d[3] + 1
  <2>1. CASE Rem(v, p) > d[3] + 1
    <3>1. \A w \in 0 .. r - 1 : img.at[<<v, w>>] = between
      BY <1>1, <2>1
    <3>. QED
      BY <1>5, <2>1, <3>1
  <2>2. CASE ~(Rem(v, p) > d[3] + 1)
    <3>1. Quo(v, p) \in 0 .. d[1] - 1 /\ Rem(v, p) \in 0 .. d[3] + 1
      BY <1>2, <2>2
    <3>2. img.at[<<v, w0>>] = cell[<<Quo(v, p), 0, Rem(v, p), 0>>]
      BY <1>1, <1>5, <2>2
    <3>3. img.at[<<v, w0>>] \in Dark
      BY <1>4, <1>5, <3>1, <3>2
    <3>. QED
      BY <1>5, <2>2, <3>3
  <2>. QED
    BY <2>1, <2>2
<1>7. ASSUME NEW w \in 0 .. r - 1
      PROVE  (\A v \in 0 .. c - 1 : img.at[<<v, w>>] \notin Dark) <=> between \notin Dark /\ Rem(w, q) > d[4] + 1
  <2>1. CASE Rem(w, q) > d[4] + 1
    <3>1. \A v \in 0 .. c - 1 : img.at[<<v, w>>] = between
      BY <1>1, <2>1
    <3>. QED
      BY <1>5, <2>1, <3>1
  <2>2. CASE ~(Rem(w, q) > d[4] + 1)
    <3>1. Quo(w, q) \in 0 .. d[2] - 1 /\ Rem(w, q) \in 0 .. d[4] + 1
      BY <1>3, <2>2
    <3>2. img.at[<<v0, w>>] = cell[<<0, Quo(w, q), 0, Rem(w, q)>>]
      BY <1>1, <1>5, <2>2
    <3>3. img.at[<<v0, w>>] \in Dark
      BY <1>4, <1>5, <3>1, <3>2
    <3>. QED
      BY <1>5, <2>2, <3>3
  <2>. QED
    BY <2>1, <2>2
<1>8. Columns(img) = {v \in 0 .. c - 1 : between \notin Dark /\ Rem(v, p) > d[3] + 1}
  BY <1>1, <1>6 DEF Columns
<1>9. Lines(img) = {w \in 0 .. r - 1 : between \notin Dark /\ Rem(w, q) > d[4] + 1}
  BY <1>1, <1>7 DEF Lines
<1>. QED
  BY <1>8, <1>9 DEF White, WhiteIs

(* The boxes of the tiles: a box goes around its tile, and around no cell  *)
(* of another one.                                                         *)
Ends(xs, n, s, p, m) ==
  /\ Len(xs) = n + 1
  /\ \A t \in 0 .. n - 1 :
        /\ xs[t + 1] \in Nat /\ xs[t + 2] \in Nat
        /\ xs[t + 1] <= Spot(t, p, 0) /\ Spot(t, p, 0) + s + 2 <= xs[t + 2] /\ xs[t + 2] <= m
        /\ \A v \in xs[t + 1] .. xs[t + 2] - 1 : ~(Rem(v, p) > s + 1) => Quo(v, p) = t

Between(xs, n, m, sp) ==
  Len(xs) = n + 1 /\ xs[1] = 0 /\ xs[n + 1] = m /\ \A k \in 1 .. n - 1 : xs[k + 1] = sp[k]

(* The ends of the boxes are the cuts and the borders of the picture.      *)
LEMMA Enclosed ==
  ASSUME NEW n \in Nat \ {0}, NEW m \in Nat, NEW sp \in Seq(Nat), Len(sp) = n - 1
  PROVE  Between(<<0>> \o sp \o <<m>>, n, m, sp)
<1> DEFINE xs == <<0>> \o sp \o <<m>>
<1> DEFINE a == <<0>>   e == <<m>>   as == a \o sp
<1>1. a \in Seq(Nat) /\ Len(a) = 1 /\ a[1] = 0 /\ e \in Seq(Nat) /\ Len(e) = 1 /\ e[1] = m
  OBVIOUS
<1> HIDE DEF a, e
<1>2. /\ as \in Seq(Nat) /\ Len(as) = Len(a) + Len(sp)
      /\ \A k \in 1 .. Len(a) + Len(sp) : as[k] = IF k <= Len(a) THEN a[k] ELSE sp[k - Len(a)]
  <2>1. a \o sp \in Seq(Nat) /\ Len(a \o sp) = Len(a) + Len(sp)
    BY <1>1, ConcatProperties
  <2>2. \A k \in 1 .. Len(a) + Len(sp) : (a \o sp)[k] = IF k <= Len(a) THEN a[k] ELSE sp[k - Len(a)]
    BY <1>1, ConcatProperties
  <2>. QED
    BY <2>1, <2>2
<1>3. /\ as \o e \in Seq(Nat) /\ Len(as \o e) = Len(as) + Len(e)
      /\ \A k \in 1 .. Len(as) + Len(e) : (as \o e)[k] = IF k <= Len(as) THEN as[k] ELSE e[k - Len(as)]
  <2> HIDE DEF as
  <2>0. as \in Seq(Nat) /\ e \in Seq(Nat)
    BY <1>1, <1>2
  <2>1. as \o e \in Seq(Nat) /\ Len(as \o e) = Len(as) + Len(e)
    BY <2>0, ConcatProperties
  <2>2. \A k \in 1 .. Len(as) + Len(e) : (as \o e)[k] = IF k <= Len(as) THEN as[k] ELSE e[k - Len(as)]
    BY <2>0, ConcatProperties
  <2>. QED
    BY <2>1, <2>2
<1>4. xs = as \o e
  BY DEF a, e
<1> HIDE DEF as, xs
<1>5. Len(as) = n
  BY <1>1, <1>2
<1>6. Len(xs) = n + 1 /\ \A k \in 1 .. n + 1 : xs[k] = IF k <= n THEN as[k] ELSE e[k - n]
  BY <1>1, <1>3, <1>4, <1>5
<1>7. \A k \in 1 .. n : as[k] = IF k <= 1 THEN a[k] ELSE sp[k - 1]
  <2>1. Len(a) + Len(sp) = n
    BY <1>1
  <2>. QED
    BY <1>1, <1>2, <2>1
<1>8. xs[1] = 0
  <2>1. 1 \in 1 .. n + 1 /\ 1 \in 1 .. n /\ 1 <= n /\ 1 <= 1
    OBVIOUS
  <2>2. xs[1] = as[1] /\ as[1] = a[1]
    BY <1>6, <1>7, <2>1
  <2>. QED
    BY <1>1, <2>2
<1>9. xs[n + 1] = m
  <2> DEFINE k == n + 1
  <2>1. k \in 1 .. n + 1 /\ ~(k <= n) /\ k - n = 1
    OBVIOUS
  <2> HIDE DEF k
  <2>2. xs[k] = e[1]
    BY <1>6, <2>1
  <2>. QED
    BY <1>1, <2>2 DEF k
<1>10. ASSUME NEW j \in 1 .. n - 1 PROVE xs[j + 1] = sp[j]
  <2> DEFINE k == j + 1
  <2>1. k \in 1 .. n /\ k \in 1 .. n + 1 /\ k <= n /\ ~(k <= 1) /\ k - 1 = j
    OBVIOUS
  <2> HIDE DEF k
  <2>2. xs[k] = as[k] /\ as[k] = sp[j]
    BY <1>6, <1>7, <2>1
  <2>. QED
    BY <2>2 DEF k
<1>. QED
  BY <1>6, <1>8, <1>9, <1>10 DEF Between, xs

(* Cuts between the tiles give such boxes.                                 *)
LEMMA BoxEnds ==
  ASSUME NEW n, NEW s, NEW g, NEW p, NEW m, TileAxis(n, s, g, p, m), NEW sp, Cuts(sp, n, s, p)
  PROVE  Ends(<<0>> \o sp \o <<m>>, n, s, p, m)
<1> DEFINE xs == <<0>> \o sp \o <<m>>
           Base(t) == Spot(t, p, 0)
<1>1. /\ n \in Nat \ {0} /\ s \in Nat \ {0} /\ g \in Nat /\ p = s + 2 + g /\ p \in Nat \ {0}
      /\ m \in Nat /\ m = Spot(n - 1, p, s + 2)
      /\ \A v \in 0 .. m - 1 : Quo(v, p) \in 0 .. n - 1 /\ Rem(v, p) \in 0 .. p - 1 /\ v = Spot(Quo(v, p), p, Rem(v, p))
  BY DEF TileAxis
<1>2. /\ \A t \in Nat : Base(t) \in Nat
      /\ \A t \in Nat, x \in Nat : Spot(t, p, x) \in Nat /\ Spot(t, p, x) = Base(t) + x
  <2>1. \A t \in Nat : At(t, p) \in Nat
    BY <1>1, AtType
  <2>. QED
    BY <2>1 DEF Spot
<1>3. \A t, u \in Nat : t < u => Base(t) + p <= Base(u)
  <2>1. \A t, u \in Nat : t < u => At(t, p) + p <= At(u, p)
    BY <1>1, AtType
  <2>2. \A t \in Nat : Spot(t, p, 0) = At(t, p)
    BY <1>1, AtType DEF Spot
  <2>. QED
    BY <2>1, <2>2
<1>4. /\ sp \in Seq(Nat) /\ Len(sp) = n - 1
      /\ \A k \in 1 .. n - 1 : sp[k] \in Nat /\ sp[k] >= Base(k - 1) + s + 2 /\ sp[k] <= Base(k)
  <2>1. /\ sp \in Seq(Nat) /\ Len(sp) = n - 1
        /\ \A k \in 1 .. n - 1 : sp[k] >= Spot(k - 1, p, s + 2) /\ sp[k] <= Spot(k, p, 0)
    BY DEF Cuts
  <2>2. \A k \in 1 .. n - 1 : sp[k] \in Nat
    BY <2>1, ElementOfSeq
  <2>3. ASSUME NEW k \in 1 .. n - 1 PROVE Spot(k - 1, p, s + 2) = Base(k - 1) + s + 2
    <3> DEFINE j == k - 1   x == s + 2
    <3>1. j \in Nat /\ x \in Nat
      BY <1>1
    <3> HIDE DEF j, x
    <3>2. Spot(j, p, x) = Base(j) + x /\ Base(j) \in Nat
      BY <1>2, <3>1
    <3>3. Base(j) + x = Base(j) + s + 2
      BY <1>1, <3>2 DEF x
    <3>. QED
      BY <3>2, <3>3 DEF j, x
  <2>. QED
    BY <2>1, <2>2, <2>3
<1>5. m = Base(n - 1) + s + 2 /\ Base(n - 1) \in Nat
  <2> DEFINE j == n - 1   x == s + 2
  <2>1. j \in Nat /\ x \in Nat /\ m = Spot(j, p, x)
    BY <1>1
  <2> HIDE DEF j, x
  <2>2. Spot(j, p, x) = Base(j) + x /\ Base(j) \in Nat
    BY <1>2, <2>1
  <2>3. Base(j) + x = Base(j) + s + 2
    BY <1>1, <2>2 DEF x
  <2>. QED
    BY <2>1, <2>2, <2>3 DEF j
<1>6. Len(xs) = n + 1 /\ xs[1] = 0 /\ xs[n + 1] = m /\ \A k \in 1 .. n - 1 : xs[k + 1] = sp[k]
  BY <1>1, <1>4, Enclosed, SMTT(30) DEF Between
<1> HIDE DEF xs, Base
<1>7. ASSUME NEW t \in 0 .. n - 1
      PROVE  /\ xs[t + 1] \in Nat /\ xs[t + 1] <= Base(t) /\ Base(t) \in Nat /\ xs[t + 1] <= m
             /\ \A u \in Nat : u < t => Base(u) + s + 2 <= xs[t + 1]
  <2>1. t \in Nat /\ Base(t) \in Nat /\ \A u \in Nat : Base(u) \in Nat
    <3>1. t \in Nat
      OBVIOUS
    <3>2. \A u \in Nat : Base(u) \in Nat
      BY <1>2
    <3>3. Base(t) \in Nat
      BY <3>1, <3>2
    <3>. QED
      BY <3>1, <3>2, <3>3
  <2>2. CASE t = 0
    <3>1. xs[t + 1] = 0 /\ \A u \in Nat : ~(u < t)
      <4>1. t + 1 = 1
        BY <2>2
      <4>. QED
        BY <1>6, <2>2, <4>1
    <3>. QED
      <4>1. t \in Nat /\ Base(t) \in Nat
        BY <2>1
      <4>. QED
        BY <1>1, <3>1, <4>1
  <2>3. CASE t # 0
    <3>1. t \in 1 .. n - 1 /\ xs[t + 1] = sp[t] /\ t - 1 \in Nat
      BY <1>6, <2>3
    <3>2. sp[t] \in Nat /\ sp[t] >= Base(t - 1) + s + 2 /\ sp[t] <= Base(t)
      BY <1>4, <3>1
    <3>3. \A u \in Nat : u < t => Base(u) <= Base(t - 1)
      <4> DEFINE j == t - 1
      <4>1. j \in Nat /\ \A u \in Nat : u < t => u = j \/ u < j
        BY <2>1, <3>1
      <4> HIDE DEF j
      <4>2. ASSUME NEW u \in Nat, u < t PROVE Base(u) <= Base(j)
        <5>1. u = j \/ u < j
          BY <4>1, <4>2
        <5>2. Base(u) \in Nat /\ Base(j) \in Nat
          BY <2>1, <4>1
        <5>3. u < j => Base(u) + p <= Base(j)
          BY <1>3, <4>1
        <5>. QED
          BY <1>1, <5>1, <5>2, <5>3
      <4>. QED
        BY <4>2 DEF j
    <3>4. Base(t) <= m
      <4> DEFINE j == n - 1
      <4>1. j \in Nat /\ (t = j \/ t < j) /\ Base(j) \in Nat /\ m = Base(j) + s + 2
        BY <1>1, <1>5
      <4> HIDE DEF j
      <4>2. Base(t) <= Base(j)
        BY <1>1, <1>3, <2>1, <4>1
      <4>. QED
        BY <1>1, <2>1, <4>1, <4>2
    <3>5. Base(t - 1) \in Nat
      BY <2>1, <3>1
    <3>. QED
      BY <1>1, <2>1, <3>1, <3>2, <3>3, <3>4, <3>5
  <2>. QED
    BY <2>2, <2>3
<1>8. ASSUME NEW t \in 0 .. n - 1
      PROVE  /\ xs[t + 2] \in Nat /\ Base(t) + s + 2 <= xs[t + 2] /\ xs[t + 2] <= m
             /\ \A u \in 0 .. n - 1 : t < u => xs[t + 2] <= Base(u)
  <2>1. t \in Nat /\ Base(t) \in Nat /\ \A u \in Nat : Base(u) \in Nat
    <3>1. t \in Nat
      OBVIOUS
    <3>2. \A u \in Nat : Base(u) \in Nat
      BY <1>2
    <3>3. Base(t) \in Nat
      BY <3>1, <3>2
    <3>. QED
      BY <3>1, <3>2, <3>3
  <2>2. CASE t = n - 1
    <3>1. t + 2 = n + 1
      BY <1>1, <2>2
    <3>2. xs[t + 2] = m
      BY <1>6, <3>1
    <3>3. m = Base(t) + s + 2
      BY <1>5, <2>2
    <3>. QED
      BY <1>1, <2>1, <2>2, <3>2, <3>3
  <2>3. CASE t # n - 1
    <3> DEFINE k == t + 1
    <3>1. k \in 1 .. n - 1 /\ k \in 0 .. n - 1 /\ k + 1 = t + 2 /\ k - 1 = t /\ k \in Nat
      BY <1>1, <2>3
    <3>a. \A u \in 0 .. n - 1 : t < u => u \in Nat /\ (u = k \/ k < u)
      BY <1>1, <2>1
    <3> HIDE DEF k
    <3>2. xs[t + 2] = sp[k] /\ sp[k] \in Nat /\ sp[k] >= Base(t) + s + 2 /\ sp[k] <= Base(k)
      BY <1>4, <1>6, <3>1
    <3>3. ASSUME NEW u \in 0 .. n - 1, t < u PROVE Base(k) <= Base(u)
      <4>1. u \in Nat /\ (u = k \/ k < u)
        BY <3>3, <3>a
      <4>2. Base(u) \in Nat /\ Base(k) \in Nat
        BY <2>1, <3>1, <4>1
      <4>3. k < u => Base(k) + p <= Base(u)
        BY <1>3, <3>1, <4>1
      <4>. QED
        BY <1>1, <4>1, <4>2, <4>3
    <3>4. sp[k] <= m
      BY <1>6, <1>7, <3>1, <3>2
    <3>. QED
      BY <1>1, <2>1, <3>1, <3>2, <3>3, <3>4
  <2>. QED
    BY <2>2, <2>3
<1>9. ASSUME NEW t \in 0 .. n - 1, NEW v \in xs[t + 1] .. xs[t + 2] - 1, ~(Rem(v, p) > s + 1)
      PROVE  Quo(v, p) = t
  <2> DEFINE u == Quo(v, p)   x == Rem(v, p)
  <2>1. v \in 0 .. m - 1 /\ xs[t + 1] \in Nat /\ xs[t + 2] \in Nat /\ xs[t + 1] <= v /\ v < xs[t + 2]
    <3>1. xs[t + 1] \in Nat /\ xs[t + 2] \in Nat /\ xs[t + 2] <= m
      BY <1>7, <1>8
    <3>. QED
      BY <1>1, <3>1
  <2>2. u \in 0 .. n - 1 /\ x \in 0 .. p - 1 /\ v = Spot(u, p, x) /\ x <= s + 1
    BY <1>1, <1>9, <2>1
  <2> HIDE DEF u, x
  <2>3. u \in Nat /\ x \in Nat /\ Base(u) \in Nat /\ v = Base(u) + x
    BY <1>1, <1>2, <2>2
  <2>4. ~(u < t)
    <3>1. u < t => Base(u) + s + 2 <= xs[t + 1]
      BY <1>7, <2>3
    <3>. QED
      BY <1>1, <2>1, <2>2, <2>3, <3>1
  <2>5. ~(t < u)
    <3>1. t < u => xs[t + 2] <= Base(u)
      BY <1>8, <2>2
    <3>. QED
      BY <1>1, <2>1, <2>2, <2>3, <3>1
  <2>. QED
    BY <2>3, <2>4, <2>5 DEF u
<1>. QED
  BY <1>6, <1>7, <1>8, <1>9 DEF Ends, xs, Base

Boxes(xs, ys, d) ==
  [t \in (0 .. d[1] - 1) \X (0 .. d[2] - 1) |-> <<xs[t[1] + 1], ys[t[2] + 1], xs[t[1] + 2], ys[t[2] + 2]>>]

BoxesFound(img, d, p, q, c, r) ==
  \E xs, ys : /\ Ends(xs, d[1], d[3], p, c) /\ Ends(ys, d[2], d[4], q, r)
              /\ get_tile_bboxes(img, d) = Boxes(xs, ys, d)

(* The boxes are found if the spaces look white, or there are none,        *)
LEMMA BoxesAre ==
  ASSUME NEW img, NEW d, NEW between, NEW cell, NEW p, NEW q, NEW c, NEW r, NEW g,
         IsQuad(img, d, between, cell, p, q, c, r), Bordered(d, cell),
         TileAxis(d[1], d[3], g, p, c), TileAxis(d[2], d[4], g, q, r), between \notin Dark, g > 0 \/ ~HasSpaces(d)
  PROVE  BoxesFound(img, d, p, q, c, r)
<1> DEFINE sx == Spaces(c, White(c, d[3], p))   sy == Spaces(r, White(r, d[4], q))
           xs == <<0>> \o sx \o <<c>>   ys == <<0>> \o sy \o <<r>>
<1>1. g > 0 \/ (d[1] = 1 /\ d[2] = 1)
  <2>1. d[1] \in Nat \ {0} /\ d[2] \in Nat \ {0}
    BY DEF TileAxis
  <2>. QED
    BY <2>1 DEF HasSpaces
<1>2. img.cols = c /\ img.rows = r
  BY DEF IsQuad
<1>3. get_spaces(img) = <<sx, sy>>
  <2>0. WhiteIs(img, d, between, p, q, c, r)
    BY WhiteOf
  <2>1. Columns(img) = White(c, d[3], p) /\ Lines(img) = White(r, d[4], q)
    BY <2>0 DEF WhiteIs
  <2>. QED
    BY <1>2, <2>1, GetSpaces
<1>4. Cuts(sx, d[1], d[3], p)
  BY <1>1, SpacesAre
<1>5. Cuts(sy, d[2], d[4], q)
  BY <1>1, SpacesAre
<1> HIDE DEF sx, sy
<1>6. Ends(xs, d[1], d[3], p, c) /\ Ends(ys, d[2], d[4], q, r)
  BY <1>4, <1>5, BoxEnds
<1>7. Len(xs) = d[1] + 1 /\ Len(ys) = d[2] + 1
  BY <1>6 DEF Ends
<1>8. get_spaces(img)[1] = sx /\ get_spaces(img)[2] = sy
  BY <1>3
<1>9. <<0>> \o get_spaces(img)[1] \o <<img.cols>> = xs /\ <<0>> \o get_spaces(img)[2] \o <<img.rows>> = ys
  BY <1>2, <1>8
<1> HIDE DEF xs, ys
<1>10. get_tile_bboxes(img, d) = Boxes(xs, ys, d)
  BY <1>7, <1>9 DEF get_tile_bboxes, Boxes
<1>. QED
  BY <1>6, <1>10 DEF BoxesFound

(* ... and are not found otherwise.                                        *)
LEMMA NoBoxes ==
  ASSUME NEW img, NEW d, NEW between, NEW cell, NEW p, NEW q, NEW c, NEW r, NEW g,
         IsQuad(img, d, between, cell, p, q, c, r), Bordered(d, cell),
         TileAxis(d[1], d[3], g, p, c), TileAxis(d[2], d[4], g, q, r), between \in Dark, HasSpaces(d)
  PROVE  get_tile_bboxes(img, d) = None
<1> DEFINE xs == <<0>> \o <<>> \o <<c>>   ys == <<0>> \o <<>> \o <<r>>
<1>1. img.cols = c /\ img.rows = r
  BY DEF IsQuad
<1>2. get_spaces(img) = << <<>>, <<>> >>
  <2>0. WhiteIs(img, d, between, p, q, c, r)
    BY WhiteOf
  <2>1. Columns(img) = {} /\ Lines(img) = {}
    BY <2>0 DEF WhiteIs
  <2>. QED
    BY <1>1, <2>1, GetSpaces, NoSpaces
<1>3. get_spaces(img)[1] = <<>> /\ get_spaces(img)[2] = <<>>
  BY <1>2
<1>4. <<0>> \o get_spaces(img)[1] \o <<img.cols>> = xs /\ <<0>> \o get_spaces(img)[2] \o <<img.rows>> = ys
  BY <1>1, <1>3
<1>5. Len(xs) = 2 /\ Len(ys) = 2
  <2>1. c \in Nat /\ r \in Nat
    BY DEF TileAxis
  <2>2. Between(xs, 1, c, <<>>) /\ Between(ys, 1, r, <<>>)
    <3>1. <<>> \in Seq(Nat) /\ Len(<<>>) = 1 - 1 /\ 1 \in Nat \ {0}
      OBVIOUS
    <3>. QED
      BY <2>1, <3>1, Enclosed
  <2>. QED
    BY <2>2 DEF Between
<1>6. d[1] + 1 # 2 \/ d[2] + 1 # 2
  <2>1. d[1] \in Nat \ {0} /\ d[2] \in Nat \ {0}
    BY DEF TileAxis
  <2>. QED
    BY <2>1 DEF HasSpaces
<1> HIDE DEF xs, ys
<1>. QED
  BY <1>4, <1>5, <1>6 DEF get_tile_bboxes

(* A tile cut out of its box is the tile.                                  *)
TileShown(img, d, cell, xs, ys, tx, ty) ==
  \A x \in 0 .. d[3] + 1, y \in 0 .. d[4] + 1 :
     do_auto_quad(do_crop(img, <<xs[tx + 1], ys[ty + 1], xs[tx + 2], ys[ty + 2]>>)).at[<<x, y>>] =
        cell[<<tx, ty, x, y>>]

(* The tile that is cut out of its box shows the cells that were drawn.    *)
LEMMA TileIs ==
  ASSUME NEW img, NEW d, NEW between, NEW cell, NEW p, NEW q, NEW c, NEW r, NEW g,
         IsQuad(img, d, between, cell, p, q, c, r), Bordered(d, cell),
         TileAxis(d[1], d[3], g, p, c), TileAxis(d[2], d[4], g, q, r), between \notin Dark,
         NEW xs, NEW ys, Ends(xs, d[1], d[3], p, c), Ends(ys, d[2], d[4], q, r),
         NEW tx \in 0 .. d[1] - 1, NEW ty \in 0 .. d[2] - 1
  PROVE  TileShown(img, d, cell, xs, ys, tx, ty)
<1> DEFINE x0 == xs[tx + 1]   y0 == ys[ty + 1]   x9 == xs[tx + 2]   y9 == ys[ty + 2]
           X == Spot(tx, p, 0)   Y == Spot(ty, q, 0)
           crop == do_crop(img, <<x0, y0, x9, y9>>)
           c1 == x9 - x0   r1 == y9 - y0
           d3 == d[3]   d4 == d[4]
           x1 == X - x0   y1 == Y - y0   x2 == X + d3 + 1 - x0   y2 == Y + d4 + 1 - y0
           tile == do_auto_quad(crop)
<1>1. /\ d3 \in Nat \ {0} /\ c \in Nat /\ p \in Nat /\ p = d3 + 2 + g /\ g \in Nat
      /\ \A v \in 0 .. c - 1 : Quo(v, p) \in 0 .. d[1] - 1 /\ Rem(v, p) \in 0 .. p - 1 /\ v = Spot(Quo(v, p), p, Rem(v, p))
      /\ \A x \in 0 .. d3 + 1 :
            Spot(tx, p, x) \in 0 .. c - 1 /\ Quo(Spot(tx, p, x), p) = tx /\ Rem(Spot(tx, p, x), p) = x
  BY DEF TileAxis
<1>2. /\ d4 \in Nat \ {0} /\ r \in Nat /\ q \in Nat /\ q = d4 + 2 + g
      /\ \A v \in 0 .. r - 1 : Quo(v, q) \in 0 .. d[2] - 1 /\ Rem(v, q) \in 0 .. q - 1 /\ v = Spot(Quo(v, q), q, Rem(v, q))
      /\ \A x \in 0 .. d4 + 1 :
            Spot(ty, q, x) \in 0 .. r - 1 /\ Quo(Spot(ty, q, x), q) = ty /\ Rem(Spot(ty, q, x), q) = x
  BY DEF TileAxis
<1>3. /\ x0 \in Nat /\ x9 \in Nat /\ x0 <= X /\ X + d3 + 2 <= x9 /\ x9 <= c
      /\ \A v \in x0 .. x9 - 1 : ~(Rem(v, p) > d3 + 1) => Quo(v, p) = tx
  BY DEF Ends
<1>4. /\ y0 \in Nat /\ y9 \in Nat /\ y0 <= Y /\ Y + d4 + 2 <= y9 /\ y9 <= r
      /\ \A v \in y0 .. y9 - 1 : ~(Rem(v, q) > d4 + 1) => Quo(v, q) = ty
  BY DEF Ends
<1>5. X \in Nat /\ \A x \in Nat : Spot(tx, p, x) = X + x
  <2>1. tx \in Nat
    OBVIOUS
  <2>2. At(tx, p) \in Nat
    BY <1>1, <2>1, AtType
  <2>. QED
    BY <2>2 DEF Spot
<1>6. Y \in Nat /\ \A y \in Nat : Spot(ty, q, y) = Y + y
  <2>1. ty \in Nat
    OBVIOUS
  <2>2. At(ty, q) \in Nat
    BY <1>2, <2>1, AtType
  <2>. QED
    BY <2>2 DEF Spot
<1>7. \A v \in 0 .. c - 1, w \in 0 .. r - 1 :
         img.at[<<v, w>>] = IF Rem(v, p) > d3 + 1 \/ Rem(w, q) > d4 + 1 THEN between
                            ELSE cell[<<Quo(v, p), Quo(w, q), Rem(v, p), Rem(w, q)>>]
  BY DEF IsQuad
<1>8. \A x \in 0 .. d3 + 1, y \in 0 .. d4 + 1 :
         (x \in {0, d3 + 1} /\ y \in {0, d4 + 1}) => cell[<<tx, ty, x, y>>] \in Dark
  BY DEF Bordered, is_tile_border
<1>9. CropOf(img, crop, x0, y0, x9, y9)
  BY Crop
<1> HIDE DEF x0, y0, x9, y9, X, Y, crop, d3, d4
<1>10. c1 \in Nat /\ r1 \in Nat /\ DOMAIN crop.at = Cells(c1, r1)
  BY <1>1, <1>2, <1>3, <1>4, <1>5, <1>6, <1>9 DEF CropOf
<1>11. \A v \in 0 .. c1 - 1, w \in 0 .. r1 - 1 : crop.at[<<v, w>>] = img.at[<<v + x0, w + y0>>]
  BY <1>9 DEF CropOf
<1>12. ASSUME NEW x \in 0 .. d3 + 1, NEW y \in 0 .. d4 + 1
       PROVE  /\ x + x1 \in 0 .. c1 - 1 /\ y + y1 \in 0 .. r1 - 1
              /\ crop.at[<<x + x1, y + y1>>] = cell[<<tx, ty, x, y>>]
  <2> DEFINE v == x + x1   w == y + y1   vx == Spot(tx, p, x)   wy == Spot(ty, q, y)
  <2>1. v \in 0 .. c1 - 1 /\ w \in 0 .. r1 - 1
    BY <1>1, <1>2, <1>3, <1>4, <1>5, <1>6
  <2>2. v + x0 = vx /\ w + y0 = wy
    <3>1. x \in Nat /\ y \in Nat
      BY <1>1, <1>2
    <3>2. vx = X + x /\ wy = Y + y
      BY <1>5, <1>6, <3>1
    <3> HIDE DEF vx, wy
    <3>. QED
      BY <1>3, <1>4, <1>5, <1>6, <3>1, <3>2
  <2> HIDE DEF c1, r1, v, w
  <2>3. crop.at[<<v, w>>] = img.at[<<vx, wy>>]
    BY <1>11, <2>1, <2>2
  <2>4. /\ vx \in 0 .. c - 1 /\ Quo(vx, p) = tx /\ Rem(vx, p) = x
        /\ wy \in 0 .. r - 1 /\ Quo(wy, q) = ty /\ Rem(wy, q) = y
    BY <1>1, <1>2
  <2>5. ~(x > d3 + 1) /\ ~(y > d4 + 1)
    BY <1>1, <1>2
  <2> HIDE DEF vx, wy
  <2>6. img.at[<<vx, wy>>] = cell[<<tx, ty, x, y>>]
    BY <1>7, <2>4, <2>5
  <2>. QED
    BY <2>1, <2>3, <2>6 DEF v, w
<1>13. ASSUME NEW v \in 0 .. c1 - 1, NEW w \in 0 .. r1 - 1, crop.at[<<v, w>>] \in Dark
       PROVE  v \in x1 .. x2 /\ w \in y1 .. y2
  <2> DEFINE v0 == v + x0   w0 == w + y0
  <2>1. v0 \in x0 .. x9 - 1 /\ w0 \in y0 .. y9 - 1 /\ v0 \in 0 .. c - 1 /\ w0 \in 0 .. r - 1
    BY <1>1, <1>2, <1>3, <1>4
  <2>2. img.at[<<v0, w0>>] \in Dark
    BY <1>11, <1>13
  <2> HIDE DEF v0, w0, x1, x2, y1, y2
  <2>3. ~(Rem(v0, p) > d3 + 1) /\ ~(Rem(w0, q) > d4 + 1)
    BY <1>7, <2>1, <2>2
  <2>4. Quo(v0, p) = tx /\ Quo(w0, q) = ty
    BY <1>3, <1>4, <2>1, <2>3
  <2> DEFINE x == Rem(v0, p)   y == Rem(w0, q)
  <2>5. x \in 0 .. p - 1 /\ y \in 0 .. q - 1 /\ v0 = Spot(tx, p, x) /\ w0 = Spot(ty, q, y)
    BY <1>1, <1>2, <2>1, <2>4
  <2> HIDE DEF x, y
  <2>6. x \in 0 .. d3 + 1 /\ y \in 0 .. d4 + 1 /\ x \in Nat /\ y \in Nat
    BY <1>1, <1>2, <2>3, <2>5 DEF x, y
  <2>7. v0 = X + x /\ w0 = Y + y
    BY <1>5, <1>6, <2>5, <2>6
  <2>. QED
    BY <1>1, <1>2, <1>3, <1>4, <1>5, <1>6, <2>6, <2>7 DEF v0, w0, x1, x2, y1, y2
<1>14. /\ x1 \in 0 .. c1 - 1 /\ x2 \in 0 .. c1 - 1 /\ y1 \in 0 .. r1 - 1 /\ y2 \in 0 .. r1 - 1 /\ x1 <= x2 /\ y1 <= y2
  BY <1>1, <1>2, <1>3, <1>4, <1>5, <1>6
<1>15. /\ 0 + x1 = x1 /\ d3 + 1 + x1 = x2 /\ 0 + y1 = y1 /\ d4 + 1 + y1 = y2
  BY <1>1, <1>2, <1>3, <1>4, <1>5, <1>6
<1>16. (x2 + 1) - x1 = d3 + 2 /\ (y2 + 1) - y1 = d4 + 2
  BY <1>1, <1>2, <1>3, <1>4, <1>5, <1>6
<1>17. \A x \in 0 .. d3 + 1 : x \in 0 .. d3 + 2 - 1
  BY <1>1
<1>18. \A y \in 0 .. d4 + 1 : y \in 0 .. d4 + 2 - 1
  BY <1>2
<1> HIDE DEF x1, x2, y1, y2, c1, r1
<1>19. /\ crop.at[<<x1, y1>>] \in Dark /\ crop.at[<<x1, y2>>] \in Dark /\ crop.at[<<x2, y1>>] \in Dark /\ crop.at[<<x2, y2>>] \in Dark
  <2>1. 0 \in 0 .. d3 + 1 /\ d3 + 1 \in 0 .. d3 + 1 /\ 0 \in 0 .. d4 + 1 /\ d4 + 1 \in 0 .. d4 + 1
    BY <1>1, <1>2
  <2>2. \A x \in {0, d3 + 1}, y \in {0, d4 + 1} : crop.at[<<x + x1, y + y1>>] \in Dark
    <3>1. ASSUME NEW x \in {0, d3 + 1}, NEW y \in {0, d4 + 1} PROVE crop.at[<<x + x1, y + y1>>] \in Dark
      <4>1. x \in 0 .. d3 + 1 /\ y \in 0 .. d4 + 1
        BY <2>1, <3>1
      <4>2. cell[<<tx, ty, x, y>>] \in Dark
        BY <1>8, <3>1, <4>1
      <4>3. crop.at[<<x + x1, y + y1>>] = cell[<<tx, ty, x, y>>]
        BY <1>12, <4>1
      <4>. QED
        BY <4>2, <4>3
    <3>. QED
      BY <3>1
  <2>3. crop.at[<<0 + x1, 0 + y1>>] \in Dark /\ crop.at[<<0 + x1, d4 + 1 + y1>>] \in Dark
        /\ crop.at[<<d3 + 1 + x1, 0 + y1>>] \in Dark /\ crop.at[<<d3 + 1 + x1, d4 + 1 + y1>>] \in Dark
    BY <2>2
  <2>. QED
    BY <1>15, <2>3
<1>20. tile = do_crop(crop, <<x1, y1, x2 + 1, y2 + 1>>)
  BY <1>10, <1>13, <1>14, <1>19, QuadIs
<1>21. CropOf(crop, tile, x1, y1, x2 + 1, y2 + 1)
  BY <1>20, Crop
<1> DEFINE a == (x2 + 1) - x1   e == (y2 + 1) - y1
<1> HIDE DEF tile, a, e
<1>22. ASSUME NEW x \in 0 .. d3 + 1, NEW y \in 0 .. d4 + 1 PROVE tile.at[<<x, y>>] = cell[<<tx, ty, x, y>>]
  <2>1. x \in 0 .. a - 1 /\ y \in 0 .. e - 1
    <3>1. a = d3 + 2 /\ e = d4 + 2
      BY <1>16 DEF a, e
    <3>2. x \in 0 .. d3 + 2 - 1 /\ y \in 0 .. d4 + 2 - 1
      BY <1>17, <1>18
    <3>. QED
      BY <1>1, <1>2, <3>1, <3>2
  <2>2. \A v \in 0 .. a - 1, w \in 0 .. e - 1 : tile.at[<<v, w>>] = crop.at[<<v + x1, w + y1>>]
    BY <1>21 DEF CropOf, a, e
  <2>3. tile.at[<<x, y>>] = crop.at[<<x + x1, y + y1>>]
    BY <2>1, <2>2
  <2>. QED
    BY <1>12, <2>3
<1>. QED
  BY <1>22 DEF TileShown, tile, crop, x0, y0, x9, y9, d3, d4

(* The tiles of a part have borders.                                       *)
LEMMA DrawnBordered ==
  ASSUME NEW d, NEW symbols
  PROVE  Bordered(d, Drawn(d, symbols))
<1>1. BLACK \in Dark
  BY DarkAssumption
<1>2. ASSUME NEW tx \in 0 .. d[1] - 1, NEW ty \in 0 .. d[2] - 1, NEW x \in 0 .. d[3] + 1, NEW y \in 0 .. d[4] + 1,
             is_tile_border(d[3], d[4], x, y)
      PROVE  Drawn(d, symbols)[<<tx, ty, x, y>>] \in Dark
  <2>1. <<tx, ty, x, y>> \in TileCells(d)
    BY DEF TileCells
  <2>2. Drawn(d, symbols)[<<tx, ty, x, y>>] = BLACK
    BY <1>2, <2>1 DEF Drawn
  <2>. QED
    BY <1>1, <2>2
<1>. QED
  BY <1>2 DEF Bordered

(* The symbol that is read k-th is drawn there.                            *)
LEMMA DrawnAt ==
  ASSUME NEW d, Dims(d), NEW symbols, NEW k \in 0 .. FrameSize(d) - 1, NEW p, p = Place(d, k)
  PROVE  /\ p.tx \in 0 .. d[1] - 1 /\ p.ty \in 0 .. d[2] - 1 /\ p.x + 1 \in 0 .. d[3] + 1 /\ p.y + 1 \in 0 .. d[4] + 1
         /\ Drawn(d, symbols)[<<p.tx, p.ty, p.x + 1, p.y + 1>>] = symbols[k + 1]
<1>1. d[1] \in Nat \ {0} /\ d[2] \in Nat \ {0} /\ d[3] \in Nat \ {0} /\ d[4] \in Nat \ {0}
  BY DEF Dims
<1>2. /\ p.x \in 0 .. d[3] - 1 /\ p.y \in 0 .. d[4] - 1 /\ p.tx \in 0 .. d[1] - 1 /\ p.ty \in 0 .. d[2] - 1
      /\ SymbolIndex(d, p.tx, p.ty, p.x, p.y) = k
  BY PlaceType
<1> DEFINE x == p.x + 1   y == p.y + 1
<1>3. x \in 0 .. d[3] + 1 /\ y \in 0 .. d[4] + 1 /\ x - 1 = p.x /\ y - 1 = p.y /\ ~is_tile_border(d[3], d[4], x, y)
  BY <1>1, <1>2 DEF is_tile_border
<1> HIDE DEF x, y
<1>4. <<p.tx, p.ty, x, y>> \in TileCells(d)
  BY <1>2, <1>3 DEF TileCells
<1>5. Drawn(d, symbols)[<<p.tx, p.ty, x, y>>] = symbols[k + 1]
  BY <1>2, <1>3, <1>4 DEF Drawn
<1>. QED
  BY <1>2, <1>3, <1>5 DEF x, y

(* The picture of a part, cut to its tiles.                                *)
LEMMA PartQuad ==
  ASSUME NEW d, Dims(d), NEW space \in Nat, NEW between, NEW symbols
  PROVE  LET p == Pitch(d[3], space)   q == Pitch(d[4], space)
             c == Cols(d, space) - 2   r == Rows(d, space) - 2
         IN  /\ IsQuad(do_auto_quad(PartImage(d, space, between, symbols)), d, between, Drawn(d, symbols), p, q, c, r)
             /\ TileAxis(d[1], d[3], space, p, c) /\ TileAxis(d[2], d[4], space, q, r)
<1>1. d[1] \in Nat \ {0} /\ d[2] \in Nat \ {0} /\ d[3] \in Nat \ {0} /\ d[4] \in Nat \ {0}
  BY DEF Dims
<1>2. Bordered(d, Drawn(d, symbols))
  BY DrawnBordered
<1>. QED
  BY <1>1, <1>2, QuadOfLayout, TileAxisIs DEF PartImage, Cols, Rows

(* Without a calibration likewise, if the spaces between the tiles look    *)
(* white, or there are none (do_auto_quad, get_tile_bboxes).               *)
LEMMA TileColors ==
  ASSUME NEW d, Dims(d), NEW space \in Nat, NEW between, NEW bits, NEW symbols,
         between \notin Dark, space > 0 \/ ~HasSpaces(d)
  PROVE  TileSymbols(PartImage(d, space, between, symbols), bits, d) = Pixelized(d, bits, symbols)
<1> DEFINE n == FrameSize(d)
           img1 == do_auto_quad(PartImage(d, space, between, symbols))
           boxes == get_tile_bboxes(img1, d)
           tiles == [t \in DOMAIN boxes |-> do_auto_quad(do_crop(img1, boxes[t]))]
           cell == Drawn(d, symbols)
           p == Pitch(d[3], space)   q == Pitch(d[4], space)
           c == Cols(d, space) - 2   r == Rows(d, space) - 2
<1>1. IsQuad(img1, d, between, cell, p, q, c, r) /\ TileAxis(d[1], d[3], space, p, c) /\ TileAxis(d[2], d[4], space, q, r)
  BY PartQuad
<1>2. Bordered(d, cell)
  BY DrawnBordered
<1>3. TileSymbols(PartImage(d, space, between, symbols), bits, d) =
        IF boxes = None THEN None
        ELSE [k \in 1 .. n |-> do_pixelize(bits, tiles[<<Place(d, k - 1).tx, Place(d, k - 1).ty>>]
                                 .at[<<Place(d, k - 1).x + 1, Place(d, k - 1).y + 1>>])]
  BY DEF TileSymbols
<1>4. \A k \in 0 .. n - 1 : LET at == Place(d, k) IN
         /\ at.tx \in 0 .. d[1] - 1 /\ at.ty \in 0 .. d[2] - 1 /\ at.x + 1 \in 0 .. d[3] + 1 /\ at.y + 1 \in 0 .. d[4] + 1
         /\ cell[<<at.tx, at.ty, at.x + 1, at.y + 1>>] = symbols[k + 1]
  BY DrawnAt
<1>5. n \in Nat
  BY Counts
<1> HIDE DEF img1, cell, p, q, c, r
<1>a. BoxesFound(img1, d, p, q, c, r)
  BY <1>1, <1>2, BoxesAre
<1>6. PICK xs, ys : Ends(xs, d[1], d[3], p, c) /\ Ends(ys, d[2], d[4], q, r) /\ boxes = Boxes(xs, ys, d)
  BY <1>a DEF BoxesFound
<1>7. /\ DOMAIN boxes = (0 .. d[1] - 1) \X (0 .. d[2] - 1)
      /\ \A tx \in 0 .. d[1] - 1, ty \in 0 .. d[2] - 1 : boxes[<<tx, ty>>] = <<xs[tx + 1], ys[ty + 1], xs[tx + 2], ys[ty + 2]>>
  BY <1>6 DEF Boxes
<1> HIDE DEF boxes
<1>8. boxes # None
  <2>1. 0 \in 0 .. d[1] - 1 /\ 0 \in 0 .. d[2] - 1
    BY DEF Dims
  <2>2. <<0, 0>> \in DOMAIN boxes
    BY <1>7, <2>1
  <2>3. DOMAIN None = {}
    BY DEF None
  <2>. QED
    BY <2>2, <2>3
<1>9. ASSUME NEW tx \in 0 .. d[1] - 1, NEW ty \in 0 .. d[2] - 1
      PROVE  \A x \in 0 .. d[3] + 1, y \in 0 .. d[4] + 1 : tiles[<<tx, ty>>].at[<<x, y>>] = cell[<<tx, ty, x, y>>]
  <2>1. tiles[<<tx, ty>>] = do_auto_quad(do_crop(img1, <<xs[tx + 1], ys[ty + 1], xs[tx + 2], ys[ty + 2]>>))
    BY <1>7
  <2> HIDE DEF tiles
  <2>2. TileShown(img1, d, cell, xs, ys, tx, ty)
    BY <1>1, <1>2, <1>6, TileIs
  <2>. QED
    BY <2>1, <2>2 DEF TileShown
<1> HIDE DEF tiles, n
<1>10. ASSUME NEW k \in 1 .. n
       PROVE  do_pixelize(bits, tiles[<<Place(d, k - 1).tx, Place(d, k - 1).ty>>]
                                 .at[<<Place(d, k - 1).x + 1, Place(d, k - 1).y + 1>>]) = do_pixelize(bits, symbols[k])
  <2> DEFINE j == k - 1   at == Place(d, j)   x == at.x + 1   y == at.y + 1
  <2>1. j \in 0 .. n - 1 /\ j + 1 = k
    BY <1>5
  <2>2. at.tx \in 0 .. d[1] - 1 /\ at.ty \in 0 .. d[2] - 1 /\ x \in 0 .. d[3] + 1 /\ y \in 0 .. d[4] + 1
        /\ cell[<<at.tx, at.ty, x, y>>] = symbols[j + 1]
    BY <1>4, <2>1
  <2> HIDE DEF x, y, at, j
  <2>3. tiles[<<at.tx, at.ty>>].at[<<x, y>>] = symbols[k]
    BY <1>9, <2>1, <2>2
  <2>4. do_pixelize(bits, tiles[<<at.tx, at.ty>>].at[<<x, y>>]) = do_pixelize(bits, symbols[k])
    BY <2>3
  <2>. QED
    BY <2>4 DEF x, y, at, j
<1>. QED
  BY <1>3, <1>8, <1>10 DEF Pixelized, n

(* Read without a calibration, a part's image gives the symbols that were  *)
(* drawn if the tiles are found.                                           *)
THEOREM TileReading ==
  ASSUME NEW d, Dims(d), NEW space \in Nat, NEW between, NEW bits \in 1 .. 3,
         NEW symbols \in Seq(SymbolsOf(bits)), Len(symbols) = FrameSize(d),
         between \notin Dark, space > 0 \/ ~HasSpaces(d)
  PROVE  TileSymbols(PartImage(d, space, between, symbols), bits, d) = symbols
BY TileColors, PixelizedIs

(* ... and no tile is found in memory that looks dark.                     *)
LEMMA NoTiles ==
  ASSUME NEW d, Dims(d), NEW space \in Nat, NEW between, NEW bits, NEW symbols, between \in Dark, HasSpaces(d)
  PROVE  TileSymbols(PartImage(d, space, between, symbols), bits, d) = None
<1> DEFINE img1 == do_auto_quad(PartImage(d, space, between, symbols))
           cell == Drawn(d, symbols)
           p == Pitch(d[3], space)   q == Pitch(d[4], space)
           c == Cols(d, space) - 2   r == Rows(d, space) - 2
<1>1. IsQuad(img1, d, between, cell, p, q, c, r) /\ TileAxis(d[1], d[3], space, p, c) /\ TileAxis(d[2], d[4], space, q, r)
  BY PartQuad
<1>2. Bordered(d, cell)
  BY DrawnBordered
<1>3. get_tile_bboxes(img1, d) = None
  <2> HIDE DEF img1, cell, p, q, c, r
  <2>. QED
    BY <1>1, <1>2, NoBoxes
<1>. QED
  BY <1>3 DEF TileSymbols

-----------------------------------------------------------------------------
(* What a CRC tells.                                                       *)

(* The bits of bytes.                                                      *)
Bits == {1, 2, 4, 8, 16, 32, 64, 128}
Bit(v, p) == (v \div p) % 2

(* The bits of an exclusive or are those that differ.                      *)
LEMMA XorBits ==
  ASSUME NEW v, NEW w, NEW p \in Bits
  PROVE  Bit(XorByte(v, w), p) = Differ(v, w, p)
<1> DEFINE x == XorByte(v, w)
<1>1. x = Differ(v, w, 1) + Differ(v, w, 2) * 2 + Differ(v, w, 4) * 4 + Differ(v, w, 8) * 8
          + Differ(v, w, 16) * 16 + Differ(v, w, 32) * 32 + Differ(v, w, 64) * 64 + Differ(v, w, 128) * 128
  BY DEF XorByte, Differ
<1>2. x \in Nat
  BY XorByteType DEF Byte
<1>3. /\ Differ(v, w, 1) \in {0, 1} /\ Differ(v, w, 2) \in {0, 1} /\ Differ(v, w, 4) \in {0, 1}
      /\ Differ(v, w, 8) \in {0, 1} /\ Differ(v, w, 16) \in {0, 1} /\ Differ(v, w, 32) \in {0, 1}
      /\ Differ(v, w, 64) \in {0, 1} /\ Differ(v, w, 128) \in {0, 1}
  BY DEF Differ
<1> DEFINE b0 == Differ(v, w, 1)  b1 == Differ(v, w, 2)  b2 == Differ(v, w, 4)  b3 == Differ(v, w, 8)
           b4 == Differ(v, w, 16)  b5 == Differ(v, w, 32)  b6 == Differ(v, w, 64)  b7 == Differ(v, w, 128)
<1>4. x = b0 + b1 * 2 + b2 * 4 + b3 * 8 + b4 * 16 + b5 * 32 + b6 * 64 + b7 * 128
  BY <1>1
<1>5. b0 \in {0, 1} /\ b1 \in {0, 1} /\ b2 \in {0, 1} /\ b3 \in {0, 1}
      /\ b4 \in {0, 1} /\ b5 \in {0, 1} /\ b6 \in {0, 1} /\ b7 \in {0, 1}
  BY <1>3
<1>6. /\ (x \div 1) % 2 = b0 /\ (x \div 2) % 2 = b1 /\ (x \div 4) % 2 = b2 /\ (x \div 8) % 2 = b3
      /\ (x \div 16) % 2 = b4 /\ (x \div 32) % 2 = b5 /\ (x \div 64) % 2 = b6 /\ (x \div 128) % 2 = b7
  <2> HIDE DEF x, b0, b1, b2, b3, b4, b5, b6, b7
  <2>. QED
    BY <1>2, <1>4, <1>5
<1> HIDE DEF x
<1>. QED
  BY <1>6 DEF Bit, Bits, x

(* Bytes with the same bits are the same.                                  *)
LEMMA SameBits ==
  ASSUME NEW v \in Byte, NEW w \in Byte, \A p \in Bits : Bit(v, p) = Bit(w, p)
  PROVE  v = w
<1>1. /\ (v \div 128) % 2 = (w \div 128) % 2 /\ (v \div 64) % 2 = (w \div 64) % 2 /\ (v \div 32) % 2 = (w \div 32) % 2
      /\ (v \div 16) % 2 = (w \div 16) % 2 /\ (v \div 8) % 2 = (w \div 8) % 2 /\ (v \div 4) % 2 = (w \div 4) % 2
      /\ (v \div 2) % 2 = (w \div 2) % 2 /\ (v \div 1) % 2 = (w \div 1) % 2
  BY DEF Bits, Bit
<1>2. /\ v = ((v \div 128) % 2) * 128 + ((v \div 64) % 2) * 64 + ((v \div 32) % 2) * 32 + ((v \div 16) % 2) * 16
             + ((v \div 8) % 2) * 8 + ((v \div 4) % 2) * 4 + ((v \div 2) % 2) * 2 + ((v \div 1) % 2)
      /\ w = ((w \div 128) % 2) * 128 + ((w \div 64) % 2) * 64 + ((w \div 32) % 2) * 32 + ((w \div 16) % 2) * 16
             + ((w \div 8) % 2) * 8 + ((w \div 4) % 2) * 4 + ((w \div 2) % 2) * 2 + ((w \div 1) % 2)
  BY ByteBits
<1>. QED
  BY <1>1, <1>2, Zenon

(* Exclusive or with a byte tells bytes apart, on either side.             *)
LEMMA XorTells ==
  ASSUME NEW v \in Byte, NEW w \in Byte, NEW x \in Byte
  PROVE  /\ XorByte(v, x) = XorByte(w, x) => v = w
         /\ XorByte(x, v) = XorByte(x, w) => v = w
<1>1. XorByte(v, x) = XorByte(w, x) => v = w
  BY XorTwice
<1>2. XorByte(x, v) = XorByte(v, x) /\ XorByte(x, w) = XorByte(w, x)
  <2>1. \A p \in Bits : Bit(XorByte(x, v), p) = Bit(XorByte(v, x), p) /\ Bit(XorByte(x, w), p) = Bit(XorByte(w, x), p)
    BY XorBits DEF Differ
  <2>. QED
    BY <2>1, SameBits, XorByteType
<1>. QED
  BY <1>1, <1>2

(* Exclusive or with nothing.                                              *)
LEMMA XorNothing ==
  ASSUME NEW v \in Byte
  PROVE  XorByte(v, 0) = v /\ XorByte(0, v) = v
<1>1. \A p \in Bits : Bit(v, p) \in {0, 1} /\ Bit(0, p) = 0
  BY DEF Bits, Bit, Byte
<1>2. \A p \in Bits : Bit(XorByte(v, 0), p) = Bit(v, p) /\ Bit(XorByte(0, v), p) = Bit(v, p)
  BY <1>1, XorBits DEF Differ, Bit
<1>3. XorByte(v, 0) \in Byte /\ XorByte(0, v) \in Byte
  BY XorByteType
<1>. QED
  BY <1>2, <1>3, SameBits

(* The upper byte of a half that is an exclusive or, and the lower one.    *)
LEMMA XorHalfBytes ==
  ASSUME NEW v, NEW w
  PROVE  /\ XorHalf(v, w) % 256 = XorByte(v % 256, w % 256)
         /\ XorHalf(v, w) \div 256 = XorByte(v \div 256, w \div 256)
<1>1. \A a, c \in Byte : (a + 256 * c) % 256 = a /\ (a + 256 * c) \div 256 = c
  BY DEF Byte
<1>. QED
  BY <1>1, XorByteType DEF XorHalf

(* Exclusive or with a half tells halves apart ...                         *)
LEMMA XorHalfTells ==
  ASSUME NEW v \in Half, NEW w \in Half, NEW x \in Half, XorHalf(v, x) = XorHalf(w, x) \/ XorHalf(x, v) = XorHalf(x, w)
  PROVE  v = w
<1>1. /\ v % 256 \in Byte /\ v \div 256 \in Byte /\ w % 256 \in Byte /\ w \div 256 \in Byte /\ x % 256 \in Byte /\ x \div 256 \in Byte
      /\ v = (v % 256) + 256 * (v \div 256) /\ w = (w % 256) + 256 * (w \div 256)
  BY HalfBytes
<1>2. \/ XorByte(v % 256, x % 256) = XorByte(w % 256, x % 256) /\ XorByte(v \div 256, x \div 256) = XorByte(w \div 256, x \div 256)
      \/ XorByte(x % 256, v % 256) = XorByte(x % 256, w % 256) /\ XorByte(x \div 256, v \div 256) = XorByte(x \div 256, w \div 256)
  BY XorHalfBytes
<1>3. v % 256 = w % 256 /\ v \div 256 = w \div 256
  BY <1>1, <1>2, XorTells
<1>. QED
  BY <1>1, <1>3

(* ... and with a word, words.                                             *)
LEMMA XorWordTells ==
  ASSUME NEW v \in Uint32, NEW w \in Uint32, NEW x \in Uint32, XorHalves(v, x) = XorHalves(w, x)
  PROVE  v = w
<1>1. v[1] \in Half /\ v[2] \in Half /\ w[1] \in Half /\ w[2] \in Half /\ x[1] \in Half /\ x[2] \in Half
      /\ v = <<v[1], v[2]>> /\ w = <<w[1], w[2]>>
  BY DEF Uint32
<1>2. XorHalf(v[1], x[1]) = XorHalf(w[1], x[1]) /\ XorHalf(v[2], x[2]) = XorHalf(w[2], x[2])
  BY DEF XorHalves
<1>3. v[1] = w[1] /\ v[2] = w[2]
  BY <1>1, <1>2, XorHalfTells
<1>. QED
  BY <1>1, <1>3

(* Halves, their bytes and their bits.                                     *)
Half15 == 0 .. 32767
Byte7 == 0 .. 127
Shifted(a, e) == a + e * 32768

(* The halves without their high bit, for comparing.                       *)
LEMMA Half15Is == \A n : n \in Half15 <=> n \in Int /\ 0 <= n /\ n <= 32767
<1> DEFINE top == 32767
<1>1. Half15 = 0 .. top
  BY DEF Half15
<1>2. top = 32767
  OBVIOUS
<1>3. top \in Nat
  OBVIOUS
<1> HIDE DEF top
<1>4. \A n : n \in Half15 <=> n \in Int /\ 0 <= n /\ n <= top
  BY <1>1, <1>3
<1>. QED
  BY <1>2, <1>4

(* A byte is a half,                                                       *)
LEMMA ByteIsHalf ==
  ASSUME NEW v \in Byte
  PROVE  v \in Half /\ 0 \in Half
<1>1. v \in Int /\ 0 <= v /\ v <= 255
  BY DEF Byte
<1>2. v <= 65535
  BY <1>1
<1>3. 0 \in Int /\ 0 <= 0 /\ 0 <= 65535
  OBVIOUS
<1>. QED
  BY <1>1, <1>2, <1>3, HalfIs

(* ... and half of a half is one.                                          *)
LEMMA HalfHalves ==
  ASSUME NEW h \in Half
  PROVE  h \in Nat /\ h % 2 \in {0, 1} /\ h \div 2 \in Half15 /\ h \div 2 \in Nat /\ h \div 2 \in Half
<1>1. h \in Int /\ 0 <= h /\ h <= 65535
  BY HalfIs
<1>2. h \in Nat /\ h \div 2 \in Int /\ 0 <= h \div 2 /\ h \div 2 <= 32767 /\ h \div 2 <= 65535 /\ h \div 2 \in Nat
  BY <1>1
<1>3. h % 2 \in {0, 1}
  BY <1>1
<1>4. h \div 2 \in Half15 /\ h \div 2 \in Half
  BY <1>2, HalfIs, Half15Is
<1>. QED
  BY <1>2, <1>3, <1>4

(* A bit put in front of a half leaves its low byte.                       *)
LEMMA HalfShift ==
  ASSUME NEW a \in Half15, NEW e \in {0, 1}
  PROVE  Shifted(a, e) \in Half /\ Shifted(a, e) % 256 = a % 256
<1>0. a \in Int /\ 0 <= a /\ a <= 32767
  BY Half15Is
<1>1. CASE e = 0
  <2>1. Shifted(a, e) = a /\ a <= 65535
    BY <1>0, <1>1 DEF Shifted
  <2>2. a \in Half
    BY <1>0, <2>1, HalfIs
  <2>. QED
    BY <2>1, <2>2
<1>2. CASE e = 1
  <2>1. Shifted(a, e) = a + 32768
    BY <1>0, <1>2 DEF Shifted
  <2>2. a + 32768 \in Int /\ 0 <= a + 32768 /\ a + 32768 <= 65535 /\ (a + 32768) % 256 = a % 256
    BY <1>0
  <2>. QED
    BY <2>1, <2>2, HalfIs
<1>. QED
  BY <1>1, <1>2

(* Shifting a byte shifts its bits,                                        *)
LEMMA ByteShift ==
  ASSUME NEW v \in Byte
  PROVE  v \div 2 \in Byte7 /\ v \div 2 \in Byte /\ \A q \in Bits : q <= 64 => Bit(v \div 2, q) = Bit(v, 2 * q)
<1>1. v \div 2 \in Byte7
  BY DEF Byte, Byte7
<1>2. v \div 2 \in Byte
  BY DEF Byte
<1>3. \A q \in Bits : q <= 64 => Bit(v \div 2, q) = Bit(v, 2 * q)
  <2>1. v \in Nat
    BY DEF Byte
  <2>2. /\ (v \div 2) \div 1 = v \div 2 /\ (v \div 2) \div 2 = v \div 4 /\ (v \div 2) \div 4 = v \div 8
        /\ (v \div 2) \div 8 = v \div 16 /\ (v \div 2) \div 16 = v \div 32 /\ (v \div 2) \div 32 = v \div 64
        /\ (v \div 2) \div 64 = v \div 128
    BY <2>1
  <2>. QED
    BY <2>2 DEF Bit, Bits
<1>. QED
  BY <1>1, <1>2, <1>3

(* ... shifting a half shifts its high byte,                               *)
LEMMA ShiftByte ==
  ASSUME NEW h \in Half
  PROVE  (h \div 2) \div 256 = (h \div 256) \div 2
<1>1. h \in Int /\ 0 <= h
  BY HalfIs
<1>. QED
  BY <1>1

(* ... and the bits of its low byte.                                       *)
LEMMA ShiftedBit ==
  ASSUME NEW h \in Nat, NEW q \in Bits, q <= 64
  PROVE  Bit((h \div 2) % 256, q) = Bit(h, 2 * q)
<1>1. CASE q = 1
  BY <1>1 DEF Bit
<1>2. CASE q = 2
  BY <1>2 DEF Bit
<1>3. CASE q = 4
  BY <1>3 DEF Bit
<1>4. CASE q = 8
  BY <1>4 DEF Bit
<1>5. CASE q = 16
  BY <1>5 DEF Bit
<1>6. CASE q = 32
  BY <1>6 DEF Bit
<1>7. CASE q = 64
  BY <1>7 DEF Bit
<1>. QED
  BY <1>1, <1>2, <1>3, <1>4, <1>5, <1>6, <1>7 DEF Bits

(* The low byte of a word has the word's low bits.                         *)
LEMMA LowByteBit ==
  ASSUME NEW h \in Nat, NEW q \in Bits
  PROVE  Bit(h, q) = Bit(h % 256, q)
<1>1. CASE q = 1
  BY <1>1 DEF Bit
<1>2. CASE q = 2
  BY <1>2 DEF Bit
<1>3. CASE q = 4
  BY <1>3 DEF Bit
<1>4. CASE q = 8
  BY <1>4 DEF Bit
<1>5. CASE q = 16
  BY <1>5 DEF Bit
<1>6. CASE q = 32
  BY <1>6 DEF Bit
<1>7. CASE q = 64
  BY <1>7 DEF Bit
<1>8. CASE q = 128
  BY <1>8 DEF Bit
<1>. QED
  BY <1>1, <1>2, <1>3, <1>4, <1>5, <1>6, <1>7, <1>8 DEF Bits

(* The eight steps that make an entry of the CRC's table.                  *)
TableSteps(v) ==
  LET c1 == TableStep(<<v, 0>>)
      c2 == TableStep(c1)
      c3 == TableStep(c2)
      c4 == TableStep(c3)
      c5 == TableStep(c4)
      c6 == TableStep(c5)
      c7 == TableStep(c6)
  IN  <<c1, c2, c3, c4, c5, c6, c7, TableStep(c7)>>

(* A step makes a word of a word.                                          *)
LEMMA TableStepType ==
  ASSUME NEW c \in Uint32
  PROVE  TableShift(c) \in Uint32 /\ TableStep(c) \in Uint32
<1>1. c[1] \in Half /\ c[2] \in Half
  BY DEF Uint32
<1>2. (c[1] \div 2) + (c[2] % 2) * 32768 \in Half
  <2> DEFINE a == c[1] \div 2   e == c[2] % 2
  <2>1. a \in Half15 /\ e \in {0, 1}
    BY <1>1, HalfHalves
  <2> HIDE DEF a, e
  <2>2. Shifted(a, e) \in Half
    BY <2>1, HalfShift
  <2>. QED
    BY <2>2 DEF a, e, Shifted
<1>a. c[2] \div 2 \in Half
  BY <1>1, HalfHalves
<1>3. TableShift(c) \in Uint32
  BY <1>2, <1>a DEF TableShift, Uint32
<1>4. \A x, y : XorHalves(x, y) \in Uint32
  BY XorHalfType DEF XorHalves, Uint32
<1>. QED
  BY <1>3, <1>4 DEF TableStep

(* The entries of the table are what the eight steps make.                 *)
LEMMA TableIs ==
  ASSUME NEW v \in Byte
  PROVE  CrcTable[v] = TableSteps(v)[8]
<1> DEFINE Body(f) == [k \in 0 .. 8 |-> IF k = 0 THEN <<v, 0>> ELSE TableStep(f[k - 1])]
           g == [k \in 0 .. 8 |-> IF k = 0 THEN <<v, 0>> ELSE TableSteps(v)[k]]
           crc == CHOOSE f : f = Body(f)
<1>1. CrcTable[v] = crc[8]
  <2>1. CrcTable[v] = (CHOOSE f : f = [k \in 0 .. 8 |-> IF k = 0 THEN <<v, 0>> ELSE TableStep(f[k - 1])])[8]
    BY DEF CrcTable
  <2>. QED
    BY <2>1
<1>2. g = Body(g)
  <2>1. TableSteps(v) = <<TableSteps(v)[1], TableSteps(v)[2], TableSteps(v)[3], TableSteps(v)[4],
                          TableSteps(v)[5], TableSteps(v)[6], TableSteps(v)[7], TableSteps(v)[8]>>
    BY DEF TableSteps
  <2>2. /\ TableSteps(v)[1] = TableStep(<<v, 0>>)
        /\ \A k \in 2 .. 8 : TableSteps(v)[k] = TableStep(TableSteps(v)[k - 1])
    BY DEF TableSteps
  <2>3. ASSUME NEW k \in 0 .. 8 PROVE g[k] = IF k = 0 THEN <<v, 0>> ELSE TableStep(g[k - 1])
    <3>1. CASE k = 0
      BY <3>1
    <3>2. CASE k = 1
      BY <2>2, <3>2
    <3>3. CASE k \in 2 .. 8
      BY <2>2, <3>3
    <3>. QED
      BY <3>1, <3>2, <3>3
  <2>. QED
    BY <2>3
<1>3. crc = Body(crc)
  <2> HIDE DEF Body, g
  <2>. QED
    BY <1>2
<1>4. \A k \in 0 .. 8 : crc[k] = IF k = 0 THEN <<v, 0>> ELSE TableStep(crc[k - 1])
  <2> HIDE DEF crc
  <2>. QED
    BY <1>3
<1> HIDE DEF crc
<1>5. /\ crc[0] = <<v, 0>> /\ crc[1] = TableStep(crc[0]) /\ crc[2] = TableStep(crc[1]) /\ crc[3] = TableStep(crc[2])
      /\ crc[4] = TableStep(crc[3]) /\ crc[5] = TableStep(crc[4]) /\ crc[6] = TableStep(crc[5])
      /\ crc[7] = TableStep(crc[6]) /\ crc[8] = TableStep(crc[7])
  BY <1>4
<1>. QED
  BY <1>1, <1>5 DEF TableSteps

(* Words of which the upper bytes have the same bits from p on and the     *)
(* lower bytes the same bits below p.                                      *)
Upper(c) == c[2] \div 256
Near(c, d, p) ==
  /\ \A q \in Bits : q >= p => Bit(Upper(c), q) = Bit(Upper(d), q)
  /\ \A q \in Bits : q < p => Bit(c[1], q) = Bit(d[1], q)

(* A step shifts the upper byte, and writes the bit that went out below    *)
(* into its highest bit.                                                   *)
LEMMA StepUpper ==
  ASSUME NEW c \in Uint32
  PROVE  /\ Upper(TableStep(c)) = XorByte(Upper(c) \div 2, 237 * (c[1] % 2))
         /\ TableStep(c)[1] % 256 = XorByte((c[1] \div 2) % 256, 32 * (c[1] % 2))
<1>1. c[1] \in Half /\ c[2] \in Half
  BY DEF Uint32
<1> DEFINE s1 == (c[1] \div 2) + (c[2] % 2) * 32768   s2 == c[2] \div 2
<1>2. s2 \div 256 = Upper(c) \div 2 /\ s1 % 256 = (c[1] \div 2) % 256
  <2> DEFINE a == c[1] \div 2   e == c[2] % 2
  <2>1. a \in Half15 /\ e \in {0, 1}
    BY <1>1, HalfHalves
  <2>2. s2 \div 256 = Upper(c) \div 2
    BY <1>1, ShiftByte DEF Upper
  <2>3. s1 = Shifted(a, e)
    BY DEF Shifted
  <2> HIDE DEF s1, a, e
  <2>4. s1 % 256 = a % 256
    BY <2>1, <2>3, HalfShift
  <2>. QED
    BY <2>2, <2>4 DEF a
<1>3. Upper(c) \div 2 \in Byte /\ (c[1] \div 2) % 256 \in Byte
  <2>1. Upper(c) \in Byte
    BY <1>1, HalfBytes DEF Upper
  <2>2. c[1] \div 2 \in Nat
    BY <1>1, HalfHalves
  <2>3. \A h \in Nat : h % 256 \in Byte
    BY DEF Byte
  <2>. QED
    BY <2>1, <2>2, <2>3, ByteShift
<1>4. TableShift(c) = <<s1, s2>>
  BY DEF TableShift
<1> HIDE DEF s1, s2
<1>5. CASE c[1] % 2 = 1
  <2>0. TableStep(c) = XorHalves(<<s1, s2>>, <<33568, 60856>>)
    BY <1>4, <1>5 DEF TableStep
  <2>1. TableStep(c) = <<XorHalf(s1, 33568), XorHalf(s2, 60856)>>
    BY <2>0 DEF XorHalves
  <2>2. 33568 % 256 = 32 /\ 60856 \div 256 = 237
    OBVIOUS
  <2>. QED
    BY <1>2, <1>5, <2>1, <2>2, XorHalfBytes DEF Upper
<1>6. CASE c[1] % 2 = 0
  <2>1. TableStep(c) = <<s1, s2>>
    BY <1>4, <1>6 DEF TableStep
  <2>2. 237 * 0 = 0 /\ 32 * 0 = 0
    OBVIOUS
  <2>3. XorByte(Upper(c) \div 2, 0) = Upper(c) \div 2 /\ XorByte((c[1] \div 2) % 256, 0) = (c[1] \div 2) % 256
    BY <1>3, XorNothing
  <2>4. Upper(TableStep(c)) = Upper(c) \div 2 /\ TableStep(c)[1] % 256 = (c[1] \div 2) % 256
    BY <1>2, <2>1 DEF Upper
  <2>. QED
    BY <1>6, <2>2, <2>3, <2>4
<1>7. c[1] % 2 \in {0, 1}
  BY <1>1, HalfHalves
<1>. QED
  BY <1>5, <1>6, <1>7

(* Read backwards, a step makes one more bit known.                        *)
LEMMA NearStep ==
  ASSUME NEW c \in Uint32, NEW d \in Uint32, NEW p \in Bits, Near(TableStep(c), TableStep(d), p)
  PROVE  Near(c, d, 2 * p)
<1> DEFINE i == c[1] % 2   o == d[1] % 2
           uc == Upper(c) \div 2   ud == Upper(d) \div 2
           lc == (c[1] \div 2) % 256   ld == (d[1] \div 2) % 256
<1>1. c[1] \in Half /\ c[2] \in Half /\ d[1] \in Half /\ d[2] \in Half
  BY DEF Uint32
<1>a. Upper(c) \in Byte /\ Upper(d) \in Byte
  BY <1>1, HalfBytes DEF Upper
<1>2. i \in {0, 1} /\ o \in {0, 1} /\ uc \in Byte7 /\ ud \in Byte7 /\ lc \in Byte /\ ld \in Byte
  <2>1. uc \in Byte7 /\ ud \in Byte7
    BY <1>a, ByteShift
  <2>2. i \in {0, 1} /\ o \in {0, 1} /\ c[1] \div 2 \in Nat /\ d[1] \div 2 \in Nat
    BY <1>1, HalfHalves
  <2>3. \A h \in Nat : h % 256 \in Byte
    BY DEF Byte
  <2>. QED
    BY <2>1, <2>2, <2>3
<1>3. /\ Upper(TableStep(c)) = XorByte(uc, 237 * i) /\ Upper(TableStep(d)) = XorByte(ud, 237 * o)
      /\ TableStep(c)[1] % 256 = XorByte(lc, 32 * i) /\ TableStep(d)[1] % 256 = XorByte(ld, 32 * o)
  BY StepUpper
<1>4. \A q \in Bits : /\ Bit(uc, q) \in {0, 1} /\ Bit(ud, q) \in {0, 1} /\ Bit(lc, q) \in {0, 1} /\ Bit(ld, q) \in {0, 1}
  BY <1>2 DEF Bit, Bits, Byte, Byte7
<1>5. TableStep(c)[1] \in Half /\ TableStep(d)[1] \in Half
  BY TableStepType DEF Uint32
<1>6. \A h \in Half, q \in Bits : Bit(h, q) = Bit(h % 256, q)
  <2>1. \A h \in Half : h \in Nat
    BY HalfIs
  <2>. QED
    BY <2>1, LowByteBit
<1>7. /\ \A q \in Bits : q >= p => Differ(uc, 237 * i, q) = Differ(ud, 237 * o, q)
      /\ \A q \in Bits : q < p => Differ(lc, 32 * i, q) = Differ(ld, 32 * o, q)
  <2>1. \A q \in Bits : q >= p => Bit(Upper(TableStep(c)), q) = Bit(Upper(TableStep(d)), q)
    BY DEF Near
  <2>2. \A q \in Bits : q < p => Bit(TableStep(c)[1] % 256, q) = Bit(TableStep(d)[1] % 256, q)
    BY <1>5, <1>6 DEF Near
  <2> HIDE DEF i, o, uc, ud, lc, ld
  <2>. QED
    BY <1>3, <2>1, <2>2, XorBits
<1>8. i = o
  <2>1. 128 \in Bits /\ 128 >= p
    BY DEF Bits
  <2>2. Differ(uc, 237 * i, 128) = i /\ Differ(ud, 237 * o, 128) = o
    <3> HIDE DEF i, o, uc, ud
    <3>. QED
      BY <1>2 DEF Differ, Byte7
  <2>. QED
    BY <1>7, <2>1, <2>2
<1>9. /\ \A q \in Bits : q >= p => Bit(uc, q) = Bit(ud, q)
      /\ \A q \in Bits : q < p => Bit(lc, q) = Bit(ld, q)
  <2> HIDE DEF i, o, uc, ud, lc, ld
  <2>1. \A q \in Bits : Bit(237 * i, q) = Bit(237 * o, q) /\ Bit(32 * i, q) = Bit(32 * o, q)
    BY <1>8
  <2>2. \A q \in Bits : Bit(237 * i, q) \in {0, 1} /\ Bit(32 * i, q) \in {0, 1}
    BY <1>2 DEF Bits, Bit
  <2>. QED
    BY <1>4, <1>7, <2>1, <2>2 DEF Differ, Bit
<1>10. ASSUME NEW q \in Bits, q >= 2 * p PROVE Bit(Upper(c), q) = Bit(Upper(d), q)
  <2> DEFINE r == q \div 2
  <2>1. r \in Bits /\ r >= p /\ q = 2 * r /\ r <= 64
    BY <1>10 DEF Bits
  <2>3. \A u \in Byte : Bit(u \div 2, r) = Bit(u, 2 * r)
    BY <2>1, ByteShift
  <2> HIDE DEF r
  <2>. QED
    BY <1>9, <1>a, <2>1, <2>3
<1>11. ASSUME NEW q \in Bits, q < 2 * p PROVE Bit(c[1], q) = Bit(d[1], q)
  <2>1. CASE q = 1
    <3>1. \A h \in Nat : Bit(h, 1) = h % 2
      BY DEF Bit
    <3>. QED
      BY <1>1, <1>8, <2>1, <3>1, HalfHalves
  <2>2. CASE q # 1
    <3> DEFINE r == q \div 2
    <3>1. r \in Bits /\ r < p /\ q = 2 * r /\ r <= 64
      BY <1>11, <2>2 DEF Bits
    <3>2. \A h \in Half : Bit((h \div 2) % 256, r) = Bit(h, 2 * r)
      BY <3>1, ShiftedBit, HalfHalves
    <3> HIDE DEF r
    <3>. QED
      BY <1>1, <1>9, <3>1, <3>2
  <2>. QED
    BY <2>1, <2>2
<1>. QED
  BY <1>10, <1>11 DEF Near

(* The upper byte of an entry of the table tells which entry it is.        *)
LEMMA TableTells ==
  ASSUME NEW v \in Byte, NEW w \in Byte
  PROVE  /\ CrcTable[v] \in Uint32
         /\ Upper(CrcTable[v]) = Upper(CrcTable[w]) => v = w
<1> DEFINE c0 == <<v, 0>>   c1 == TableStep(c0)   c2 == TableStep(c1)   c3 == TableStep(c2)   c4 == TableStep(c3)
           c5 == TableStep(c4)   c6 == TableStep(c5)   c7 == TableStep(c6)   c8 == TableStep(c7)
           d0 == <<w, 0>>   d1 == TableStep(d0)   d2 == TableStep(d1)   d3 == TableStep(d2)   d4 == TableStep(d3)
           d5 == TableStep(d4)   d6 == TableStep(d5)   d7 == TableStep(d6)   d8 == TableStep(d7)
<1>1. CrcTable[v] = c8 /\ CrcTable[w] = d8
  BY TableIs DEF TableSteps
<1>2. c0 \in Uint32 /\ d0 \in Uint32
  <2>1. v \in Half /\ w \in Half /\ 0 \in Half
    BY ByteIsHalf
  <2>. QED
    BY <2>1 DEF Uint32
<1> HIDE DEF c0, d0
<1>3. c1 \in Uint32 /\ d1 \in Uint32
  BY <1>2, TableStepType
<1> HIDE DEF c1, d1
<1>4. c2 \in Uint32 /\ d2 \in Uint32
  BY <1>3, TableStepType
<1> HIDE DEF c2, d2
<1>5. c3 \in Uint32 /\ d3 \in Uint32
  BY <1>4, TableStepType
<1> HIDE DEF c3, d3
<1>6. c4 \in Uint32 /\ d4 \in Uint32
  BY <1>5, TableStepType
<1> HIDE DEF c4, d4
<1>7. c5 \in Uint32 /\ d5 \in Uint32
  BY <1>6, TableStepType
<1> HIDE DEF c5, d5
<1>8. c6 \in Uint32 /\ d6 \in Uint32
  BY <1>7, TableStepType
<1> HIDE DEF c6, d6
<1>9. c7 \in Uint32 /\ d7 \in Uint32
  BY <1>8, TableStepType
<1> HIDE DEF c7, d7
<1>10. c8 \in Uint32 /\ d8 \in Uint32
  BY <1>9, TableStepType
<1>11. ASSUME Upper(c8) = Upper(d8) PROVE v = w
  <2>1. Near(c8, d8, 1)
    <3> HIDE DEF c8, d8
    <3>. QED
      BY <1>11 DEF Near, Bits
  <2>2. Near(c7, d7, 2 * 1)
    BY <1>9, <2>1, NearStep DEF Bits
  <2>3. Near(c6, d6, 2 * 2)
    BY <1>8, <2>2, NearStep DEF Bits, c7, d7
  <2>4. Near(c5, d5, 2 * 4)
    BY <1>7, <2>3, NearStep DEF Bits, c6, d6
  <2>5. Near(c4, d4, 2 * 8)
    BY <1>6, <2>4, NearStep DEF Bits, c5, d5
  <2>6. Near(c3, d3, 2 * 16)
    BY <1>5, <2>5, NearStep DEF Bits, c4, d4
  <2>7. Near(c2, d2, 2 * 32)
    BY <1>4, <2>6, NearStep DEF Bits, c3, d3
  <2>8. Near(c1, d1, 2 * 64)
    BY <1>3, <2>7, NearStep DEF Bits, c2, d2
  <2>9. Near(c0, d0, 2 * 128)
    BY <1>2, <2>8, NearStep DEF Bits, c1, d1
  <2>10. \A q \in Bits : Bit(v, q) = Bit(w, q)
    BY <2>9 DEF Near, Bits, c0, d0
  <2>. QED
    BY <2>10, SameBits
<1>. QED
  BY <1>1, <1>10, <1>11

(* The index a byte picks in the table, and the rest of the register.      *)
Index(c, x) == XorByte(c[1] % 256, x)
Rest(c) == <<(c[1] \div 256) + (c[2] % 256) * 256, c[2] \div 256>>

(* The rest of a register has no upper byte.                               *)
LEMMA RestType ==
  ASSUME NEW c \in Uint32
  PROVE  /\ Rest(c) \in Uint32 /\ Upper(Rest(c)) = 0 /\ Upper(c) \in Byte
         /\ c[1] \in Half /\ c[1] % 256 \in Byte
         /\ Rest(c)[1] % 256 = c[1] \div 256 /\ Rest(c)[2] = c[2] \div 256 /\ Rest(c)[1] \div 256 = c[2] % 256
<1> DEFINE x == c[1] \div 256   y == c[2] % 256   z == c[2] \div 256
<1>1. c[1] \in Half /\ c[2] \in Half
  BY DEF Uint32
<1>2. x \in Byte /\ y \in Byte /\ z \in Byte /\ c[1] % 256 \in Byte
  BY <1>1, HalfBytes
<1>3. Rest(c) = <<x + y * 256, z>> /\ Upper(c) = z
  BY DEF Rest, Upper
<1> HIDE DEF x, y, z
<1>4. x \in Int /\ 0 <= x /\ x <= 255 /\ y \in Int /\ 0 <= y /\ y <= 255 /\ z \in Int /\ 0 <= z /\ z <= 255
  BY <1>2 DEF Byte
<1>5. /\ x + y * 256 \in Int /\ 0 <= x + y * 256 /\ x + y * 256 <= 65535
      /\ (x + y * 256) % 256 = x /\ (x + y * 256) \div 256 = y /\ z <= 65535 /\ z \div 256 = 0
  BY <1>4
<1>6. x + y * 256 \in Half /\ z \in Half
  BY <1>4, <1>5, HalfIs
<1>7. Rest(c) \in Uint32
  BY <1>3, <1>6 DEF Uint32
<1>8. Rest(c)[1] = x + y * 256 /\ Rest(c)[2] = z
  BY <1>3
<1>9. Upper(Rest(c)) = 0
  BY <1>5, <1>8 DEF Upper
<1>10. Rest(c)[1] % 256 = x /\ Rest(c)[1] \div 256 = y
  BY <1>5, <1>8
<1>. QED
  BY <1>1, <1>2, <1>3, <1>7, <1>8, <1>9, <1>10 DEF x, y, z

(* A word is its low byte and the rest.                                    *)
LEMMA RestTells ==
  ASSUME NEW c \in Uint32, NEW d \in Uint32, Rest(c) = Rest(d)
  PROVE  /\ Upper(c) = Upper(d)
         /\ c[1] % 256 = d[1] % 256 => c = d
<1>1. c[1] \in Half /\ c[2] \in Half /\ d[1] \in Half /\ d[2] \in Half /\ c = <<c[1], c[2]>> /\ d = <<d[1], d[2]>>
  BY DEF Uint32
<1>2. c[1] \div 256 = d[1] \div 256 /\ c[2] \div 256 = d[2] \div 256 /\ c[2] % 256 = d[2] % 256
  <2>1. /\ Rest(c)[1] % 256 = c[1] \div 256 /\ Rest(c)[2] = c[2] \div 256 /\ Rest(c)[1] \div 256 = c[2] % 256
        /\ Rest(d)[1] % 256 = d[1] \div 256 /\ Rest(d)[2] = d[2] \div 256 /\ Rest(d)[1] \div 256 = d[2] % 256
    BY RestType
  <2> DEFINE r == Rest(c)
  <2>2. Rest(d) = r
    OBVIOUS
  <2>. QED
    BY <2>1, <2>2, ZenonT(60)
<1>3. \A h \in Half : (h % 256) + 256 * (h \div 256) = h
  BY HalfBytes
<1>4. c[2] = d[2]
  <2>1. (c[2] % 256) + 256 * (c[2] \div 256) = c[2] /\ (d[2] % 256) + 256 * (d[2] \div 256) = d[2]
    BY <1>1, <1>3
  <2>. QED
    BY <1>2, <2>1
<1>5. ASSUME c[1] % 256 = d[1] % 256 PROVE c[1] = d[1]
  <2>1. (c[1] % 256) + 256 * (c[1] \div 256) = c[1] /\ (d[1] % 256) + 256 * (d[1] \div 256) = d[1]
    BY <1>1, <1>3
  <2>. QED
    BY <1>2, <1>5, <2>1
<1>. QED
  BY <1>1, <1>2, <1>4, <1>5 DEF Upper

(* A register comes of one rest and one index only.                        *)
LEMMA NextTells ==
  ASSUME NEW c \in Uint32, NEW d \in Uint32, NEW x \in Byte, NEW y \in Byte, NextRegister(c, x) = NextRegister(d, y)
  PROVE  Index(c, x) = Index(d, y) /\ Rest(c) = Rest(d)
<1> DEFINE i == Index(c, x)   j == Index(d, y)
<1>1. NextRegister(c, x) = XorHalves(Rest(c), CrcTable[i]) /\ NextRegister(d, y) = XorHalves(Rest(d), CrcTable[j])
  BY DEF NextRegister, Rest, Index
<1>2. i \in Byte /\ j \in Byte
  BY XorByteType DEF Index
<1> HIDE DEF i, j
<1>3. CrcTable[i] \in Uint32 /\ CrcTable[j] \in Uint32
  BY <1>2, TableTells
<1>4. Rest(c) \in Uint32 /\ Rest(d) \in Uint32 /\ Upper(Rest(c)) = 0 /\ Upper(Rest(d)) = 0
  BY RestType
<1>5. i = j
  <2>1. XorHalf(Rest(c)[2], CrcTable[i][2]) = XorHalf(Rest(d)[2], CrcTable[j][2])
    <3>1. XorHalves(Rest(c), CrcTable[i]) = XorHalves(Rest(d), CrcTable[j])
      BY <1>1
    <3>2. \A v, w : XorHalves(v, w)[2] = XorHalf(v[2], w[2])
      BY DEF XorHalves
    <3>. QED
      BY <3>1, <3>2, ZenonT(60)
  <2>2. XorByte(Upper(Rest(c)), Upper(CrcTable[i])) = XorByte(Upper(Rest(d)), Upper(CrcTable[j]))
    BY <2>1, XorHalfBytes DEF Upper
  <2>3. Upper(CrcTable[i]) \in Byte /\ Upper(CrcTable[j]) \in Byte
    BY <1>3, RestType
  <2>4. Upper(CrcTable[i]) = Upper(CrcTable[j])
    BY <1>4, <2>2, <2>3, XorNothing
  <2>. QED
    BY <1>2, <2>4, TableTells
<1>6. Rest(c) = Rest(d)
  BY <1>1, <1>3, <1>4, <1>5, XorWordTells
<1>. QED
  BY <1>5, <1>6 DEF i, j

(* The registers of a CRC, one after the other.                            *)
Start == <<65535, 65535>>
Runs(f, n, s) ==
  /\ f \in [0 .. n -> Uint32] /\ f[0] = Start
  /\ \A i \in 1 .. n : f[i] = NextRegister(f[i - 1], s[i])

(* A register is a word,                                                   *)
LEMMA NextType ==
  ASSUME NEW c, NEW x
  PROVE  NextRegister(c, x) \in Uint32
BY XorHalfType DEF NextRegister, XorHalves, Uint32

(* ... the first one too.                                                  *)
LEMMA StartType == Start \in Uint32
<1>1. 65535 \in Half
  BY HalfIs
<1>. QED
  BY <1>1 DEF Start, Uint32

(* The recursion has a solution for every number of bytes, or there were   *)
(* a least for which it has none.                                          *)
LEMMA RunExists ==
  ASSUME NEW s, NEW n \in Nat
  PROVE  \E f : Runs(f, n, s)
<1> DEFINE T == {m \in Nat : ~\E f : Runs(f, m, s)}
<1>1. ASSUME T # {} PROVE FALSE
  <2>1. T \subseteq Nat
    OBVIOUS
  <2>2. PICK m \in T : \A k \in T : m <= k
    BY <1>1, <2>1, Least
  <2>3. m \in Nat /\ ~\E f : Runs(f, m, s)
    BY <2>2
  <2>4. m # 0
    <3> DEFINE f == [i \in 0 .. 0 |-> Start]
    <3>1. Runs(f, 0, s)
      BY StartType DEF Runs
    <3> HIDE DEF f
    <3>. QED
      BY <2>3, <3>1
  <2> DEFINE k == m - 1
  <2>5. k \in Nat /\ k < m /\ k + 1 = m
    BY <2>3, <2>4
  <2> HIDE DEF k
  <2>6. k \notin T
    BY <2>2, <2>3, <2>5
  <2>7. PICK f : Runs(f, k, s)
    BY <2>5, <2>6
  <2> DEFINE g == [i \in 0 .. m |-> IF i = m THEN NextRegister(f[k], s[m]) ELSE f[i]]
  <2>8. f \in [0 .. k -> Uint32] /\ f[0] = Start /\ \A i \in 1 .. k : f[i] = NextRegister(f[i - 1], s[i])
    BY <2>7 DEF Runs
  <2>9. g \in [0 .. m -> Uint32]
    <3>1. \A i \in 0 .. m : i = m \/ i \in 0 .. k
      BY <2>3, <2>5
    <3>. QED
      BY <2>8, <3>1, NextType
  <2>10. g[0] = Start
    BY <2>3, <2>4, <2>8
  <2>11. ASSUME NEW i \in 1 .. m PROVE g[i] = NextRegister(g[i - 1], s[i])
    <3>1. CASE i = m
      <4>1. i - 1 = k /\ k \in 0 .. m /\ k # m /\ m \in 0 .. m
        BY <2>3, <2>5, <3>1
      <4>2. g[k] = f[k] /\ g[m] = NextRegister(f[k], s[m])
        BY <4>1
      <4> HIDE DEF g
      <4>. QED
        BY <3>1, <4>1, <4>2
    <3>2. CASE i # m
      <4>1. i \in 1 .. k /\ i \in 0 .. m /\ i - 1 \in 0 .. m /\ i - 1 # m
        BY <2>3, <2>5, <3>2
      <4>2. g[i] = f[i] /\ g[i - 1] = f[i - 1]
        BY <3>2, <4>1
      <4> HIDE DEF g
      <4>. QED
        BY <2>8, <4>1, <4>2
    <3>. QED
      BY <3>1, <3>2
  <2> HIDE DEF g
  <2>12. Runs(g, m, s)
    BY <2>9, <2>10, <2>11 DEF Runs
  <2>. QED
    BY <2>3, <2>12
<1>. QED
  BY <1>1

(* The registers of crc32 are that solution.                               *)
LEMMA RegistersAre ==
  ASSUME NEW s \in Seq(Byte)
  PROVE  Runs(Registers(s), Len(s), s)
<1> DEFINE n == Len(s)
           Body(f) == [i \in 0 .. n |-> IF i = 0 THEN Start ELSE NextRegister(f[i - 1], s[i])]
           crc == Registers(s)
<1>1. n \in Nat
  BY LenProperties
<1>2. crc = CHOOSE f : f = Body(f)
  BY DEF Registers, Start
<1> HIDE DEF n
<1>3. PICK g : Runs(g, n, s)
  BY <1>1, RunExists
<1>4. g = Body(g)
  <2>1. g \in [0 .. n -> Uint32] /\ g[0] = Start /\ \A i \in 1 .. n : g[i] = NextRegister(g[i - 1], s[i])
    BY <1>3 DEF Runs
  <2>2. \A i \in 0 .. n : i # 0 => i \in 1 .. n
    BY <1>1
  <2>3. ASSUME NEW i \in 0 .. n PROVE g[i] = Body(g)[i]
    BY <2>1, <2>2
  <2>4. DOMAIN Body(g) = 0 .. n
    OBVIOUS
  <2> DEFINE h == Body(g)
  <2>5. h = [i \in 0 .. n |-> h[i]] /\ g = [i \in 0 .. n |-> g[i]]
    BY <2>1
  <2> HIDE DEF h
  <2>6. \A i \in 0 .. n : g[i] = h[i]
    BY <2>3 DEF h
  <2>7. g = h
    BY <2>5, <2>6
  <2>. QED
    BY <2>7 DEF h
<1>5. crc = Body(crc)
  <2> HIDE DEF Body, crc
  <2>. QED
    BY <1>2, <1>4
<1>6. \A i \in 0 .. n : crc[i] = IF i = 0 THEN Start ELSE NextRegister(crc[i - 1], s[i])
  <2> HIDE DEF crc
  <2>. QED
    BY <1>5
<1>7. crc = [i \in 0 .. n |-> crc[i]]
  <2> HIDE DEF crc
  <2>1. DOMAIN crc = 0 .. n
    BY <1>5
  <2> DEFINE h == Body(crc)
  <2>2. h = [i \in 0 .. n |-> h[i]]
    OBVIOUS
  <2> HIDE DEF h
  <2>3. crc = h
    BY <1>5 DEF h
  <2>. QED
    BY <2>2, <2>3
<1> HIDE DEF crc
<1>8. \A i \in 0 .. n : crc[i] \in Uint32
  BY <1>6, StartType, NextType
<1>9. crc \in [0 .. n -> Uint32]
  BY <1>7, <1>8
<1>10. crc[0] = Start /\ \A i \in 1 .. n : crc[i] = NextRegister(crc[i - 1], s[i])
  <2>1. 0 \in 0 .. n /\ \A i \in 1 .. n : i \in 0 .. n /\ i # 0
    BY <1>1
  <2>. QED
    BY <1>6, <2>1
<1>. QED
  BY <1>9, <1>10 DEF Runs, crc, n

(* Bytes that are the same but for those at j and behind it.               *)
SameBut(s, t, j) == \A i \in 1 .. Len(s) : i # j /\ i # j + 1 => s[i] = t[i]

(* What the CRC cannot miss: two bytes that follow each other.             *)
LEMMA BurstTells ==
  ASSUME NEW s \in Seq(Byte), NEW t \in Seq(Byte), Len(s) = Len(t), NEW j \in Nat \ {0}, SameBut(s, t, j),
         crc32(s) = crc32(t)
  PROVE  s = t
<1> DEFINE n == Len(s)   f == Registers(s)   g == Registers(t)
<1>1. n \in Nat /\ Len(t) = n /\ \A i \in 1 .. n : s[i] \in Byte /\ t[i] \in Byte
  BY LenProperties, ElementOfSeq
<1>2. Runs(f, n, s) /\ Runs(g, n, t)
  BY <1>1, RegistersAre
<1>3. /\ \A i \in 0 .. n : f[i] \in Uint32 /\ g[i] \in Uint32
      /\ f[0] = Start /\ g[0] = Start
      /\ \A i \in 1 .. n : f[i] = NextRegister(f[i - 1], s[i]) /\ g[i] = NextRegister(g[i - 1], t[i])
  BY <1>2 DEF Runs
<1>4. \A i \in 1 .. n : i # j /\ i # j + 1 => s[i] = t[i]
  BY DEF SameBut
<1>5. f[n] = g[n]
  <2>1. XorHalves(f[n], Start) = XorHalves(g[n], Start)
    BY <1>1 DEF crc32, Start
  <2>2. n \in 0 .. n
    BY <1>1
  <2> HIDE DEF f, g, n
  <2>. QED
    BY <1>3, <2>1, <2>2, StartType, XorWordTells
<1> HIDE DEF f, g, n
(* Of one register two bytes make two.                                     *)
<1>6. ASSUME NEW i \in 1 .. n, f[i] = g[i]
      PROVE  /\ Index(f[i - 1], s[i]) = Index(g[i - 1], t[i]) /\ Rest(f[i - 1]) = Rest(g[i - 1])
             /\ f[i - 1] \in Uint32 /\ g[i - 1] \in Uint32 /\ s[i] \in Byte /\ t[i] \in Byte
  <2>1. i - 1 \in 0 .. n
    BY <1>1
  <2>2. f[i - 1] \in Uint32 /\ g[i - 1] \in Uint32 /\ s[i] \in Byte /\ t[i] \in Byte
    BY <1>1, <1>3, <2>1
  <2>3. NextRegister(f[i - 1], s[i]) = NextRegister(g[i - 1], t[i])
    BY <1>3, <1>6
  <2> DEFINE c == f[i - 1]   d == g[i - 1]
  <2> HIDE DEF c, d
  <2>4. Index(c, s[i]) = Index(d, t[i]) /\ Rest(c) = Rest(d)
    BY <2>2, <2>3, NextTells DEF c, d
  <2>. QED
    BY <2>2, <2>4 DEF c, d
(* Where the bytes are the same, so are the registers before them.         *)
<1>7. ASSUME NEW i \in 1 .. n, f[i] = g[i], s[i] = t[i]
      PROVE  f[i - 1] = g[i - 1]
  <2> DEFINE c == f[i - 1]   d == g[i - 1]
  <2>1. Index(c, s[i]) = Index(d, s[i]) /\ Rest(c) = Rest(d) /\ c \in Uint32 /\ d \in Uint32 /\ s[i] \in Byte
    BY <1>6, <1>7
  <2> HIDE DEF c, d
  <2>2. c[1] % 256 \in Byte /\ d[1] % 256 \in Byte
    BY <2>1, RestType
  <2>3. c[1] % 256 = d[1] % 256
    BY <2>1, <2>2, XorTells DEF Index
  <2>4. c = d
    BY <2>1, <2>3, RestTells
  <2>. QED
    BY <2>4 DEF c, d
(* Where the registers before them are the same, so are the bytes.         *)
<1>8. ASSUME NEW i \in 1 .. n, f[i] = g[i], f[i - 1] = g[i - 1]
      PROVE  s[i] = t[i]
  <2> DEFINE c == f[i - 1]
  <2>1. Index(c, s[i]) = Index(c, t[i]) /\ c \in Uint32 /\ s[i] \in Byte /\ t[i] \in Byte
    BY <1>6, <1>8
  <2> HIDE DEF c
  <2>2. c[1] % 256 \in Byte
    BY <2>1, RestType
  <2>. QED
    BY <2>1, <2>2, XorTells DEF Index
(* The registers are the same before j ...                                 *)
<1>9. \A i \in 0 .. n : i < j => f[i] = g[i]
  <2> DEFINE T == {i \in 0 .. n : i < j /\ f[i] # g[i]}
  <2>1. ASSUME T # {} PROVE FALSE
    <3>1. T \subseteq Nat
      OBVIOUS
    <3>2. PICK m \in T : \A k \in T : m <= k
      BY <2>1, <3>1, Least
    <3>3. m \in 0 .. n /\ m < j /\ f[m] # g[m]
      BY <3>2
    <3>4. m # 0
      BY <1>3, <3>3
    <3> DEFINE k == m - 1
    <3>5. k \in 0 .. n /\ k < m /\ k < j /\ m \in 1 .. n /\ m # j /\ m # j + 1 /\ k \in Nat
      BY <1>1, <3>3, <3>4
    <3> HIDE DEF k
    <3>6. f[k] = g[k]
      BY <3>2, <3>3, <3>5
    <3>7. f[m] = NextRegister(f[k], s[m]) /\ g[m] = NextRegister(g[k], t[m]) /\ s[m] = t[m]
      BY <1>3, <1>4, <3>5 DEF k
    <3>. QED
      BY <3>3, <3>6, <3>7
  <2>. QED
    BY <2>1
(* ... and, backwards from the end, behind it.                             *)
<1>10. \A i \in 0 .. n : i > j => f[i] = g[i]
  <2> DEFINE T == {i \in 0 .. n : n - i > j /\ f[n - i] # g[n - i]}
  <2>1. ASSUME T # {} PROVE FALSE
    <3>1. T \subseteq Nat
      OBVIOUS
    <3>2. PICK m \in T : \A k \in T : m <= k
      BY <2>1, <3>1, Least
    <3>3. m \in 0 .. n /\ n - m > j /\ f[n - m] # g[n - m]
      BY <3>2
    <3>4. m # 0
      BY <1>1, <1>5, <3>3
    <3> DEFINE k == m - 1   i == n - k
    <3>5. /\ k \in 0 .. n /\ k < m /\ n - k > j /\ k \in Nat
          /\ i \in 1 .. n /\ i - 1 = n - m /\ i # j /\ i # j + 1
      BY <1>1, <3>3, <3>4
    <3> HIDE DEF k
    <3>6. f[n - k] = g[n - k]
      BY <3>2, <3>3, <3>5
    <3> HIDE DEF i
    <3>7. f[i] = g[i] /\ s[i] = t[i]
      BY <1>4, <3>5, <3>6 DEF i
    <3>8. f[i - 1] = g[i - 1]
      BY <1>7, <3>5, <3>7
    <3>. QED
      BY <3>3, <3>5, <3>8
  <2>2. ASSUME NEW i \in 0 .. n, i > j PROVE f[i] = g[i]
    <3> DEFINE k == n - i
    <3>1. k \in 0 .. n /\ n - k = i
      BY <1>1
    <3> HIDE DEF k
    <3>2. k \notin T
      BY <2>1
    <3>. QED
      BY <2>2, <3>1, <3>2
  <2>. QED
    BY <2>2
(* So are the bytes at j and behind it.                                    *)
<1>11. ASSUME j <= n PROVE s[j] = t[j]
  <2>1. j \in 1 .. n /\ j - 1 \in 0 .. n /\ j - 1 < j
    BY <1>1, <1>11
  <2>2. f[j - 1] = g[j - 1]
    BY <1>9, <2>1
  <2>3. CASE j = n
    BY <1>5, <1>8, <2>1, <2>2, <2>3
  <2>4. CASE j < n
    <3> DEFINE k == j + 1
    <3>1. k \in 1 .. n /\ k \in 0 .. n /\ k > j /\ k - 1 = j
      BY <1>1, <2>4
    <3> HIDE DEF k
    <3>2. f[k] = g[k]
      BY <1>10, <3>1
    <3>3. Rest(f[j]) = Rest(g[j]) /\ f[j] \in Uint32 /\ g[j] \in Uint32
      BY <1>6, <3>1, <3>2
    <3>4. Upper(f[j]) = Upper(g[j])
      BY <3>3, RestTells
    <3> DEFINE c == f[j - 1]   x == Index(c, s[j])   y == Index(c, t[j])
    <3>5. f[j] = XorHalves(Rest(c), CrcTable[x]) /\ g[j] = XorHalves(Rest(c), CrcTable[y])
      BY <1>3, <2>1, <2>2 DEF NextRegister, Rest, Index
    <3>6. c \in Uint32 /\ x \in Byte /\ y \in Byte /\ s[j] \in Byte /\ t[j] \in Byte
      BY <1>1, <1>3, <2>1, XorByteType DEF Index
    <3> HIDE DEF x, y, c
    <3>7. XorByte(Upper(Rest(c)), Upper(CrcTable[x])) = XorByte(Upper(Rest(c)), Upper(CrcTable[y]))
      <4>1. \A v, w : Upper(XorHalves(v, w)) = XorByte(Upper(v), Upper(w))
        BY XorHalfBytes DEF XorHalves, Upper
      <4>. QED
        BY <3>4, <3>5, <4>1
    <3>8. CrcTable[x] \in Uint32 /\ CrcTable[y] \in Uint32
      BY <3>6, TableTells
    <3>9. Upper(CrcTable[x]) \in Byte /\ Upper(CrcTable[y]) \in Byte /\ Upper(Rest(c)) = 0
      BY <3>6, <3>8, RestType
    <3>10. Upper(CrcTable[x]) = Upper(CrcTable[y])
      BY <3>7, <3>9, XorNothing
    <3>11. x = y
      BY <3>6, <3>10, TableTells
    <3>12. c[1] % 256 \in Byte
      BY <3>6, RestType
    <3>. QED
      BY <3>6, <3>11, <3>12, XorTells DEF Index, x, y
  <2>. QED
    BY <1>1, <1>11, <2>3, <2>4
<1>12. ASSUME j + 1 <= n PROVE s[j + 1] = t[j + 1]
  <2>1. j \in 1 .. n /\ j - 1 \in 0 .. n /\ j - 1 < j /\ j <= n
    BY <1>1, <1>12
  <2>2. f[j - 1] = g[j - 1] /\ s[j] = t[j]
    BY <1>9, <1>11, <2>1
  <2>3. f[j] = g[j]
    BY <1>3, <2>1, <2>2
  <2> DEFINE k == j + 1
  <2>4. k \in 1 .. n /\ k \in 0 .. n /\ k > j /\ k - 1 = j
    BY <1>1, <1>12
  <2> HIDE DEF k
  <2>5. f[k] = g[k]
    BY <1>10, <2>4
  <2>6. s[k] = t[k]
    BY <1>8, <2>3, <2>4, <2>5
  <2>. QED
    BY <2>6 DEF k
<1>13. \A i \in 1 .. n : s[i] = t[i]
  <2>1. ASSUME NEW i \in 1 .. n PROVE s[i] = t[i]
    <3>1. i <= n
      BY <1>1
    <3>. QED
      BY <1>4, <1>11, <1>12, <3>1
  <2>. QED
    BY <2>1
<1>. QED
  BY <1>1, <1>13, SeqEqual DEF n

(* What Decode makes of the bytes of a frame.                              *)
Opened(bytes) ==
  LET crc_bytes == SubSeq(bytes, 1, 4)
      id_bytes == XorBytes(SubSeq(bytes, 5, 8), crc_bytes)
      padded == SubSeq(bytes, META_BYTE_NUM + 1, Len(bytes))
  IN  <<crc32(id_bytes \o padded) = bytes_to_uint32(crc_bytes), bytes_to_uint32(id_bytes), padded>>

(* What is under the CRC: the id, uncovered, and the bytes of the part.    *)
Covered(s) == XorBytes(SubSeq(s, 5, 8), SubSeq(s, 1, 4)) \o SubSeq(s, 9, Len(s))
CoveredIs(s) ==
  /\ Covered(s) \in Seq(Byte) /\ Len(Covered(s)) = Len(s) - 4
  /\ \A i \in 1 .. 4 : Covered(s)[i] = XorByte(s[i + 4], s[i])
  /\ \A i \in 5 .. Len(s) - 4 : Covered(s)[i] = s[i + 4]

(* It is bytes: those of the id are uncovered with the CRC word, the       *)
(* others are the part.                                                    *)
LEMMA CoveredType ==
  ASSUME NEW s \in Seq(Byte), Len(s) >= 8
  PROVE  CoveredIs(s)
<1> DEFINE n == Len(s)   c == SubSeq(s, 1, 4)   d == SubSeq(s, 5, 8)   x == XorBytes(d, c)   p == SubSeq(s, 9, n)
<1>1. n \in Nat /\ n >= 8 /\ \A i \in 1 .. n : s[i] \in Byte
  BY LenProperties, ElementOfSeq
<1>2. c \in Seq(Byte) /\ Len(c) = 4 /\ \A i \in 1 .. 4 : c[i] = s[i]
  <2>1. \A i \in 1 .. 4 : s[i] \in Byte
    BY <1>1
  <2>. QED
    BY <2>1, SubSeqProperties
<1>3. d \in Seq(Byte) /\ Len(d) = 4 /\ \A i \in 1 .. 4 : d[i] = s[i + 4]
  <2>1. \A i \in 5 .. 8 : s[i] \in Byte
    BY <1>1
  <2>2. d \in Seq(Byte) /\ Len(d) = 4 /\ \A i \in 1 .. 4 : d[i] = s[5 + i - 1]
    BY <2>1, SubSeqProperties
  <2>3. \A i \in 1 .. 4 : 5 + i - 1 = i + 4
    OBVIOUS
  <2>. QED
    BY <2>2, <2>3
<1>4. p \in Seq(Byte) /\ Len(p) = n - 8 /\ \A i \in 1 .. n - 8 : p[i] = s[i + 8]
  <2>1. \A i \in 9 .. n : s[i] \in Byte
    BY <1>1
  <2> HIDE DEF n
  <2>2. p \in Seq(Byte) /\ Len(p) = n - 8 /\ \A i \in 1 .. n - 8 : p[i] = s[9 + i - 1]
    BY <1>1, <2>1, SubSeqProperties
  <2>3. \A i \in 1 .. n - 8 : 9 + i - 1 = i + 8
    BY <1>1
  <2>. QED
    BY <2>2, <2>3
<1> HIDE DEF c, d, p
<1>5. x \in Seq(Byte) /\ Len(x) = 4
  BY <1>2, <1>3, ScrambleTwice
<1>6. \A i \in 1 .. 4 : x[i] = XorByte(s[i + 4], s[i])
  <2>1. DOMAIN d = 1 .. 4
    BY <1>3, LenProperties
  <2>. QED
    BY <1>2, <1>3, <2>1 DEF XorBytes
<1> HIDE DEF x
<1>7. Covered(s) = x \o p
  BY DEF Covered, x, c, d, p, n
<1> DEFINE m == x \o p
<1>8. m \in Seq(Byte) /\ Len(m) = Len(x) + Len(p)
      /\ \A i \in 1 .. Len(x) + Len(p) : m[i] = IF i <= Len(x) THEN x[i] ELSE p[i - Len(x)]
  BY <1>4, <1>5, ConcatProperties
<1> HIDE DEF m, n
<1>9. Len(m) = n - 4 /\ \A i \in 1 .. n - 4 : m[i] = IF i <= 4 THEN x[i] ELSE p[i - 4]
  BY <1>1, <1>4, <1>5, <1>8
<1>10. \A i \in 1 .. 4 : m[i] = XorByte(s[i + 4], s[i])
  <2> TAKE i \in 1 .. 4
  <2>1. i \in 1 .. n - 4 /\ i <= 4
    BY <1>1
  <2>2. m[i] = x[i]
    BY <1>9, <2>1
  <2>. QED
    BY <1>6, <2>2
<1>11. \A i \in 5 .. n - 4 : m[i] = s[i + 4]
  <2> TAKE i \in 5 .. n - 4
  <2>1. i - 4 \in 1 .. n - 8 /\ (i - 4) + 8 = i + 4 /\ i \in 1 .. n - 4 /\ ~(i <= 4)
    BY <1>1
  <2>2. p[i - 4] = s[i + 4]
    BY <1>4, <2>1
  <2>. QED
    BY <1>9, <2>1, <2>2
<1>. QED
  BY <1>7, <1>8, <1>9, <1>10, <1>11 DEF CoveredIs, m, n

(* Of two frames that are the same up to two bytes behind the CRC word,    *)
(* and both pass, there is only one.                                       *)
LEMMA OpenedTells ==
  ASSUME NEW s \in Seq(Byte), NEW t \in Seq(Byte), Len(s) = Len(t), Len(s) >= 8, NEW j \in Nat, j >= 5, SameBut(s, t, j),
         Opened(s)[1], Opened(t)[1]
  PROVE  s = t
<1> DEFINE n == Len(s)   m == Covered(s)   w == Covered(t)
<1>1. n \in Nat /\ n >= 8 /\ Len(t) = n /\ \A i \in 1 .. n : s[i] \in Byte /\ t[i] \in Byte
  BY LenProperties, ElementOfSeq
<1>2. CoveredIs(s) /\ CoveredIs(t)
  BY CoveredType
<1>3. /\ m \in Seq(Byte) /\ w \in Seq(Byte) /\ Len(m) = n - 4 /\ Len(w) = n - 4
      /\ \A i \in 1 .. 4 : m[i] = XorByte(s[i + 4], s[i]) /\ w[i] = XorByte(t[i + 4], t[i])
      /\ \A i \in 5 .. n - 4 : m[i] = s[i + 4] /\ w[i] = t[i + 4]
  BY <1>1, <1>2 DEF CoveredIs
<1>4. \A i \in 1 .. n : i # j /\ i # j + 1 => s[i] = t[i]
  BY DEF SameBut
<1>5. \A i \in 1 .. 4 : s[i] = t[i]
  <2> HIDE DEF n
  <2> TAKE i \in 1 .. 4
  <2>1. i \in 1 .. n /\ i # j /\ i # j + 1
    BY <1>1
  <2>. QED
    BY <1>4, <2>1
<1>6. crc32(m) = crc32(w)
  <2>1. 9 = META_BYTE_NUM + 1
    BY DEF META_BYTE_NUM
  <2>2. crc32(m) = bytes_to_uint32(SubSeq(s, 1, 4)) /\ crc32(w) = bytes_to_uint32(SubSeq(t, 1, 4))
    BY <2>1 DEF Opened, Covered
  <2>3. SubSeq(s, 1, 4) = SubSeq(t, 1, 4)
    BY <1>5
  <2>. QED
    BY <2>2, <2>3
<1> HIDE DEF m, w, n
<1> DEFINE k == j - 4
<1>7. SameBut(m, w, k)
  <2> SUFFICES ASSUME NEW i \in 1 .. n - 4, i # k, i # k + 1 PROVE m[i] = w[i]
    BY <1>3 DEF SameBut
  <2>1. i + 4 \in 1 .. n /\ i + 4 # j /\ i + 4 # j + 1 /\ i \in Int
    BY <1>1
  <2>2. s[i + 4] = t[i + 4]
    BY <1>4, <2>1
  <2>3. i \in 1 .. 4 \/ i \in 5 .. n - 4
    BY <2>1
  <2>. QED
    BY <1>3, <1>5, <2>2, <2>3
<1>8. k \in Nat \ {0}
  OBVIOUS
<1> HIDE DEF k
<1>9. m = w
  BY <1>3, <1>6, <1>7, <1>8, BurstTells
<1>10. ASSUME NEW i \in 1 .. n PROVE s[i] = t[i]
  <2>1. CASE i \in 1 .. 4
    BY <1>5, <2>1
  <2>2. CASE i \in 5 .. 8
    <3> DEFINE h == i - 4
    <3>1. h \in 1 .. 4 /\ h + 4 = i /\ h \in 1 .. n
      BY <1>1, <2>2
    <3> HIDE DEF h
    <3>2. XorByte(s[i], s[h]) = XorByte(t[i], s[h])
      BY <1>3, <1>5, <1>9, <3>1
    <3>3. s[i] \in Byte /\ t[i] \in Byte /\ s[h] \in Byte
      BY <1>1, <3>1
    <3>4. XorByte(XorByte(s[i], s[h]), s[h]) = s[i] /\ XorByte(XorByte(t[i], s[h]), s[h]) = t[i]
      BY <3>3, XorTwice
    <3>. QED
      BY <3>2, <3>4
  <2>3. CASE i \notin 1 .. 8
    <3> DEFINE h == i - 4
    <3>1. h \in 5 .. n - 4 /\ h + 4 = i
      BY <1>1, <2>3
    <3> HIDE DEF h
    <3>. QED
      BY <1>3, <1>9, <3>1
  <2>4. i \in Int
    BY <1>1
  <2>. QED
    BY <2>1, <2>2, <2>3, <2>4
<1>. QED
  BY <1>1, <1>10, SeqEqual DEF n

(* The symbols that are read, and the bytes one of them goes into.         *)
Symbol == 0 .. 7
Low(bits, k) == (k * bits) \div 8 + 1
High(bits, k) == (k * bits + bits - 1) \div 8 + 1
SameAt(s, t, k) == \A i \in 1 .. Len(s) : i # k + 1 => s[i] = t[i]
BytesOff(bits, s, t, k, n) ==
  /\ SymbolsToBytes(bits, s) \in Seq(Byte) /\ Len(SymbolsToBytes(bits, s)) = n
  /\ \A i \in 1 .. n : i # Low(bits, k) /\ i # High(bits, k) => SymbolsToBytes(bits, s)[i] = SymbolsToBytes(bits, t)[i]

(* Four pairs of bits make a byte.                                         *)
LEMMA PairsMake ==
  ASSUME NEW a \in 0 .. 3, NEW c \in 0 .. 3, NEW d \in 0 .. 3, NEW e \in 0 .. 3
  PROVE  a * 64 + c * 16 + d * 4 + e \in Byte
BY DEF Byte

(* One symbol goes into one byte, with one bit,                            *)
LEMMA Off1 ==
  ASSUME NEW n \in Nat, NEW s \in Seq(Symbol), NEW t \in Seq(Symbol), Len(s) = 8 * n, Len(t) = 8 * n,
         NEW k \in Nat, SameAt(s, t, k)
  PROVE  BytesOff(1, s, t, k, n)
<1> DEFINE S(i, j) == s[8 * (i - 1) + j + 1] % 2
           T(i, j) == t[8 * (i - 1) + j + 1] % 2
           v == SymbolsToBytes1(s)   w == SymbolsToBytes1(t)
<1>1. \A i \in 1 .. 8 * n : s[i] \in 0 .. 7 /\ t[i] \in 0 .. 7
  BY ElementOfSeq DEF Symbol
<1>2. CeilDiv(Len(s), 8) = n /\ CeilDiv(Len(t), 8) = n
  BY DEF CeilDiv
<1>3. ASSUME NEW i \in 1 .. n, NEW j \in 0 .. 7
      PROVE  8 * (i - 1) + j + 1 \in 1 .. 8 * n
  OBVIOUS
<1>4. ASSUME NEW i \in 1 .. n, NEW j \in 0 .. 7
      PROVE  S(i, j) \in {0, 1}
  <2>1. s[8 * (i - 1) + j + 1] \in 0 .. 7
    BY <1>1, <1>3
  <2>. QED
    BY <2>1
<1>5. ASSUME NEW i \in 1 .. n, NEW j \in 0 .. 7, i # k \div 8 + 1
      PROVE  S(i, j) = T(i, j)
  <2>1. 8 * (i - 1) + j + 1 # k + 1
    BY <1>5
  <2>2. s[8 * (i - 1) + j + 1] = t[8 * (i - 1) + j + 1]
    BY <1>3, <2>1 DEF SameAt
  <2>. QED
    BY <2>2
<1>6. /\ v = [i \in 1 .. n |-> S(i, 0) * 128 + S(i, 1) * 64 + S(i, 2) * 32 + S(i, 3) * 16 + S(i, 4) * 8 + S(i, 5) * 4 + S(i, 6) * 2 + S(i, 7)]
      /\ w = [i \in 1 .. n |-> T(i, 0) * 128 + T(i, 1) * 64 + T(i, 2) * 32 + T(i, 3) * 16 + T(i, 4) * 8 + T(i, 5) * 4 + T(i, 6) * 2 + T(i, 7)]
  BY <1>2 DEF SymbolsToBytes1
<1> HIDE DEF S, T
<1>7. v \in [1 .. n -> Byte]
  <2> HIDE DEF v
  <2>1. ASSUME NEW i \in 1 .. n
        PROVE  S(i, 0) * 128 + S(i, 1) * 64 + S(i, 2) * 32 + S(i, 3) * 16 + S(i, 4) * 8 + S(i, 5) * 4 + S(i, 6) * 2 + S(i, 7) \in Byte
    <3>1. S(i, 0) \in {0, 1} /\ S(i, 1) \in {0, 1} /\ S(i, 2) \in {0, 1} /\ S(i, 3) \in {0, 1}
          /\ S(i, 4) \in {0, 1} /\ S(i, 5) \in {0, 1} /\ S(i, 6) \in {0, 1} /\ S(i, 7) \in {0, 1}
      BY <1>4
    <3> DEFINE x0 == S(i, 0)   x1 == S(i, 1)   x2 == S(i, 2)   x3 == S(i, 3)
               x4 == S(i, 4)   x5 == S(i, 5)   x6 == S(i, 6)   x7 == S(i, 7)
    <3>2. x0 \in {0, 1} /\ x1 \in {0, 1} /\ x2 \in {0, 1} /\ x3 \in {0, 1}
          /\ x4 \in {0, 1} /\ x5 \in {0, 1} /\ x6 \in {0, 1} /\ x7 \in {0, 1}
      BY <3>1
    <3> HIDE DEF x0, x1, x2, x3, x4, x5, x6, x7
    <3>3. x0 * 128 + x1 * 64 + x2 * 32 + x3 * 16 + x4 * 8 + x5 * 4 + x6 * 2 + x7 \in Byte
      BY <3>2 DEF Byte
    <3>. QED
      BY <3>3 DEF x0, x1, x2, x3, x4, x5, x6, x7
  <2>. QED
    BY <1>6, <2>1
<1>8. ASSUME NEW i \in 1 .. n, i # k \div 8 + 1
      PROVE  v[i] = w[i]
  <2> HIDE DEF v, w
  <2>1. \A j \in 0 .. 7 : S(i, j) = T(i, j)
    BY <1>5, <1>8
  <2>2. S(i, 0) = T(i, 0) /\ S(i, 1) = T(i, 1) /\ S(i, 2) = T(i, 2) /\ S(i, 3) = T(i, 3)
        /\ S(i, 4) = T(i, 4) /\ S(i, 5) = T(i, 5) /\ S(i, 6) = T(i, 6) /\ S(i, 7) = T(i, 7)
    BY <2>1
  <2>. QED
    BY <1>6, <2>2
<1>9. Low(1, k) = k \div 8 + 1
  BY DEF Low
<1>10. v = SymbolsToBytes(1, s) /\ w = SymbolsToBytes(1, t)
  BY DEF SymbolsToBytes
<1> HIDE DEF v, w
<1>11. v \in Seq(Byte) /\ Len(v) = n
  BY <1>7, FunctionSeq
<1>. QED
  BY <1>8, <1>9, <1>10, <1>11 DEF BytesOff

(* ... or with two,                                                        *)
LEMMA Off2 ==
  ASSUME NEW n \in Nat, NEW s \in Seq(Symbol), NEW t \in Seq(Symbol), Len(s) = 4 * n, Len(t) = 4 * n,
         NEW k \in Nat, SameAt(s, t, k)
  PROVE  BytesOff(2, s, t, k, n)
<1> DEFINE S(i, j) == s[4 * (i - 1) + j + 1] % 4
           T(i, j) == t[4 * (i - 1) + j + 1] % 4
           v == SymbolsToBytes2(s)   w == SymbolsToBytes2(t)
<1>1. \A i \in 1 .. 4 * n : s[i] \in 0 .. 7 /\ t[i] \in 0 .. 7
  BY ElementOfSeq DEF Symbol
<1>2. CeilDiv(Len(s), 4) = n /\ CeilDiv(Len(t), 4) = n
  BY DEF CeilDiv
<1>3. ASSUME NEW i \in 1 .. n, NEW j \in 0 .. 3
      PROVE  4 * (i - 1) + j + 1 \in 1 .. 4 * n
  OBVIOUS
<1>4. ASSUME NEW i \in 1 .. n, NEW j \in 0 .. 3
      PROVE  S(i, j) \in 0 .. 3
  <2>1. s[4 * (i - 1) + j + 1] \in 0 .. 7
    BY <1>1, <1>3
  <2>. QED
    BY <2>1
<1>5. ASSUME NEW i \in 1 .. n, NEW j \in 0 .. 3, i # (k * 2) \div 8 + 1
      PROVE  S(i, j) = T(i, j)
  <2>1. 4 * (i - 1) + j + 1 # k + 1
    BY <1>5
  <2>2. s[4 * (i - 1) + j + 1] = t[4 * (i - 1) + j + 1]
    BY <1>3, <2>1 DEF SameAt
  <2>. QED
    BY <2>2
<1>6. /\ v = [i \in 1 .. n |-> S(i, 0) * 64 + S(i, 1) * 16 + S(i, 2) * 4 + S(i, 3)]
      /\ w = [i \in 1 .. n |-> T(i, 0) * 64 + T(i, 1) * 16 + T(i, 2) * 4 + T(i, 3)]
  BY <1>2 DEF SymbolsToBytes2
<1> HIDE DEF S, T
<1>7. v \in [1 .. n -> Byte]
  <2> HIDE DEF v
  <2>1. ASSUME NEW i \in 1 .. n
        PROVE  S(i, 0) * 64 + S(i, 1) * 16 + S(i, 2) * 4 + S(i, 3) \in Byte
    <3>1. S(i, 0) \in 0 .. 3 /\ S(i, 1) \in 0 .. 3 /\ S(i, 2) \in 0 .. 3 /\ S(i, 3) \in 0 .. 3
      BY <1>4
    <3>. QED
      BY <3>1, PairsMake
  <2>. QED
    BY <1>6, <2>1
<1>8. ASSUME NEW i \in 1 .. n, i # (k * 2) \div 8 + 1
      PROVE  v[i] = w[i]
  <2> HIDE DEF v, w
  <2>1. \A j \in 0 .. 3 : S(i, j) = T(i, j)
    BY <1>5, <1>8
  <2>2. S(i, 0) = T(i, 0) /\ S(i, 1) = T(i, 1) /\ S(i, 2) = T(i, 2) /\ S(i, 3) = T(i, 3)
    BY <2>1
  <2>. QED
    BY <1>6, <2>2
<1>9. Low(2, k) = (k * 2) \div 8 + 1
  BY DEF Low
<1>10. v = SymbolsToBytes(2, s) /\ w = SymbolsToBytes(2, t)
  BY DEF SymbolsToBytes
<1> HIDE DEF v, w
<1>11. v \in Seq(Byte) /\ Len(v) = n
  BY <1>7, FunctionSeq
<1>. QED
  BY <1>8, <1>9, <1>10, <1>11 DEF BytesOff

(* ... and with three into one or two that follow each other.              *)
LEMMA Off3 ==
  ASSUME NEW n \in Nat, NEW s \in Seq(Symbol), NEW t \in Seq(Symbol), Len(s) = CeilDiv(8 * n, 3), Len(t) = CeilDiv(8 * n, 3),
         NEW k \in Nat, SameAt(s, t, k)
  PROVE  BytesOff(3, s, t, k, n)
<1> DEFINE l == CeilDiv(8 * n, 3)
           S(i, j) == s[8 * ((i - 1) \div 3) + j + 1]
           T(i, j) == t[8 * ((i - 1) \div 3) + j + 1]
           v == SymbolsToBytes3(s)   w == SymbolsToBytes3(t)
           From(i) == IF i % 3 = 1 THEN 0 ELSE IF i % 3 = 2 THEN 2 ELSE 5
           To(i) == IF i % 3 = 1 THEN 2 ELSE IF i % 3 = 2 THEN 5 ELSE 7
<1>1. l \in Nat /\ (l * 3) \div 8 = n /\ 3 * l >= 8 * n
  BY DEF CeilDiv
<1> HIDE DEF l
<1>2. \A i \in 1 .. l : s[i] \in 0 .. 7 /\ t[i] \in 0 .. 7
  BY ElementOfSeq DEF Symbol, l
<1>3. ASSUME NEW i \in 1 .. n, NEW j \in From(i) .. To(i)
      PROVE  8 * ((i - 1) \div 3) + j + 1 \in 1 .. l
  <2>1. CASE i % 3 = 1
    BY <1>1, <2>1
  <2>2. CASE i % 3 = 2
    BY <1>1, <2>2
  <2>3. CASE i % 3 = 0
    BY <1>1, <2>3
  <2>. QED
    BY <2>1, <2>2, <2>3
<1>4. ASSUME NEW i \in 1 .. n, NEW j \in From(i) .. To(i)
      PROVE  S(i, j) \in 0 .. 7
  BY <1>2, <1>3
<1>5. ASSUME NEW i \in 1 .. n, NEW j \in From(i) .. To(i), i # Low(3, k), i # High(3, k)
      PROVE  S(i, j) = T(i, j)
  <2>1. 8 * ((i - 1) \div 3) + j # k
    <3>1. i # (k * 3) \div 8 + 1 /\ i # (k * 3 + 3 - 1) \div 8 + 1
      BY <1>5 DEF Low, High
    <3> SUFFICES ASSUME 8 * ((i - 1) \div 3) + j = k PROVE FALSE
      OBVIOUS
    <3> DEFINE q == (i - 1) \div 3
    <3>2. CASE i % 3 = 1
      <4>1. i = 3 * q + 1 /\ q \in Nat /\ j \in 0 .. 2 /\ k = 8 * q + j
        BY <3>2
      <4> HIDE DEF q
      <4>. QED
        BY <3>1, <4>1
    <3>3. CASE i % 3 = 2
      <4>1. i = 3 * q + 2 /\ q \in Nat /\ j \in 2 .. 5 /\ k = 8 * q + j
        BY <3>3
      <4> HIDE DEF q
      <4>. QED
        BY <3>1, <4>1
    <3>4. CASE i % 3 = 0
      <4>1. i = 3 * q + 3 /\ q \in Nat /\ j \in 5 .. 7 /\ k = 8 * q + j
        BY <3>4
      <4> HIDE DEF q
      <4>. QED
        BY <3>1, <4>1
    <3>. QED
      BY <3>2, <3>3, <3>4
  <2>2. 8 * ((i - 1) \div 3) + j + 1 # k + 1
    <3> DEFINE m == (i - 1) \div 3
    <3>1. m \in Int /\ j \in Int
      OBVIOUS
    <3> HIDE DEF m
    <3>2. 8 * m + j # k
      BY <2>1 DEF m
    <3>3. 8 * m + j + 1 # k + 1
      BY <3>1, <3>2
    <3>. QED
      BY <3>3 DEF m
  <2>. QED
    BY <1>3, <2>2 DEF SameAt, l
<1>6. /\ v = [i \in 1 .. n |-> CASE i % 3 = 1 -> S(i, 0) * 32 + S(i, 1) * 4 + S(i, 2) \div 2
                   [] i % 3 = 2 -> (S(i, 2) % 2) * 128 + S(i, 3) * 16 + S(i, 4) * 2 + S(i, 5) \div 4
                   [] i % 3 = 0 -> (S(i, 5) % 4) * 64 + S(i, 6) * 8 + S(i, 7)]
      /\ w = [i \in 1 .. n |-> CASE i % 3 = 1 -> T(i, 0) * 32 + T(i, 1) * 4 + T(i, 2) \div 2
                   [] i % 3 = 2 -> (T(i, 2) % 2) * 128 + T(i, 3) * 16 + T(i, 4) * 2 + T(i, 5) \div 4
                   [] i % 3 = 0 -> (T(i, 5) % 4) * 64 + T(i, 6) * 8 + T(i, 7)]
  BY <1>1 DEF SymbolsToBytes3, l
<1>7. \A i \in 1 .. n : i % 3 = 1 \/ i % 3 = 2 \/ i % 3 = 0
  OBVIOUS
<1>8. /\ \A i \in 1 .. n : i % 3 = 1 => From(i) = 0 /\ To(i) = 2
      /\ \A i \in 1 .. n : i % 3 = 2 => From(i) = 2 /\ To(i) = 5
      /\ \A i \in 1 .. n : i % 3 = 0 => From(i) = 5 /\ To(i) = 7
  OBVIOUS
<1> HIDE DEF S, T, v, w, From, To
<1>9. /\ \A i \in 1 .. n : i % 3 = 1 => v[i] = S(i, 0) * 32 + S(i, 1) * 4 + S(i, 2) \div 2 /\ w[i] = T(i, 0) * 32 + T(i, 1) * 4 + T(i, 2) \div 2
      /\ \A i \in 1 .. n : i % 3 = 2 => /\ v[i] = (S(i, 2) % 2) * 128 + S(i, 3) * 16 + S(i, 4) * 2 + S(i, 5) \div 4
                                        /\ w[i] = (T(i, 2) % 2) * 128 + T(i, 3) * 16 + T(i, 4) * 2 + T(i, 5) \div 4
      /\ \A i \in 1 .. n : i % 3 = 0 => /\ v[i] = (S(i, 5) % 4) * 64 + S(i, 6) * 8 + S(i, 7)
                                        /\ w[i] = (T(i, 5) % 4) * 64 + T(i, 6) * 8 + T(i, 7)
  BY <1>6
<1>10. ASSUME NEW i \in 1 .. n PROVE v[i] \in Byte
  <2>1. CASE i % 3 = 1
    <3>1. S(i, 0) \in 0 .. 7 /\ S(i, 1) \in 0 .. 7 /\ S(i, 2) \in 0 .. 7
      BY <1>4, <1>8, <2>1
    <3> DEFINE x == S(i, 0)   y == S(i, 1)   z == S(i, 2)
    <3>2. x \in 0 .. 7 /\ y \in 0 .. 7 /\ z \in 0 .. 7 /\ v[i] = x * 32 + y * 4 + z \div 2
      BY <1>9, <2>1, <3>1
    <3> HIDE DEF x, y, z
    <3>. QED
      BY <3>2 DEF Byte
  <2>2. CASE i % 3 = 2
    <3>1. S(i, 2) \in 0 .. 7 /\ S(i, 3) \in 0 .. 7 /\ S(i, 4) \in 0 .. 7 /\ S(i, 5) \in 0 .. 7
      BY <1>4, <1>8, <2>2
    <3> DEFINE x == S(i, 2)   y == S(i, 3)   z == S(i, 4)   u == S(i, 5)
    <3>2. x \in 0 .. 7 /\ y \in 0 .. 7 /\ z \in 0 .. 7 /\ u \in 0 .. 7 /\ v[i] = (x % 2) * 128 + y * 16 + z * 2 + u \div 4
      BY <1>9, <2>2, <3>1
    <3> HIDE DEF x, y, z, u
    <3>. QED
      BY <3>2 DEF Byte
  <2>3. CASE i % 3 = 0
    <3>1. S(i, 5) \in 0 .. 7 /\ S(i, 6) \in 0 .. 7 /\ S(i, 7) \in 0 .. 7
      BY <1>4, <1>8, <2>3
    <3> DEFINE x == S(i, 5)   y == S(i, 6)   z == S(i, 7)
    <3>2. x \in 0 .. 7 /\ y \in 0 .. 7 /\ z \in 0 .. 7 /\ v[i] = (x % 4) * 64 + y * 8 + z
      BY <1>9, <2>3, <3>1
    <3> HIDE DEF x, y, z
    <3>. QED
      BY <3>2 DEF Byte
  <2>. QED
    BY <1>7, <2>1, <2>2, <2>3
<1>11. ASSUME NEW i \in 1 .. n, i # Low(3, k), i # High(3, k)
       PROVE  v[i] = w[i]
  <2>0. \A j \in From(i) .. To(i) : S(i, j) = T(i, j)
    BY <1>5, <1>11
  <2>1. CASE i % 3 = 1
    <3>1. S(i, 0) = T(i, 0) /\ S(i, 1) = T(i, 1) /\ S(i, 2) = T(i, 2)
      BY <1>8, <2>0, <2>1
    <3>. QED
      BY <1>9, <2>1, <3>1
  <2>2. CASE i % 3 = 2
    <3>1. S(i, 2) = T(i, 2) /\ S(i, 3) = T(i, 3) /\ S(i, 4) = T(i, 4) /\ S(i, 5) = T(i, 5)
      BY <1>8, <2>0, <2>2
    <3>. QED
      BY <1>9, <2>2, <3>1
  <2>3. CASE i % 3 = 0
    <3>1. S(i, 5) = T(i, 5) /\ S(i, 6) = T(i, 6) /\ S(i, 7) = T(i, 7)
      BY <1>8, <2>0, <2>3
    <3>. QED
      BY <1>9, <2>3, <3>1
  <2>. QED
    BY <1>7, <2>1, <2>2, <2>3
<1>12. v = SymbolsToBytes(3, s) /\ w = SymbolsToBytes(3, t)
  BY DEF SymbolsToBytes, v, w
<1>13. v \in [1 .. n -> Byte]
  <2>1. DOMAIN v = 1 .. n /\ v = [i \in 1 .. n |-> v[i]]
    BY <1>6
  <2>. QED
    BY <1>10, <2>1
<1>14. v \in Seq(Byte) /\ Len(v) = n
  BY <1>13, FunctionSeq
<1>. QED
  BY <1>11, <1>12, <1>14 DEF BytesOff

(* With each codec a symbol goes into one byte or two that follow each     *)
(* other.                                                                  *)
LEMMA Off ==
  ASSUME NEW bits \in 1 .. 3, NEW n \in Nat, NEW s \in Seq(Symbol), NEW t \in Seq(Symbol),
         Len(s) = CeilDiv(8 * n, bits), Len(t) = CeilDiv(8 * n, bits), NEW k \in Nat, SameAt(s, t, k)
  PROVE  BytesOff(bits, s, t, k, n)
<1>1. CASE bits = 1
  <2>1. CeilDiv(8 * n, 1) = 8 * n
    BY DEF CeilDiv
  <2>. QED
    BY <1>1, <2>1, Off1
<1>2. CASE bits = 2
  <2>1. CeilDiv(8 * n, 2) = 4 * n
    BY DEF CeilDiv
  <2>. QED
    BY <1>2, <2>1, Off2
<1>3. CASE bits = 3
  BY <1>3, Off3
<1>. QED
  BY <1>1, <1>2, <1>3

(* The bytes of a frame, and the symbols of which they are made.           *)
FrameBytes(bits, s) == (Len(s) * bits) \div 8
Bytes(bits, s) == encrypt_bytes(SymbolsToBytes(bits, SubSeq(s, 1, Truncated(bits, s))))

(* A symbol that is not among those of the CRC word, which are the last    *)
(* that are sent, or is not used at all.                                   *)
SparedAt(bits, k, n) == (k * bits + bits - 1) \div 8 < n - 4 \/ k * bits >= 8 * n

(* Of one other symbol the bytes differ in two that follow each other,     *)
(* behind the CRC word.                                                    *)
LEMMA OneOff ==
  ASSUME NEW bits \in 1 .. 3, NEW s \in Seq(Symbol), NEW t \in Seq(Symbol), Len(s) = Len(t),
         NEW k \in Nat, SameAt(s, t, k), NEW n \in Nat, n = FrameBytes(bits, s), n >= 8, SparedAt(bits, k, n)
  PROVE  /\ Bytes(bits, s) \in Seq(Byte) /\ Len(Bytes(bits, s)) = n
         /\ Bytes(bits, t) \in Seq(Byte) /\ Len(Bytes(bits, t)) = n
         /\ \E j \in Nat : j >= 5 /\ SameBut(Bytes(bits, s), Bytes(bits, t), j)
<1> DEFINE l == CeilDiv(8 * n, bits)   s1 == SubSeq(s, 1, l)   t1 == SubSeq(t, 1, l)
           c == SymbolsToBytes(bits, s1)   d == SymbolsToBytes(bits, t1)
           low == Low(bits, k)   high == High(bits, k)
<1>1. Len(s) \in Nat /\ Len(t) \in Nat
  BY LenProperties
<1>2. l \in Nat /\ l <= Len(s) /\ Truncated(bits, s) = l /\ Truncated(bits, t) = l
  <2>1. Truncated(bits, s) = l /\ Truncated(bits, t) = l
    <3>1. n * 8 = 8 * n
      OBVIOUS
    <3>. QED
      BY <3>1 DEF Truncated, FrameBytes
  <2>2. CASE bits = 1
    BY <1>1, <2>1, <2>2 DEF CeilDiv, FrameBytes
  <2>3. CASE bits = 2
    BY <1>1, <2>1, <2>3 DEF CeilDiv, FrameBytes
  <2>4. CASE bits = 3
    BY <1>1, <2>1, <2>4 DEF CeilDiv, FrameBytes
  <2>. QED
    BY <2>2, <2>3, <2>4
<1> HIDE DEF l
<1>3. /\ s1 \in Seq(Symbol) /\ Len(s1) = l /\ \A i \in 1 .. l : s1[i] = s[i]
      /\ t1 \in Seq(Symbol) /\ Len(t1) = l /\ \A i \in 1 .. l : t1[i] = t[i]
  <2>1. \A i \in 1 .. l : s[i] \in Symbol /\ t[i] \in Symbol
    BY <1>1, <1>2, ElementOfSeq
  <2>2. /\ s1 \in Seq(Symbol) /\ Len(s1) = l /\ \A i \in 1 .. l : s1[i] = s[1 + i - 1]
        /\ t1 \in Seq(Symbol) /\ Len(t1) = l /\ \A i \in 1 .. l : t1[i] = t[1 + i - 1]
    BY <1>2, <2>1, SubSeqProperties
  <2>3. \A i \in 1 .. l : 1 + i - 1 = i
    BY <1>2
  <2>. QED
    BY <2>2, <2>3
<1> HIDE DEF s1, t1
<1>4. SameAt(s1, t1, k) /\ SameAt(t1, s1, k)
  <2>1. ASSUME NEW i \in 1 .. l, i # k + 1 PROVE s1[i] = t1[i]
    <3>1. i \in 1 .. Len(s)
      BY <1>1, <1>2
    <3>2. s[i] = t[i]
      BY <2>1, <3>1 DEF SameAt
    <3>. QED
      BY <1>3, <3>2
  <2>. QED
    BY <1>3, <2>1 DEF SameAt
<1>5. /\ c \in Seq(Byte) /\ Len(c) = n /\ d \in Seq(Byte) /\ Len(d) = n
      /\ \A i \in 1 .. n : i # low /\ i # high => c[i] = d[i]
  <2>1. BytesOff(bits, s1, t1, k, n) /\ BytesOff(bits, t1, s1, k, n)
    BY <1>3, <1>4, Off DEF l
  <2>. QED
    BY <2>1 DEF BytesOff
<1>6. Bytes(bits, s) = encrypt_bytes(c) /\ Bytes(bits, t) = encrypt_bytes(d)
  BY <1>2 DEF Bytes, s1, t1
<1> DEFINE e == encrypt_bytes(c)   f == encrypt_bytes(d)
<1> HIDE DEF c, d
<1>7. /\ e \in Seq(Byte) /\ Len(e) = n /\ f \in Seq(Byte) /\ Len(f) = n
      /\ \A i \in 1 .. n : e[i] = XorByte(c[n + 1 - i], 170) /\ f[i] = XorByte(d[n + 1 - i], 170)
  <2>1. e \in Seq(Byte) /\ Len(e) = n /\ \A i \in 1 .. n : e[i] = XorByte(c[n + 1 - i], 170)
    BY <1>5, EncryptType, SMTT(30)
  <2>2. f \in Seq(Byte) /\ Len(f) = n /\ \A i \in 1 .. n : f[i] = XorByte(d[n + 1 - i], 170)
    BY <1>5, EncryptType, SMTT(30)
  <2>. QED
    BY <2>1, <2>2
<1>8. low \in Nat /\ high \in Nat /\ low <= high /\ high <= low + 1 /\ (high <= n - 4 \/ low > n)
  <2>1. CASE bits = 1
    BY <2>1 DEF Low, High, SparedAt
  <2>2. CASE bits = 2
    BY <2>2 DEF Low, High, SparedAt
  <2>3. CASE bits = 3
    BY <2>3 DEF Low, High, SparedAt
  <2>. QED
    BY <2>1, <2>2, <2>3
<1> HIDE DEF e, f, low, high
<1> DEFINE j == IF low > n THEN 5 ELSE n + 1 - high
<1>9. j \in Nat /\ j >= 5
  BY <1>8
<1>10. ASSUME NEW i \in 1 .. n, i # j, i # j + 1 PROVE e[i] = f[i]
  <2> DEFINE h == n + 1 - i
  <2>1. h \in 1 .. n /\ h # low /\ h # high
    <3>1. CASE low > n
      BY <1>8, <3>1
    <3>2. CASE ~(low > n)
      <4>1. j = n + 1 - high /\ low \in {high, high - 1}
        BY <1>8, <3>2
      <4>2. i # n + 1 - high /\ i # n + 1 - high + 1
        BY <1>10, <4>1
      <4>3. i \in Nat /\ 1 <= i /\ i <= n /\ h = (n + 1) - i
        OBVIOUS
      <4>4. i # (n + 1) - high /\ i # (n + 2) - high /\ high \in Nat /\ low \in Nat /\ (low = high \/ low = high - 1)
        BY <1>8, <4>1, <4>2, SMTT(30)
      <4> HIDE DEF j, h
      <4>5. h \in 1 .. n
        BY <4>3
      <4>6. h # high
        BY <4>3, <4>4
      <4>7. h # low
        <5>1. CASE low = high
          BY <4>6, <5>1
        <5>2. CASE low = high - 1
          <6>1. (n + 1) - i # high - 1
            BY <4>3, <4>4, SMTT(30)
          <6>. QED
            BY <4>3, <5>2, <6>1
        <5>. QED
          BY <4>4, <5>1, <5>2
      <4>. QED
        BY <4>5, <4>6, <4>7
    <3>. QED
      BY <3>1, <3>2
  <2> HIDE DEF h, j
  <2>2. c[h] = d[h]
    BY <1>5, <2>1
  <2>. QED
    BY <1>7, <2>2 DEF h
<1> HIDE DEF j
<1>11. SameBut(e, f, j)
  BY <1>7, <1>10 DEF SameBut
<1>. QED
  BY <1>6, <1>7, <1>9, <1>11 DEF e, f

(* Of two readings that differ in one symbol outside the CRC word, and     *)
(* both pass, the part is the same.                                        *)
LEMMA DecodeTells ==
  ASSUME NEW bits \in 1 .. 3, NEW s \in Seq(Symbol), NEW t \in Seq(Symbol), Len(s) = Len(t),
         NEW k \in Nat, SameAt(s, t, k), NEW n \in Nat, n = FrameBytes(bits, s), n >= 8, SparedAt(bits, k, n),
         Decode(bits, s)[1], Decode(bits, t)[1]
  PROVE  Decode(bits, s) = Decode(bits, t)
<1> DEFINE e == Bytes(bits, s)   f == Bytes(bits, t)
<1>1. Decode(bits, s) = Opened(e) /\ Decode(bits, t) = Opened(f)
  BY DEF Decode, Opened, Bytes
<1>2. e \in Seq(Byte) /\ Len(e) = n /\ f \in Seq(Byte) /\ Len(f) = n
  BY OneOff
<1>3. PICK j \in Nat : j >= 5 /\ SameBut(e, f, j)
  BY OneOff
<1> HIDE DEF e, f
<1>4. Opened(e)[1] /\ Opened(f)[1]
  BY <1>1
<1>5. e = f
  BY <1>2, <1>3, <1>4, OpenedTells
<1>. QED
  BY <1>1, <1>5

-----------------------------------------------------------------------------
(* The cells of the tiles have symbols of their own.                       *)
LEMMA IndexTells ==
  ASSUME NEW d, Dims(d), NEW tx \in 0 .. d[1] - 1, NEW ty \in 0 .. d[2] - 1, NEW x \in 0 .. d[3] - 1, NEW y \in 0 .. d[4] - 1
  PROVE  Place(d, SymbolIndex(d, tx, ty, x, y)) = [x |-> x, y |-> y, tx |-> tx, ty |-> ty]
<1> DEFINE d1 == d[1]   d2 == d[2]   d3 == d[3]   d4 == d[4]   k == SymbolIndex(d, tx, ty, x, y)
           a == At(ty, d1) + tx   c == At(a, d4) + y
<1>1. d1 \in Nat \ {0} /\ d2 \in Nat \ {0} /\ d3 \in Nat \ {0} /\ d4 \in Nat \ {0}
  BY DEF Dims
<1>2. tx \in 0 .. d1 - 1 /\ ty \in 0 .. d2 - 1 /\ x \in 0 .. d3 - 1 /\ y \in 0 .. d4 - 1 /\ ty \in Nat
  BY <1>1
<1>3. k = At(c, d3) + x
  BY DEF SymbolIndex, At
<1>4. Place(d, k) = [x |-> Rem(k, d3), y |-> Rem(Quo(k, d3), d4), tx |-> Rem(Quo(k, At(d3, d4)), d1), ty |-> Quo(k, At(At(d3, d4), d1))]
  BY DEF Place, Rem, Quo, At
<1> HIDE DEF k, d1, d2, d3, d4
<1>5. Quo(a, d1) = ty /\ Rem(a, d1) = tx /\ a \in Nat
  <2>1. At(ty, d1) \in Nat
    BY <1>1, <1>2 DEF At
  <2>. QED
    BY <1>1, <1>2, <2>1, QuoRemIs
<1> HIDE DEF a
<1>6. Quo(c, d4) = a /\ Rem(c, d4) = y /\ c \in Nat
  <2>1. At(a, d4) \in Nat
    BY <1>1, <1>5 DEF At
  <2>. QED
    BY <1>1, <1>2, <1>5, <2>1, QuoRemIs
<1> HIDE DEF c
<1>7. Quo(k, d3) = c /\ Rem(k, d3) = x /\ k \in Nat
  <2>1. At(c, d3) \in Nat
    BY <1>1, <1>6 DEF At
  <2>. QED
    BY <1>1, <1>2, <1>3, <1>6, <2>1, QuoRemIs
<1>8. Quo(k, At(d3, d4)) = a
  BY <1>1, <1>6, <1>7, QuoQuo
<1>9. Quo(k, At(At(d3, d4), d1)) = ty
  <2> DEFINE w == At(d3, d4)
  <2>1. w \in Nat \ {0}
    BY <1>1 DEF At
  <2>2. Quo(k, w) = a
    BY <1>8
  <2> HIDE DEF w
  <2>3. Quo(k, At(w, d1)) = Quo(Quo(k, w), d1)
    BY <1>1, <1>7, <2>1, QuoQuo
  <2>. QED
    BY <1>5, <2>2, <2>3 DEF w
<1>. QED
  BY <1>4, <1>5, <1>6, <1>7, <1>8, <1>9 DEF k

(* One cell, or one symbol, in another colour.                             *)
Seen(img, cell, color) == [img EXCEPT !.at[cell] = color]
Recolored(symbols, k, color) == [symbols EXCEPT ![k + 1] = color]

(* A picture in which the cell of one symbol is seen in another colour is  *)
(* the picture of other symbols.                                           *)
LEMMA SeenAs ==
  ASSUME NEW d, Dims(d), NEW space \in Nat, NEW between, NEW symbols \in Seq(Byte), Len(symbols) = FrameSize(d),
         NEW k \in 0 .. FrameSize(d) - 1, NEW color
  PROVE  Seen(PartImage(d, space, between, symbols), CellOf(d, space, k), color)
           = PartImage(d, space, between, Recolored(symbols, k, color))
<1> DEFINE seen == Recolored(symbols, k, color)
           img == PartImage(d, space, between, symbols)
           other == PartImage(d, space, between, seen)
           cols == Cols(d, space)   rows == Rows(d, space)
           p == Pitch(d[3], space)   q == Pitch(d[4], space)
           spot == CellOf(d, space, k)
           was == Drawn(d, symbols)   is == Drawn(d, seen)
<1>1. d[1] \in Nat \ {0} /\ d[2] \in Nat \ {0} /\ d[3] \in Nat \ {0} /\ d[4] \in Nat \ {0}
  BY DEF Dims
<1>2. FrameSize(d) \in Nat /\ DOMAIN symbols = 1 .. FrameSize(d) /\ k + 1 \in DOMAIN symbols
  BY Counts, LenProperties
<1>3. seen[k + 1] = color /\ \A i \in Int : i # k => seen[i + 1] = symbols[i + 1]
  BY <1>2 DEF Recolored
<1>4. img = [cols |-> cols, rows |-> rows, at |-> img.at] /\ other = [cols |-> cols, rows |-> rows, at |-> other.at]
      /\ img.at = [c \in Cells(cols, rows) |-> img.at[c]] /\ other.at = [c \in Cells(cols, rows) |-> other.at[c]]
  BY DEF PartImage, Layout, Cols, Rows
<1>5. /\ cols \in Nat
      /\ \A px1 \in 1 .. cols - 2 :
            /\ PartWith(px1, p) \in 0 .. d[1] - 1 /\ Offset(px1, p) \in 0 .. p - 1
            /\ px1 = Px(PartWith(px1, p), p, Offset(px1, p))
  BY DimsAxis DEF AxisOf
<1>6. /\ rows \in Nat
      /\ \A px1 \in 1 .. rows - 2 :
            /\ PartWith(px1, q) \in 0 .. d[2] - 1 /\ Offset(px1, q) \in 0 .. q - 1
            /\ px1 = Px(PartWith(px1, q), q, Offset(px1, q))
  BY DimsAxis DEF AxisOf
<1>7. other.at[spot] = color
  <2> HIDE DEF seen
  <2>. QED
    BY <1>3, SymbolShown
<1>8. ASSUME NEW tx \in 0 .. d[1] - 1, NEW ty \in 0 .. d[2] - 1, NEW x \in 0 .. d[3] + 1, NEW y \in 0 .. d[4] + 1,
             <<Px(tx, p, x), Px(ty, q, y)>> # spot
      PROVE  is[<<tx, ty, x, y>>] = was[<<tx, ty, x, y>>]
  <2>1. <<tx, ty, x, y>> \in TileCells(d)
    BY DEF TileCells
  <2> DEFINE x1 == x - 1   y1 == y - 1   i == SymbolIndex(d, tx, ty, x1, y1)
  <2>2. /\ is[<<tx, ty, x, y>>] = IF is_tile_border(d[3], d[4], x, y) THEN BLACK ELSE seen[i + 1]
        /\ was[<<tx, ty, x, y>>] = IF is_tile_border(d[3], d[4], x, y) THEN BLACK ELSE symbols[i + 1]
    BY <2>1 DEF Drawn
  <2> HIDE DEF is, was
  <2>3. CASE ~is_tile_border(d[3], d[4], x, y)
    <3>1. x1 \in 0 .. d[3] - 1 /\ y1 \in 0 .. d[4] - 1 /\ x1 + 1 = x /\ y1 + 1 = y
      <4> DEFINE d3 == d[3]   d4 == d[4]
      <4>1. y # 0 /\ y # d4 + 1 /\ x # 0 /\ x # d3 + 1
        BY <2>3 DEF is_tile_border
      <4>2. d3 \in Nat /\ d4 \in Nat /\ x \in 0 .. d3 + 1 /\ y \in 0 .. d4 + 1
        BY <1>1
      <4> HIDE DEF d3, d4
      <4>3. x \in 1 .. d3 /\ y \in 1 .. d4
        BY <4>1, <4>2
      <4>4. x - 1 \in 0 .. d3 - 1 /\ y - 1 \in 0 .. d4 - 1 /\ (x - 1) + 1 = x /\ (y - 1) + 1 = y
        BY <4>2, <4>3
      <4>. QED
        BY <4>4 DEF d3, d4
    <3> HIDE DEF x1, y1
    <3>2. i \in 0 .. FrameSize(d) - 1
      BY <3>1, SymbolIndexType
    <3>3. Place(d, i) = [x |-> x1, y |-> y1, tx |-> tx, ty |-> ty]
      BY <3>1, IndexTells
    <3>4. CellOf(d, space, i) = <<Px(tx, p, x1 + 1), Px(ty, q, y1 + 1)>>
      <4> DEFINE at == Place(d, i)
      <4>1. at.x = x1 /\ at.y = y1 /\ at.tx = tx /\ at.ty = ty
        BY <3>3
      <4> HIDE DEF at, i
      <4>2. CellOf(d, space, i) = <<Px(at.tx, p, at.x + 1), Px(at.ty, q, at.y + 1)>>
        BY <3>2, CellOfIs DEF at
      <4>. QED
        BY <4>1, <4>2
    <3>5. i # k
      <4> HIDE DEF i
      <4>. QED
        BY <1>8, <3>1, <3>4
    <3>6. i \in Int
      BY <1>2, <3>2
    <3> HIDE DEF i, seen
    <3>7. seen[i + 1] = symbols[i + 1]
      BY <1>3, <3>5, <3>6
    <3>. QED
      BY <2>2, <2>3, <3>7
  <2>. QED
    BY <2>2, <2>3
<1>9. ASSUME NEW px \in 0 .. cols - 1, NEW py \in 0 .. rows - 1, <<px, py>> # spot
      PROVE  other.at[<<px, py>>] = img.at[<<px, py>>]
  <2>1. <<px, py>> \in Cells(cols, rows)
    BY DEF Cells
  <2> DEFINE tx == PartWith(px, p)   ty == PartWith(py, q)   x == Offset(px, p)   y == Offset(py, q)
  <2>2. img.at[<<px, py>>] =
          IF px \in {0, cols - 1} \/ py \in {0, rows - 1} THEN WHITE
          ELSE IF x > d[3] + 1 \/ y > d[4] + 1 THEN between ELSE was[<<tx, ty, x, y>>]
    <3>1. img = Layout(d, space, between, was)
      BY DEF PartImage
    <3> HIDE DEF img, was
    <3>. QED
      BY <2>1, <3>1, LayoutAt
  <2>3. other.at[<<px, py>>] =
          IF px \in {0, cols - 1} \/ py \in {0, rows - 1} THEN WHITE
          ELSE IF x > d[3] + 1 \/ y > d[4] + 1 THEN between ELSE is[<<tx, ty, x, y>>]
    <3>1. other = Layout(d, space, between, is)
      BY DEF PartImage
    <3> HIDE DEF other, is
    <3>. QED
      BY <2>1, <3>1, LayoutAt
  <2> HIDE DEF img, other, is, was, spot
  <2>4. CASE ~(px \in {0, cols - 1} \/ py \in {0, rows - 1}) /\ ~(x > d[3] + 1 \/ y > d[4] + 1)
    <3>1. px \in 1 .. cols - 2 /\ py \in 1 .. rows - 2
      <4> HIDE DEF cols, rows
      <4>. QED
        BY <1>5, <1>6, <2>4
    <3>2. /\ tx \in 0 .. d[1] - 1 /\ ty \in 0 .. d[2] - 1 /\ x \in 0 .. p - 1 /\ y \in 0 .. q - 1
          /\ px = Px(tx, p, x) /\ py = Px(ty, q, y)
      <4> HIDE DEF cols, rows, p, q
      <4>. QED
        BY <1>5, <1>6, <3>1
    <3> HIDE DEF tx, ty, x, y, p, q
    <3>3. x \in 0 .. d[3] + 1 /\ y \in 0 .. d[4] + 1
      <4> DEFINE d3 == d[3]   d4 == d[4]
      <4>1. x \in Nat /\ y \in Nat /\ d3 \in Nat /\ d4 \in Nat
        BY <1>1, <3>2, SMTT(30)
      <4>2. ~(x > d3 + 1) /\ ~(y > d4 + 1)
        BY <2>4
      <4> HIDE DEF d3, d4
      <4>3. x \in 0 .. d3 + 1 /\ y \in 0 .. d4 + 1
        BY <4>1, <4>2
      <4>. QED
        BY <4>3 DEF d3, d4
    <3>4. is[<<tx, ty, x, y>>] = was[<<tx, ty, x, y>>]
      BY <1>8, <1>9, <3>2, <3>3
    <3>. QED
      BY <2>2, <2>3, <3>4
  <2>. QED
    BY <2>2, <2>3, <2>4
<1>11. Seen(img, spot, color) = [cols |-> cols, rows |-> rows, at |-> [c \in Cells(cols, rows) |-> IF c = spot THEN color ELSE img.at[c]]]
  <2> HIDE DEF img, spot, cols, rows
  <2>1. Seen(img, spot, color) = [img EXCEPT !.at = [@ EXCEPT ![spot] = color]]
    BY DEF Seen
  <2>2. [img.at EXCEPT ![spot] = color] = [c \in Cells(cols, rows) |-> IF c = spot THEN color ELSE img.at[c]]
    <3> DEFINE at == img.at
    <3>1. at = [c \in Cells(cols, rows) |-> at[c]]
      BY <1>4
    <3> HIDE DEF at
    <3>2. DOMAIN at = Cells(cols, rows)
      BY <3>1
    <3>. QED
      BY <3>2 DEF at
  <2>3. [img EXCEPT !.at = [img.at EXCEPT ![spot] = color]] = [cols |-> cols, rows |-> rows, at |-> [img.at EXCEPT ![spot] = color]]
    <3> DEFINE at == img.at   new == [img.at EXCEPT ![spot] = color]
    <3>1. img = [cols |-> cols, rows |-> rows, at |-> at]
      BY <1>4
    <3> HIDE DEF at, new
    <3>2. [img EXCEPT !.at = new] = [cols |-> cols, rows |-> rows, at |-> new]
      BY <3>1
    <3>. QED
      BY <3>2 DEF new
  <2>. QED
    BY <2>1, <2>2, <2>3
<1>12. \A c \in Cells(cols, rows) : other.at[c] = IF c = spot THEN color ELSE img.at[c]
  <2>1. ASSUME NEW c \in Cells(cols, rows) PROVE other.at[c] = IF c = spot THEN color ELSE img.at[c]
    <3>1. c[1] \in 0 .. cols - 1 /\ c[2] \in 0 .. rows - 1 /\ c = <<c[1], c[2]>>
      BY DEF Cells
    <3> DEFINE px == c[1]   py == c[2]
    <3> HIDE DEF other, img, spot, px, py, cols, rows
    <3>2. px \in 0 .. cols - 1 /\ py \in 0 .. rows - 1 /\ c = <<px, py>>
      BY <3>1 DEF px, py
    <3>. QED
      BY <1>7, <1>9, <3>2
  <2>. QED
    BY <2>1
<1> HIDE DEF img, other, spot, cols, rows
<1>13. other.at = [c \in Cells(cols, rows) |-> IF c = spot THEN color ELSE img.at[c]]
  <2> DEFINE at == other.at
  <2>1. at = [c \in Cells(cols, rows) |-> at[c]]
    BY <1>4
  <2>2. \A c \in Cells(cols, rows) : at[c] = IF c = spot THEN color ELSE img.at[c]
    BY <1>12
  <2> HIDE DEF at
  <2>3. at = [c \in Cells(cols, rows) |-> IF c = spot THEN color ELSE img.at[c]]
    BY <2>1, <2>2
  <2>. QED
    BY <2>3 DEF at
<1>14. Seen(img, spot, color) = other
  BY <1>4, <1>11, <1>13
<1>. QED
  BY <1>14 DEF img, other, spot

-----------------------------------------------------------------------------
(* A part's image, as it is sent, fetched and decoded.                     *)
SpacesOf(d) == IF HasSpaces(d) THEN Memory \cup {WHITE} ELSE {WHITE}
Message(id, between) ==
  img_to_msg_bytes(generate_part_image(dim, setup.space, between, b, id, PartOf(RawBytes, PartByteNum, id)))
Centers == Calibrate(PositionPage(dim, setup.space), dim)
Symbols(id) == Encode(b, Halves(id), PartOf(RawBytes, PartByteNum, id), FrameSize(dim))

(* A part that is sent is a whole part, its number a word.                 *)
LEMMA PartType ==
  ASSUME setup \in Setups, NEW id \in 0 .. PartNum - 1
  PROVE  /\ PartOf(RawBytes, PartByteNum, id) \in Seq(Byte)
         /\ Len(PartOf(RawBytes, PartByteNum, id)) = PartByteNum
         /\ Halves(id) \in Uint32
<1>1. PartNum \in 1 .. MaxInt /\ RawBytes \in Seq(Byte) /\ Len(RawBytes) = At(PartNum, PartByteNum)
  BY RawType
<1>2. PartByteNum \in Nat /\ PartNum \in Nat /\ id \in 0 .. MaxInt
  BY <1>1, SetupType, MaxIntType
<1>3. IsPart(RawBytes, PartByteNum, id)
  BY <1>1, <1>2, PartOfType
<1>4. Halves(id) \in Uint32
  BY <1>2, IntType
<1>. QED
  BY <1>3, <1>4 DEF IsPart

(* The symbols of a part are decoded as the part.                          *)
LEMMA SymbolsRead ==
  ASSUME setup \in Setups, NEW id \in 0 .. PartNum - 1
  PROVE  /\ Symbols(id) \in Seq(SymbolsOf(b)) /\ Symbols(id) \in Seq(Byte) /\ Len(Symbols(id)) = FrameSize(dim)
         /\ Symbols(id) # None
         /\ Decode(b, Symbols(id)) = <<TRUE, Halves(id), PartOf(RawBytes, PartByteNum, id)>>
<1> DEFINE n == FrameSize(dim)
           part == PartOf(RawBytes, PartByteNum, id)
           s == Symbols(id)
<1>1. b \in 1 .. 3 /\ dim \in [1 .. 4 -> 1 .. MaxInt] /\ PartByteNum \in Nat /\ PartByteNum >= 8
  BY SetupType
<1>2. Dims(dim)
  BY <1>1, MaxIntType DEF Dims
<1>3. n \in Nat /\ n >= 1
  BY <1>2, Counts
<1>4. part \in Seq(Byte) /\ Len(part) = PartByteNum /\ Halves(id) \in Uint32
  BY PartType
<1>5. PartByteNum = (n * b) \div 8 - META_BYTE_NUM
  BY DEF PartByteNum, get_part_byte_num, b, dim
<1> HIDE DEF n, part
<1>6. (META_BYTE_NUM + Len(part)) * 8 <= n * b
  <2>1. n * b \in Nat
    BY <1>1, <1>3
  <2>. QED
    BY <1>4, <1>5, <2>1 DEF META_BYTE_NUM
<1>7. s = Encode(b, Halves(id), part, n)
  BY DEF Symbols, n, part
<1>8. s \in Seq(SymbolsOf(b)) /\ Len(s) = n /\ Decode(b, s) = <<TRUE, Halves(id), Resized(part, PartByteNum)>>
  <2> DEFINE e == Encode(b, Halves(id), part, n)
  <2>1. e \in Seq(SymbolsOf(b))
    BY <1>1, <1>3, <1>4, <1>6, DecodeOfEncode
  <2>2. Len(e) = n
    BY <1>1, <1>3, <1>4, <1>6, DecodeOfEncode
  <2>3. Decode(b, e) = <<TRUE, Halves(id), Resized(part, (n * b) \div 8 - META_BYTE_NUM)>>
    BY <1>1, <1>3, <1>4, <1>6, DecodeOfEncode
  <2> HIDE DEF e
  <2>4. Decode(b, e) = <<TRUE, Halves(id), Resized(part, PartByteNum)>>
    BY <1>5, <2>3
  <2>. QED
    BY <1>7, <2>1, <2>2, <2>4 DEF e
<1>9. Resized(part, PartByteNum) = part
  <2>1. part = [i \in 1 .. PartByteNum |-> part[i]]
    BY <1>4, LenProperties
  <2>2. \A i \in 1 .. PartByteNum : i <= Len(part)
    BY <1>1, <1>4
  <2>. QED
    BY <2>1, <2>2 DEF Resized
<1> HIDE DEF s
<1>10. s \in Seq(Byte)
  <2>1. \A v \in SymbolsOf(b) : v \in Byte
    BY <1>1 DEF SymbolsOf, Byte
  <2>2. s \in [1 .. n -> SymbolsOf(b)]
    BY <1>8, LenProperties
  <2>3. s \in [1 .. n -> Byte]
    BY <2>1, <2>2
  <2>. QED
    BY <1>3, <2>3, FunctionSeq
<1>11. s # None
  BY <1>3, <1>8 DEF None
<1>. QED
  BY <1>8, <1>9, <1>10, <1>11 DEF s, n, part

(* The image that is fetched is the one that was drawn.                    *)
LEMMA MessageRead ==
  ASSUME setup \in Setups, NEW id \in 0 .. PartNum - 1, NEW between \in SpacesOf(dim)
  PROVE  FromPng(FetchData(Message(id, between))) = PartImage(dim, setup.space, between, Symbols(id))
<1> DEFINE s == Symbols(id)
           cell == Drawn(dim, s)
           img == PartImage(dim, setup.space, between, s)
<1>1. b \in 1 .. 3 /\ dim \in [1 .. 4 -> 1 .. MaxInt]
  BY SetupType
<1>2. Dims(dim)
  BY <1>1, MaxIntType DEF Dims
<1>3. setup.space \in Nat /\ 2 * (Cols(dim, setup.space) * Rows(dim, setup.space) + 8) <= MaxInt
  BY ImageTransferAssumption DEF Cols, Rows, dim
<1>4. between \in Byte
  BY ImageTransferAssumption DEF SpacesOf, Colors, Byte, WHITE
<1>5. cell \in [TileCells(dim) -> Byte]
  BY <1>2, SymbolsRead, DrawnType
<1>6. Message(id, between) = img_to_msg_bytes(img)
  BY DEF Message, Symbols, generate_part_image, PartImage, Drawn
<1> HIDE DEF s
<1>7. img = Layout(dim, setup.space, between, cell)
  BY DEF PartImage
<1> HIDE DEF cell, img
<1>8. Picture(img, Cols(dim, setup.space), Rows(dim, setup.space))
  BY <1>2, <1>3, <1>4, <1>5, <1>7, LayoutPicture
<1>9. FromPng(FetchData(img_to_msg_bytes(img))) = img
  BY <1>8, MessageBack
<1>. QED
  BY <1>6, <1>9 DEF img, s

(* What is seen is read: with a calibration in any case, and without one   *)
(* when the spaces between the tiles, if there are any, look white.        *)
LEMMA ReadBack ==
  ASSUME setup \in Setups, NEW id \in 0 .. PartNum - 1, NEW between \in SpacesOf(dim), NEW cal \in {None, Centers}
  PROVE  DecodeImage(FromPng(FetchData(Message(id, between))), b, dim, cal) =
           IF cal = None /\ between \in Dark THEN Failed
           ELSE <<TRUE, Halves(id), PartOf(RawBytes, PartByteNum, id)>>
<1> DEFINE s == Symbols(id)
           img == PartImage(dim, setup.space, between, s)
<1>1. b \in 1 .. 3 /\ dim \in [1 .. 4 -> 1 .. MaxInt]
  BY SetupType
<1>2. Dims(dim)
  BY <1>1, MaxIntType DEF Dims
<1>3. setup.space \in Nat /\ (setup.space > 0 \/ ~HasSpaces(dim))
  BY ImageTransferAssumption DEF dim
<1>4. FromPng(FetchData(Message(id, between))) = img
  BY MessageRead
<1>5. /\ s \in Seq(SymbolsOf(b)) /\ Len(s) = FrameSize(dim) /\ s # None
      /\ Decode(b, s) = <<TRUE, Halves(id), PartOf(RawBytes, PartByteNum, id)>>
  BY SymbolsRead
<1> HIDE DEF s
<1>6. CalibratedSymbols(img, b, Centers) = s
  BY <1>1, <1>2, <1>3, <1>5, CalibratedReading DEF Centers
<1>7. between \notin Dark => TileSymbols(img, b, dim) = s
  BY <1>1, <1>2, <1>3, <1>5, TileReading
<1>8. between \in Dark => HasSpaces(dim)
  BY DarkAssumption DEF SpacesOf
<1>9. between \in Dark => TileSymbols(img, b, dim) = None
  BY <1>2, <1>3, <1>8, NoTiles
<1> HIDE DEF img
<1>10. CASE cal # None
  <2>1. DecodeImage(img, b, dim, cal) = Decode(b, s)
    BY <1>5, <1>6, <1>10 DEF DecodeImage
  <2>. QED
    BY <1>4, <1>5, <1>10, <2>1
<1>11. CASE cal = None /\ between \notin Dark
  <2>1. DecodeImage(img, b, dim, cal) = Decode(b, s)
    BY <1>5, <1>7, <1>11 DEF DecodeImage
  <2>. QED
    BY <1>4, <1>5, <1>11, <2>1
<1>12. CASE cal = None /\ between \in Dark
  <2>1. DecodeImage(img, b, dim, cal) = Failed
    BY <1>9, <1>12 DEF DecodeImage
  <2>. QED
    BY <1>4, <1>12, <2>1
<1>. QED
  BY <1>10, <1>11, <1>12

(* The cells that are not among those of the CRC word.                     *)
Spared(s, k) == k < FrameSize(s.dim) => SparedAt(s.b, k, (FrameSize(s.dim) * s.b) \div 8)

(* The part that is read where one cell is seen in another colour is the   *)
(* part that was sent, or fails its CRC.                                   *)
LEMMA ReadOff ==
  ASSUME setup \in Setups, NEW id \in 0 .. PartNum - 1, NEW between \in SpacesOf(dim), NEW cal \in {None, Centers},
         NEW k \in 0 .. FrameSize(dim) - 1, NEW color \in Colors, Spared(setup, k),
         NEW result, result[1],
         result = DecodeImage(Seen(FromPng(FetchData(Message(id, between))), CellOf(dim, setup.space, k), color), b, dim, cal)
  PROVE  result = <<TRUE, Halves(id), PartOf(RawBytes, PartByteNum, id)>>
<1> DEFINE s == Symbols(id)
           seen == Recolored(s, k, color)
           t == Pixelized(dim, b, seen)
           img == PartImage(dim, setup.space, between, seen)
           n == FrameBytes(b, s)
<1>1. b \in 1 .. 3 /\ dim \in [1 .. 4 -> 1 .. MaxInt] /\ PartByteNum >= 8
  BY SetupType
<1>2. Dims(dim)
  BY <1>1, MaxIntType DEF Dims
<1>3. setup.space \in Nat /\ (setup.space > 0 \/ ~HasSpaces(dim))
  BY ImageTransferAssumption DEF dim
<1>4. /\ s \in Seq(SymbolsOf(b)) /\ s \in Seq(Byte) /\ Len(s) = FrameSize(dim)
      /\ Decode(b, s) = <<TRUE, Halves(id), PartOf(RawBytes, PartByteNum, id)>>
  BY SymbolsRead
<1>5. FrameSize(dim) \in Nat /\ FrameSize(dim) >= 1
  BY <1>2, Counts
<1>6. Seen(FromPng(FetchData(Message(id, between))), CellOf(dim, setup.space, k), color) = img
  <2> HIDE DEF s
  <2>1. FromPng(FetchData(Message(id, between))) = PartImage(dim, setup.space, between, s)
    BY MessageRead DEF s
  <2> DEFINE space == setup.space   was == PartImage(dim, space, between, s)
  <2>2. Dims(dim) /\ space \in Nat /\ s \in Seq(Byte) /\ Len(s) = FrameSize(dim)
    BY <1>2, <1>3, <1>4
  <2> HIDE DEF space
  <2>3. Seen(was, CellOf(dim, space, k), color) = PartImage(dim, space, between, Recolored(s, k, color))
    BY <2>2, SeenAs
  <2>. QED
    BY <2>1, <2>3 DEF space
<1> HIDE DEF s
<1>7. \A i \in 1 .. FrameSize(dim) : s[i] \in SymbolsOf(b) /\ (i # k + 1 => seen[i] = s[i]) /\ (i = k + 1 => seen[i] = color)
  <2>1. DOMAIN s = 1 .. FrameSize(dim)
    BY <1>4, LenProperties
  <2>. QED
    BY <1>4, <2>1, ElementOfSeq DEF Recolored
<1> HIDE DEF seen
<1>8. \A c \in Colors : do_pixelize(b, c) \in Symbol
  <2>1. CASE b = 1
    BY <2>1 DEF do_pixelize, Symbol, BLACK, WHITE
  <2>2. CASE b = 2
    BY <2>2 DEF do_pixelize, Symbol, RED, Colors
  <2>3. CASE b = 3
    BY <2>3 DEF do_pixelize, Symbol, Colors
  <2>. QED
    BY <1>1, <2>1, <2>2, <2>3
<1>9. \A c \in SymbolsOf(b) : c \in Colors /\ c \in Symbol /\ do_pixelize(b, c) = c
  <2>1. \A c \in SymbolsOf(b) : c \in Colors /\ c \in Symbol
    BY <1>1 DEF SymbolsOf, Colors, Symbol
  <2>. QED
    BY <1>1, <2>1, PixelizeIs
<1>10. t \in Seq(Symbol) /\ Len(t) = FrameSize(dim) /\ \A i \in 1 .. FrameSize(dim) : t[i] = do_pixelize(b, seen[i])
  <2>1. \A i \in 1 .. FrameSize(dim) : seen[i] \in Colors
    BY <1>7, <1>9
  <2>2. t \in [1 .. FrameSize(dim) -> Symbol]
    BY <1>8, <2>1 DEF Pixelized
  <2>. QED
    BY <1>5, <2>2, FunctionSeq DEF Pixelized
<1> HIDE DEF t
<1>11. s \in Seq(Symbol)
  <2>1. s \in [1 .. FrameSize(dim) -> Symbol]
    BY <1>4, <1>7, <1>9, LenProperties
  <2>. QED
    BY <1>5, <2>1, FunctionSeq
<1>12. SameAt(s, t, k)
  BY <1>4, <1>7, <1>9, <1>10 DEF SameAt
<1>13. n \in Nat /\ n >= 8 /\ SparedAt(b, k, n) /\ k \in Nat
  <2>1. n = (FrameSize(dim) * b) \div 8 /\ PartByteNum = n - 8
    BY <1>4 DEF FrameBytes, PartByteNum, get_part_byte_num, b, dim, META_BYTE_NUM
  <2>2. n \in Int
    <3>1. FrameSize(dim) * b \in Nat
      BY <1>1, <1>5
    <3> DEFINE m == FrameSize(dim) * b
    <3>2. m \in Nat
      BY <3>1
    <3> HIDE DEF m, n
    <3>3. n = m \div 8
      BY <2>1 DEF m
    <3>. QED
      BY <3>2, <3>3
  <2>3. k \in Nat /\ k < FrameSize(dim)
    BY <1>5
  <2>4. SparedAt(b, k, n)
    BY <2>1, <2>3 DEF Spared, b, dim
  <2> HIDE DEF n
  <2>. QED
    BY <1>1, <2>1, <2>2, <2>3, <2>4
<1> HIDE DEF n
<1>14. t # None
  BY <1>5, <1>10 DEF None
<1>15. result = DecodeImage(img, b, dim, cal)
  BY <1>6
<1>16. CalibratedSymbols(img, b, Centers) = t
  BY <1>2, <1>3, CalibratedColors DEF Centers, t
<1>17. between \notin Dark => TileSymbols(img, b, dim) = t
  BY <1>2, <1>3, TileColors DEF t
<1>18. between \in Dark => TileSymbols(img, b, dim) = None
  <2>1. between \in Dark => HasSpaces(dim)
    BY DarkAssumption DEF SpacesOf
  <2>. QED
    BY <1>2, <1>3, <2>1, NoTiles
<1> HIDE DEF img
<1>19. ~(cal = None /\ between \in Dark)
  <2>1. ASSUME cal = None, between \in Dark PROVE FALSE
    <3>1. result = Failed
      BY <1>15, <1>18, <2>1 DEF DecodeImage
    <3>. QED
      BY <3>1 DEF Failed
  <2>. QED
    BY <2>1
<1>20. result = Decode(b, t)
  <2>1. CASE cal # None
    BY <1>14, <1>15, <1>16, <2>1 DEF DecodeImage
  <2>2. CASE cal = None
    BY <1>14, <1>15, <1>17, <1>19, <2>2 DEF DecodeImage
  <2>. QED
    BY <2>1, <2>2
<1>21. Decode(b, s)[1] /\ Decode(b, t)[1]
  BY <1>4, <1>20
<1>22. Decode(b, s) = Decode(b, t)
  BY <1>1, <1>4, <1>10, <1>11, <1>12, <1>13, <1>21, DecodeTells DEF n
<1>. QED
  BY <1>4, <1>20, <1>22

-----------------------------------------------------------------------------
(* What is known of the image on its way: the message is the image of the  *)
(* part the generator is at, the calibration is none or the right one, and *)
(* a frame the camera did not get wrong is what the reading of it gives.   *)
SeenInv ==
  /\ setup \in Setups
  /\ calibration \in {None, Centers}
  /\ cur_part_id \in 0 .. PartNum
  /\ spaces \in SpacesOf(dim)
  /\ misread \in 0 .. MaxMisread
  /\ socket # None => cur_part_id \in 1 .. PartNum /\ socket = Message(cur_part_id - 1, spaces)
  /\ frame # None => cur_part_id \in 1 .. PartNum
  /\ SeenIsRead

(* A behaviour begins with nothing sent or seen,                           *)
LEMMA SeenInit ==
  ASSUME Init
  PROVE  SeenInv
<1>1. setup \in Setups /\ calibration = None /\ cur_part_id = 0 /\ spaces = WHITE /\ socket = None /\ frame = None /\ misread = 0
  BY DEF Init
<1>2. PartNum \in Nat
  BY <1>1, RawType, MaxIntType
<1>3. misread \in 0 .. MaxMisread
  BY <1>1, ImageTransferAssumption
<1>4. spaces \in SpacesOf(dim)
  BY <1>1 DEF SpacesOf
<1>. QED
  BY <1>1, <1>2, <1>3, <1>4 DEF SeenInv, SeenIsRead

(* ... and every step keeps what is known of the image on its way.         *)
LEMMA SeenStep ==
  ASSUME SeenInv, [Next]_vars
  PROVE  SeenInv'
<1>1. /\ setup \in Setups /\ calibration \in {None, Centers} /\ cur_part_id \in 0 .. PartNum /\ spaces \in SpacesOf(dim)
      /\ misread \in 0 .. MaxMisread
      /\ socket # None => cur_part_id \in 1 .. PartNum /\ socket = Message(cur_part_id - 1, spaces)
      /\ frame # None => cur_part_id \in 1 .. PartNum
  BY DEF SeenInv
<1>2. MaxMisread \in Nat /\ PartNum \in Nat /\ PartNum >= 1
  <2>1. PartNum \in Nat /\ PartNum >= 1
    BY <1>1, RawType, MaxIntType
  <2>. QED
    BY <2>1, ImageTransferAssumption
<1>3. UNCHANGED setup
  BY DEF Next, CalibrateFirst, SendImage, ReceiveImage, MisreadImage, SavePart, vars
<1>4. /\ PartNum' = PartNum /\ PartByteNum' = PartByteNum /\ RawBytes' = RawBytes /\ b' = b /\ dim' = dim
      /\ Centers' = Centers /\ SpacesOf(dim)' = SpacesOf(dim) /\ \A i, s : Message(i, s)' = Message(i, s)
  <2>1. PartNum' = PartNum /\ PartByteNum' = PartByteNum /\ RawBytes' = RawBytes /\ b' = b /\ dim' = dim
    BY <1>3, SameSetup
  <2>. QED
    BY <1>3, <2>1 DEF Centers, SpacesOf, Message
<1>5. CASE CalibrateFirst
  <2>1. calibration' = Centers /\ frame' = None /\ socket' = None
        /\ UNCHANGED <<cur_part_id, spaces, misread>>
    BY <1>5 DEF CalibrateFirst, Centers
  <2>. QED
    BY <1>1, <1>3, <1>4, <2>1 DEF SeenInv, SeenIsRead
<1>6. CASE SendImage
  <2> DEFINE id == IF cur_part_id = PartNum THEN 0 ELSE cur_part_id
  <2>1. /\ frame' = None /\ UNCHANGED <<calibration, misread>>
        /\ spaces' \in IF HasSpaces(dim) THEN Memory ELSE {WHITE}
        /\ socket' = img_to_msg_bytes(generate_part_image(dim, setup.space, spaces', b, id, PartOf(RawBytes, PartByteNum, id)))
        /\ cur_part_id' = id + 1
    BY <1>6 DEF SendImage
  <2>2. cur_part_id' \in 1 .. PartNum /\ cur_part_id' - 1 = id
    BY <1>1, <1>2, <2>1
  <2>3. socket' = Message(id, spaces')
    BY <2>1 DEF Message
  <2>4. spaces' \in SpacesOf(dim)
    BY <2>1 DEF SpacesOf
  <2> HIDE DEF id
  <2>5. socket' = Message(cur_part_id' - 1, spaces')
    BY <2>2, <2>3
  <2>6. /\ setup' \in Setups /\ calibration' \in {None, Centers} /\ cur_part_id' \in 0 .. PartNum
        /\ misread' \in 0 .. MaxMisread
    BY <1>1, <1>2, <1>3, <2>1, <2>2
  <2>. QED
    BY <1>4, <2>1, <2>2, <2>4, <2>5, <2>6 DEF SeenInv, SeenIsRead
<1>7. CASE ReceiveImage
  <2>1. /\ socket # None /\ frame' = DecodeImage(FromPng(FetchData(socket)), b, dim, calibration) /\ socket' = None
        /\ UNCHANGED <<calibration, cur_part_id, spaces, misread>>
    BY <1>7 DEF ReceiveImage, Decoded
  <2> DEFINE id == cur_part_id - 1
  <2>2. id \in 0 .. PartNum - 1 /\ cur_part_id \in 1 .. PartNum /\ socket = Message(id, spaces)
    BY <1>1, <1>2, <2>1
  <2> HIDE DEF id
  <2>3. frame' = IF calibration = None /\ spaces \in Dark THEN Failed
                 ELSE <<TRUE, Halves(id), PartOf(RawBytes, PartByteNum, id)>>
    BY <1>1, <2>1, <2>2, ReadBack
  <2>4. SeenIsRead'
    BY <1>4, <2>1, <2>3 DEF SeenIsRead, id
  <2>. QED
    BY <1>1, <1>3, <1>4, <2>1, <2>2, <2>4 DEF SeenInv
<1>8. CASE MisreadImage
  <2>1. /\ socket # None /\ misread < MaxMisread /\ misread' = misread + 1 /\ socket' = None
        /\ UNCHANGED <<calibration, cur_part_id, spaces>>
    BY <1>8 DEF MisreadImage
  <2>2. misread' \in 0 .. MaxMisread /\ misread' # 0
    BY <1>1, <1>2, <2>1
  <2>3. SeenIsRead'
    BY <2>2 DEF SeenIsRead
  <2>. QED
    BY <1>1, <1>3, <1>4, <2>1, <2>2, <2>3 DEF SeenInv
<1>9. CASE SavePart
  <2>1. frame' = None /\ UNCHANGED <<calibration, cur_part_id, spaces, socket, misread>>
    BY <1>9 DEF SavePart
  <2>. QED
    BY <1>1, <1>3, <1>4, <2>1 DEF SeenInv, SeenIsRead
<1>10. CASE UNCHANGED vars
  <2>1. UNCHANGED <<calibration, cur_part_id, spaces, socket, frame, misread>>
    BY <1>10 DEF vars
  <2>. QED
    BY <1>1, <1>3, <1>4, <2>1 DEF SeenInv, SeenIsRead
<1>. QED
  BY <1>5, <1>6, <1>7, <1>8, <1>9, <1>10 DEF Next

(* A frame the camera did not get wrong passes its CRC only with the part  *)
(* that was sent.                                                          *)
LEMMA SeenTells ==
  ASSUME SeenInv, misread = 0
  PROVE  CrcTells
<1> SUFFICES ASSUME frame # None /\ frame[1]
             PROVE  \E id \in 0 .. PartNum - 1 : frame = <<TRUE, Halves(id), PartOf(RawBytes, PartByteNum, id)>>
  BY DEF CrcTells
<1>1. cur_part_id \in 1 .. PartNum /\ setup \in Setups
  BY DEF SeenInv
<1> DEFINE id == cur_part_id - 1
<1>2. PartNum \in Nat
  BY <1>1, RawType, MaxIntType
<1>3. id \in 0 .. PartNum - 1
  BY <1>1, <1>2
<1>4. frame = IF calibration = None /\ spaces \in Dark THEN Failed
              ELSE <<TRUE, Halves(id), PartOf(RawBytes, PartByteNum, id)>>
  BY DEF SeenInv, SeenIsRead
<1> HIDE DEF id
<1>5. frame # Failed
  <2>1. Failed[1] = FALSE
    BY DEF Failed
  <2>. QED
    BY <2>1
<1>. QED
  BY <1>3, <1>4, <1>5

(* The camera is not wrong about the cells of the CRC word.                *)
CrcSpared == \A s \in Setups, k \in MisreadAt : Spared(s, k)

(* Then every step keeps that a frame that passes its CRC is one that was  *)
(* sent: of a frame that is seen right because it is read, of one that is  *)
(* seen wrong because the CRC tells.                                       *)
LEMMA TellStep ==
  ASSUME CrcSpared, SeenInv, CrcTells, [Next]_vars
  PROVE  CrcTells'
<1>1. /\ setup \in Setups /\ calibration \in {None, Centers} /\ spaces \in SpacesOf(dim)
      /\ socket # None => cur_part_id \in 1 .. PartNum /\ socket = Message(cur_part_id - 1, spaces)
  BY DEF SeenInv
<1>2. PartNum \in Nat
  BY <1>1, RawType, MaxIntType
<1>3. UNCHANGED setup
  BY DEF Next, CalibrateFirst, SendImage, ReceiveImage, MisreadImage, SavePart, vars
<1>4. PartNum' = PartNum /\ PartByteNum' = PartByteNum /\ RawBytes' = RawBytes
  BY <1>3, SameSetup
<1>5. ASSUME frame' = None PROVE CrcTells'
  BY <1>5 DEF CrcTells
<1>6. ASSUME NEW id \in 0 .. PartNum - 1,
             frame'[1] => frame' = <<TRUE, Halves(id), PartOf(RawBytes, PartByteNum, id)>>
      PROVE  CrcTells'
  BY <1>4, <1>6 DEF CrcTells
<1> DEFINE id == cur_part_id - 1
<1>7. socket # None => id \in 0 .. PartNum - 1 /\ socket = Message(id, spaces)
  BY <1>1, <1>2
<1> HIDE DEF id
<1>8. CASE CalibrateFirst
  BY <1>5, <1>8 DEF CalibrateFirst
<1>9. CASE SendImage
  BY <1>5, <1>9 DEF SendImage
<1>10. CASE ReceiveImage
  <2>1. socket # None /\ frame' = DecodeImage(FromPng(FetchData(socket)), b, dim, calibration)
    BY <1>10 DEF ReceiveImage, Decoded
  <2>2. frame' = IF calibration = None /\ spaces \in Dark THEN Failed
                 ELSE <<TRUE, Halves(id), PartOf(RawBytes, PartByteNum, id)>>
    BY <1>1, <1>7, <2>1, ReadBack
  <2>3. Failed[1] = FALSE
    BY DEF Failed
  <2>. QED
    BY <1>6, <1>7, <2>1, <2>2, <2>3
<1>11. CASE MisreadImage
  <2>1. socket # None
    BY <1>11 DEF MisreadImage
  <2>2. PICK k \in MisreadAt, color \in Colors :
           /\ k < FrameSize(dim)
           /\ frame' = DecodeImage(Seen(FromPng(FetchData(socket)), CellOf(dim, setup.space, k), color), b, dim, calibration)
    BY <1>11 DEF MisreadImage, Decoded, Seen
  <2>3. k \in 0 .. FrameSize(dim) - 1
    <3>1. k \in Nat
      BY ImageTransferAssumption
    <3>2. FrameSize(dim) \in Nat
      <4>1. dim \in [1 .. 4 -> 1 .. MaxInt]
        BY <1>1, SetupType
      <4>2. Dims(dim)
        BY <4>1, MaxIntType DEF Dims
      <4>. QED
        BY <4>2, Counts
    <3>. QED
      BY <2>2, <3>1, <3>2
  <2>4. Spared(setup, k)
    BY <1>1 DEF CrcSpared
  <2>5. frame'[1] => frame' = <<TRUE, Halves(id), PartOf(RawBytes, PartByteNum, id)>>
    BY <1>1, <1>7, <2>1, <2>2, <2>3, <2>4, ReadOff
  <2>. QED
    BY <1>6, <1>7, <2>1, <2>5
<1>12. CASE SavePart
  BY <1>5, <1>12 DEF SavePart
<1>13. CASE UNCHANGED vars
  <2>1. frame' = frame
    BY <1>13 DEF vars
  <2>. QED
    BY <1>4, <2>1 DEF CrcTells
<1>. QED
  BY <1>8, <1>9, <1>10, <1>11, <1>12, <1>13 DEF Next

-----------------------------------------------------------------------------
(* Every frame that is seen right is read, with and without a calibration, *)
(* for every codec and frame: drawing, sending, fetching, finding the      *)
(* cells and decoding give the part, or fail where SeenIsRead says so.     *)
THEOREM SeenIsReadCorrect == Spec => []SeenIsRead
<1>1. Init => SeenInv
  BY SeenInit
<1>2. SeenInv /\ [Next]_vars => SeenInv'
  BY SeenStep
<1>3. SeenInv => SeenIsRead
  BY DEF SeenInv
<1>. QED
  BY <1>1, <1>2, <1>3, PTL DEF Spec

(* As long as a frame that passes its CRC is one that was sent (a CRC      *)
(* cannot promise that of every misread one), what is kept is what was     *)
(* sent, and the file that is finished is the file.                        *)
THEOREM KeptIsSentCorrect == Spec => ([]CrcTells => []KeptIsSent)
<1>1. Init => TaskInv /\ StatusInv
  BY TaskInit
<1>2. TaskInv /\ StatusInv /\ CrcTells /\ [Next]_vars => (TaskInv /\ StatusInv)'
  <2>1. ASSUME TaskInv, StatusInv, CrcTells, [Next]_vars PROVE TaskInv' /\ StatusInv'
    BY <2>1, TaskStep
  <2>. QED
    BY <2>1
<1>3. TaskInv => KeptIsSent
  BY TaskInvKept
<1>. QED
  BY <1>1, <1>2, <1>3, PTL DEF Spec

(* Likewise the sender, told of a part, may skip it: a status tells the    *)
(* setup the receiver has and no part it misses.                           *)
THEOREM StatusToldCorrect == Spec => ([]CrcTells => []StatusTold)
<1>1. Init => TaskInv /\ StatusInv
  BY TaskInit
<1>2. TaskInv /\ StatusInv /\ CrcTells /\ [Next]_vars => (TaskInv /\ StatusInv)'
  <2>1. ASSUME TaskInv, StatusInv, CrcTells, [Next]_vars PROVE TaskInv' /\ StatusInv'
    BY <2>1, TaskStep
  <2>. QED
    BY <2>1
<1>3. TaskInv /\ StatusInv => StatusTold
  BY StatusInvTold
<1>. QED
  BY <1>1, <1>2, <1>3, PTL DEF Spec

(* With a camera that is never wrong nothing is assumed of the CRC: the    *)
(* parts that are kept and told are those that were drawn.                 *)
THEOREM SeenIsKept ==
  ASSUME MaxMisread = 0
  PROVE  Spec => [](KeptIsSent /\ StatusTold)
<1>1. Init => SeenInv /\ TaskInv /\ StatusInv
  BY SeenInit, TaskInit
<1>2. SeenInv => CrcTells
  <2>1. SeenInv => misread = 0
    BY DEF SeenInv
  <2>. QED
    BY <2>1, SeenTells
<1>3. SeenInv /\ TaskInv /\ StatusInv /\ [Next]_vars => (SeenInv /\ TaskInv /\ StatusInv)'
  <2>1. ASSUME SeenInv, TaskInv, StatusInv, [Next]_vars PROVE SeenInv' /\ TaskInv' /\ StatusInv'
    <3>1. CrcTells
      BY <1>2, <2>1
    <3>2. TaskInv' /\ StatusInv'
      BY <2>1, <3>1, TaskStep
    <3>. QED
      BY <2>1, <3>2, SeenStep
  <2>. QED
    BY <2>1
<1>4. TaskInv /\ StatusInv => KeptIsSent /\ StatusTold
  BY TaskInvKept, StatusInvTold
<1>. QED
  BY <1>1, <1>3, <1>4, PTL DEF Spec

(* A camera may be wrong about a cell of a frame, and nothing wrong is     *)
(* kept or told: outside the CRC word, what one wrong symbol does to the   *)
(* bytes of a frame never passes the CRC (SymbolCodec::Decode).            *)
THEOREM MisreadIsTold ==
  ASSUME CrcSpared
  PROVE  Spec => [](CrcTells /\ KeptIsSent /\ StatusTold)
<1> DEFINE Inv == SeenInv /\ CrcTells /\ TaskInv /\ StatusInv
<1>1. Init => Inv
  <2>1. Init => CrcTells
    BY DEF Init, CrcTells
  <2>. QED
    BY <2>1, SeenInit, TaskInit
<1>2. Inv /\ [Next]_vars => Inv'
  <2>1. ASSUME Inv, [Next]_vars PROVE SeenInv' /\ CrcTells' /\ TaskInv' /\ StatusInv'
    BY <2>1, SeenStep, TellStep, TaskStep
  <2>. QED
    BY <2>1
<1>3. Inv => CrcTells /\ KeptIsSent /\ StatusTold
  BY TaskInvKept, StatusInvTold
<1> HIDE DEF Inv
<1>. QED
  BY <1>1, <1>2, <1>3, PTL DEF Spec
=============================================================================
