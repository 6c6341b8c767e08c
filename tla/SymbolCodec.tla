----------------------------- MODULE SymbolCodec ----------------------------
(***************************************************************************)
(* What carries a part from bytes to the symbols of an image and back      *)
(* (symbol_codec.cpp), and an image's bytes through a text stream          *)
(* (base64.cpp).  A byte is a number below 256, a uint32 is the pair of    *)
(* its 16-bit halves, the low one first.                                   *)
(***************************************************************************)
EXTENDS Integers, Sequences, SequencesExt

META_BYTE_NUM == 8

Byte == 0 .. 255
Half == 0 .. 65535

CeilDiv(a, b) == (a + b - 1) \div b
Resized(s, n) == [i \in 1 .. n |-> IF i <= Len(s) THEN s[i] ELSE 0]

(* The bits in which two bytes, and two halves, differ.                    *)
XorByte(v, w) ==
    LET Bit(p) == IF (v \div p) % 2 = (w \div p) % 2 THEN 0 ELSE p
    IN  Bit(1) + Bit(2) + Bit(4) + Bit(8) + Bit(16) + Bit(32) + Bit(64) + Bit(128)
XorHalf(v, w) == XorByte(v % 256, w % 256) + 256 * XorByte(v \div 256, w \div 256)
XorHalves(v, w) == <<XorHalf(v[1], w[1]), XorHalf(v[2], w[2])>>
XorBytes(s, t) == [i \in DOMAIN s |-> XorByte(s[i], t[i])]

encrypt_bytes(bytes) == [i \in DOMAIN bytes |-> XorByte(bytes[Len(bytes) + 1 - i], 170)]

uint32_to_bytes(v) == <<v[1] % 256, v[1] \div 256, v[2] % 256, v[2] \div 256>>
bytes_to_uint32(b) == <<b[1] + 256 * b[2], b[3] + 256 * b[4]>>

(* boost::crc_32_type: the reflected polynomial 0x04C11DB7, a byte at a    *)
(* time.                                                                   *)
TableShift(c) == <<(c[1] \div 2) + (c[2] % 2) * 32768, c[2] \div 2>>
TableStep(c) == IF c[1] % 2 = 1 THEN XorHalves(TableShift(c), <<33568, 60856>>) ELSE TableShift(c)
CrcTable ==
    [b \in Byte |->
        LET crc[k \in 0 .. 8] == IF k = 0 THEN <<b, 0>> ELSE TableStep(crc[k - 1])
        IN  crc[8]]
NextRegister(c, byte) ==
    XorHalves(<<(c[1] \div 256) + (c[2] % 256) * 256, c[2] \div 256>>, CrcTable[XorByte(c[1] % 256, byte)])
Registers(bytes) ==
    LET crc[i \in 0 .. Len(bytes)] ==
            IF i = 0 THEN <<65535, 65535>> ELSE NextRegister(crc[i - 1], bytes[i])
    IN  crc
MutCrc32(bytes) == XorHalves(Registers(bytes)[Len(bytes) - 1], <<65535, 65535>>)
crc32(bytes) == XorHalves(Registers(bytes)[Len(bytes)], <<65535, 65535>>)

-----------------------------------------------------------------------------
(* A byte is eight symbols of one bit, its high bit first ...              *)
BytesToSymbols1(bytes) ==
    [j \in 1 .. 8 * Len(bytes) |->
        LET v == bytes[(j - 1) \div 8 + 1]
        IN  (v \div <<128, 64, 32, 16, 8, 4, 2, 1>>[((j - 1) % 8) + 1]) % 2]
SymbolsToBytes1(symbols) ==
    [i \in 1 .. CeilDiv(Len(symbols), 8) |->
        LET S(k) == symbols[8 * (i - 1) + k + 1] % 2
        IN  S(0) * 128 + S(1) * 64 + S(2) * 32 + S(3) * 16 + S(4) * 8 + S(5) * 4 + S(6) * 2 + S(7)]

(* ... or four of two bits.  What a symbol has too many is masked.         *)
BytesToSymbols2(bytes) ==
    [j \in 1 .. 4 * Len(bytes) |->
        LET v == bytes[(j - 1) \div 4 + 1]
        IN  (v \div <<64, 16, 4, 1>>[((j - 1) % 4) + 1]) % 4]
SymbolsToBytes2(symbols) ==
    [i \in 1 .. CeilDiv(Len(symbols), 4) |->
        LET S(k) == symbols[4 * (i - 1) + k + 1] % 4
        IN  S(0) * 64 + S(1) * 16 + S(2) * 4 + S(3)]

(* Three bits: three bytes are eight symbols, of which the third and the   *)
(* sixth take what one byte left and what the next one begins with; after  *)
(* the last byte, zeros.                                                   *)
BytesToSymbols3(bytes) ==
    [j \in 1 .. CeilDiv(8 * Len(bytes), 3) |->
        LET B(k) == LET i == 3 * ((j - 1) \div 8) + k + 1 IN IF i <= Len(bytes) THEN bytes[i] ELSE 0
        IN  CASE j % 8 = 1 -> B(0) \div 32
              [] j % 8 = 2 -> (B(0) \div 4) % 8
              [] j % 8 = 3 -> (B(0) % 4) * 2 + B(1) \div 128
              [] j % 8 = 4 -> (B(1) \div 16) % 8
              [] j % 8 = 5 -> (B(1) \div 2) % 8
              [] j % 8 = 6 -> (B(1) % 2) * 4 + B(2) \div 64
              [] j % 8 = 7 -> (B(2) \div 8) % 8
              [] j % 8 = 0 -> B(2) % 8]

(* ... and back, of symbols that are below 8.                              *)
SymbolsToBytes3(symbols) ==
    [i \in 1 .. (Len(symbols) * 3) \div 8 |->
        LET S(k) == symbols[8 * ((i - 1) \div 3) + k + 1]
        IN  CASE i % 3 = 1 -> S(0) * 32 + S(1) * 4 + S(2) \div 2
              [] i % 3 = 2 -> (S(2) % 2) * 128 + S(3) * 16 + S(4) * 2 + S(5) \div 4
              [] i % 3 = 0 -> (S(5) % 4) * 64 + S(6) * 8 + S(7)]

(* A codec of create_symbol_codec is its BitNumPerSymbol.                  *)
BytesToSymbols(b, bytes) ==
    CASE b = 1 -> BytesToSymbols1(bytes) [] b = 2 -> BytesToSymbols2(bytes) [] b = 3 -> BytesToSymbols3(bytes)
SymbolsToBytes(b, symbols) ==
    CASE b = 1 -> SymbolsToBytes1(symbols) [] b = 2 -> SymbolsToBytes2(symbols) [] b = 3 -> SymbolsToBytes3(symbols)

-----------------------------------------------------------------------------
(* The frame of a part: its CRC, its id under the CRC, its bytes and what  *)
(* fills the frame, encrypted and cut into symbols.                        *)
Encode(b, part_id, part_bytes, frame_size) ==
    LET id_bytes == uint32_to_bytes(part_id)
        padded == Resized(part_bytes, (frame_size * b) \div 8 - META_BYTE_NUM)
        crc_bytes == uint32_to_bytes(crc32(id_bytes \o padded))
        bytes == crc_bytes \o XorBytes(id_bytes, crc_bytes) \o padded
    IN  Resized(BytesToSymbols(b, encrypt_bytes(bytes)), frame_size)

Truncated(b, symbols) == CeilDiv(((Len(symbols) * b) \div 8) * 8, b)
Decode(b, symbols) ==
    LET bytes == encrypt_bytes(SymbolsToBytes(b, SubSeq(symbols, 1, Truncated(b, symbols))))
        crc_bytes == SubSeq(bytes, 1, 4)
        id_bytes == XorBytes(SubSeq(bytes, 5, 8), crc_bytes)
        padded == SubSeq(bytes, META_BYTE_NUM + 1, Len(bytes))
    IN  <<crc32(id_bytes \o padded) = bytes_to_uint32(crc_bytes), bytes_to_uint32(id_bytes), padded>>

-----------------------------------------------------------------------------
(* base64, its characters as their codes.                                  *)
PadChar == 61
Alphabet(v) ==
    CASE v < 26 -> v + 65 [] v \in 26 .. 51 -> v + 71 [] v \in 52 .. 61 -> v - 4
      [] v = 62 -> 43 [] v = 63 -> 47
Inverse64(c) ==
    CASE c \in 65 .. 90 -> c - 65 [] c \in 97 .. 122 -> c - 71 [] c \in 48 .. 57 -> c + 4
      [] c = 43 -> 62 [] c = 47 -> 63 [] OTHER -> -1

b64encode(bytes) ==
    LET n == Len(bytes)
        In(i) == IF i <= n THEN bytes[i] ELSE 0
        Char(i, k) == Alphabet(CASE k = 0 -> In(i) \div 4
                                 [] k = 1 -> (In(i) % 4) * 16 + In(i + 1) \div 16
                                 [] k = 2 -> (In(i + 1) % 16) * 4 + In(i + 2) \div 64
                                 [] k = 3 -> In(i + 2) % 64)
    IN  [j \in 1 .. 4 * CeilDiv(n, 3) |->
            LET i == 3 * ((j - 1) \div 4) + 1
                k == (j - 1) % 4
            IN  IF i + k - 1 <= n THEN Char(i, k) ELSE PadChar]

(* It stops at the first character that is not of the alphabet.            *)
b64decode(chars) ==
    LET n == CHOOSE k \in 0 .. Len(chars) :
                 /\ k = Len(chars) \/ Inverse64(chars[k + 1]) = -1
                 /\ \A i \in 1 .. k : Inverse64(chars[i]) # -1
        V(i) == Inverse64(chars[i])
    IN  [j \in 1 .. (n * 3) \div 4 |->
            LET i == 4 * ((j - 1) \div 3) + 1
            IN  CASE j % 3 = 1 -> (V(i) * 4 + V(i + 1) \div 16) % 256
                  [] j % 3 = 2 -> (V(i + 1) * 16 + V(i + 2) \div 4) % 256
                  [] j % 3 = 0 -> (V(i + 2) * 64 + V(i + 3)) % 256]
=============================================================================
