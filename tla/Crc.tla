--------------------------------- MODULE Crc ---------------------------------
(***************************************************************************)
(* LLOS_CRC_CAL (component/llos_crc.c), the checksum of the EEPROM records *)
(* among others: CRCs of 4 to 8, 16 and 32 bits.                           *)
(*                                                                         *)
(* A register or a byte is the sequence of its bits, the highest one first,*)
(* so that `crc << 1` drops the head and appends a 0.                      *)
(***************************************************************************)
EXTENDS Integers, Sequences

Zeros(n) == [b \in 1 .. n |-> 0]
BitXor(x, y) == [b \in 1 .. Len(x) |-> (x[b] + y[b]) % 2]
ShiftLeft(x, n) == SubSeq(x, n + 1, Len(x)) \o Zeros(n)

\* ReverseOutput, and byte_rev_table of ReverseInputData for one byte
ReverseOutput(value) == [b \in 1 .. Len(value) |-> value[Len(value) + 1 - b]]
ReverseInputData(data) == [n \in 1 .. Len(data) |-> ReverseOutput(data[n])]

\* the inner loop: one bit
CrcBit_lowBit(crc, poly) ==   \* mutant: the lowest bit is tested
    IF crc[Len(crc)] = 1 THEN BitXor(ShiftLeft(crc, 1), poly) ELSE ShiftLeft(crc, 1)
CrcBit(crc, poly) ==
    IF crc[1] = 1 THEN BitXor(ShiftLeft(crc, 1), poly) ELSE ShiftLeft(crc, 1)

\* the outer loop: one byte is added at the high end, then its eight bits
CrcByte(crc, byte, poly) ==
    LET after[j \in 0 .. 8] == IF j = 0 THEN BitXor(crc, byte \o Zeros(Len(crc) - 8))
                                       ELSE CrcBit(after[j - 1], poly)
    IN after[8]

CrcBytes(initVal, data, poly) ==
    LET after[i \in 0 .. Len(data)] == IF i = 0 THEN initVal
                                               ELSE CrcByte(after[i - 1], data[i], poly)
    IN after[Len(data)]

\* LLOS_CRC16_32_CAL; the mask of the code is the width of the sequence
Crc16_32(cfg, data) == CrcBytes(cfg.initVal, data, cfg.poly)

\* LLOS_CRC4567_CAL: the register is an uint8_t and the CRC is its high end
Crc4567(cfg, data) ==
    LET pad == 8 - cfg.width
        crc == CrcBytes(cfg.initVal \o Zeros(pad), data, cfg.poly \o Zeros(pad))
    IN SubSeq(crc, 1, cfg.width)

Widths == {4, 5, 6, 7, 8, 16, 32}

CRC_CAL(cfg, data) ==
    LET input == IF cfg.isReverseInput THEN ReverseInputData(data) ELSE data
        crc == IF cfg.width < 8 THEN Crc4567(cfg, input) ELSE Crc16_32(cfg, input)
        output == IF cfg.isReverseOutput THEN ReverseOutput(crc) ELSE crc
    IN BitXor(output, cfg.finalXOR)

-----------------------------------------------------------------------------
(* The models the component comes with.  A number is given by the exponents  *)
(* of its bits that are set: 0x8005 is {15, 2, 0}.                           *)

Bits(width, exponents) == [b \in 1 .. width |-> IF width - b \in exponents THEN 1 ELSE 0]
Model(width, poly, initVal, finalXOR, reversed) ==
    [width |-> width, poly |-> Bits(width, poly), initVal |-> Bits(width, initVal),
     finalXOR |-> Bits(width, finalXOR), isReverseInput |-> reversed,
     isReverseOutput |-> reversed]

IBM   == {15, 2, 0}
CCITT == {12, 5, 0}
DNP   == {13, 12, 11, 10, 8, 6, 5, 2, 0}
CRC32 == {26, 23, 22, 16, 12, 11, 10, 8, 7, 5, 4, 2, 1, 0}
Ones(width) == 0 .. width - 1

crcModels ==
    { Model(4, {1, 0}, {}, {}, TRUE),               \* CRC4_ITU
      Model(5, {3, 0}, {3, 0}, {}, FALSE),          \* CRC5_EPC
      Model(5, {4, 2, 0}, {}, {}, TRUE),            \* CRC5_ITU
      Model(5, {2, 0}, Ones(5), Ones(5), TRUE),     \* CRC5_USB
      Model(6, {1, 0}, {}, {}, TRUE),               \* CRC6_ITU
      Model(7, {3, 0}, {}, {}, FALSE),              \* CRC7_MMC
      Model(8, {2, 1, 0}, {}, {}, FALSE),           \* CRC8
      Model(8, {2, 1, 0}, {}, {6, 4, 2, 0}, FALSE), \* CRC8_ITU
      Model(8, {2, 1, 0}, Ones(8), {}, TRUE),       \* CRC8_ROHC
      Model(8, {5, 4, 0}, {}, {}, TRUE),            \* CRC8_MAXIM
      Model(16, IBM, {}, {}, TRUE),                 \* CRC16_IBM
      Model(16, IBM, {}, Ones(16), TRUE),           \* CRC16_MAXIM
      Model(16, IBM, Ones(16), Ones(16), TRUE),     \* CRC16_USB
      Model(16, IBM, Ones(16), {}, TRUE),           \* CRC16_Modbus
      Model(16, CCITT, {}, {}, TRUE),               \* CRC16_CCITT
      Model(16, CCITT, Ones(16), {}, FALSE),        \* CRC16_CCITT_FALSE
      Model(16, CCITT, Ones(16), Ones(16), TRUE),   \* CRC16_X25
      Model(16, CCITT, {}, {}, FALSE),              \* CRC16_XMODEM
      Model(16, DNP, {}, Ones(16), TRUE),           \* CRC16_DNP
      Model(32, CRC32, Ones(32), Ones(32), TRUE),   \* CRC32
      Model(32, CRC32, Ones(32), {}, FALSE) }       \* CRC32_MPEG_2

-----------------------------------------------------------------------------
(* Properties.                                                               *)

\* The remainder of a polynomial over GF(2) divided by x^w + poly, both given by
\* the sequence of their coefficients: the schoolbook division.
Remainder(dividend, poly) ==
    LET w == Len(poly)
        divisor == <<1>> \o poly
        Subtract(rest, n) ==
            IF rest[n] = 0 THEN rest
            ELSE [b \in 1 .. Len(rest) |->
                    IF b \in n .. n + w THEN (rest[b] + divisor[b - n + 1]) % 2 ELSE rest[b]]
        left[n \in 0 .. Len(dividend) - w] ==
            IF n = 0 THEN dividend ELSE Subtract(left[n - 1], n)
    IN SubSeq(left[Len(dividend) - w], Len(dividend) - w + 1, Len(dividend))

Flat(data) == [b \in 1 .. 8 * Len(data) |-> data[((b - 1) \div 8) + 1][((b - 1) % 8) + 1]]

\* Data whose bits, once appended the CRC's width of zeros, carry initVal at the head
Dividend(cfg, data) ==
    LET bits == Flat(data) \o Zeros(cfg.width)
    IN [b \in 1 .. Len(bits) |->
          IF b <= cfg.width THEN (bits[b] + cfg.initVal[b]) % 2 ELSE bits[b]]

\* bytes with one, several, all and no bits set
SomeBytes == {Bits(8, {}), Bits(8, {0}), Bits(8, {7, 2, 1}), Bits(8, Ones(8))}
SomeData == UNION {[1 .. n -> SomeBytes] : n \in 0 .. 3}

\* LLOS_CRC_CAL (llos_crc.c:73-146) yields the remainder of the data, read from the bit
\* its reflection says comes first, divided by the polynomial.
IsRemainder(cfg, data) ==
    LET Reflected(x) == IF cfg.isReverseOutput THEN ReverseOutput(x) ELSE x
        bytes == IF cfg.isReverseInput
                   THEN [n \in 1 .. Len(data) |-> [b \in 1 .. 8 |-> data[n][9 - b]]]
                   ELSE data
    IN CRC_CAL(cfg, data)
         = BitXor(Reflected(Remainder(Dividend(cfg, bytes), cfg.poly)), cfg.finalXOR)

=============================================================================
