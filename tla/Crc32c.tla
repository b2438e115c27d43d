------------------------------- MODULE Crc32c -------------------------------
(***************************************************************************)
(* The arithmetic of the hash tables: CRC-32C by tables (hash_crc.h), the  *)
(* bucket of a hash (hash_32 of hashtable.h) and the position of the       *)
(* highest bit, from which a table knows its size.                        *)
(*                                                                         *)
(* A machine word is the set of the positions of its one bits, bit 0 the   *)
(* lowest: a uint32_t is a subset of 0..31, a uint64_t of 0..63, and a     *)
(* sequence of bytes is the little-endian word of that many.              *)
(***************************************************************************)
EXTENDS Integers, FiniteSets, FiniteSetsExt

Bits(n) == {b \in 0..30 : (n \div 2^b) % 2 = 1}

Word(hi, lo) == Bits(lo) \cup {b + 16 : b \in Bits(hi)}

Xor(v, w) == (v \ w) \cup (w \ v)

ShiftRight(w, n) == {b - n : b \in {c \in w : c >= n}}

ShiftLeft(w, n, width) == {b + n : b \in {c \in w : c + n < width}}

Low(w, n) == w \cap 0..(n - 1)

\* Byte i of a word; its low or high half as a word.
Byte(w, i) == Low(ShiftRight(w, 8 * i), 8)
-----------------------------------------------------------------------------
(* crc32c_tables.  Row n gives the 256 multiples of eight words, those at    *)
(* the indices 1, 2, 4, .. 128: every other entry is the exclusive or of     *)
(* those of its index's bits.                                               *)

Powers0 == <<Word(\hF26B, \h8303), Word(\hE13B, \h70F7), Word(\hC79A, \h971F), Word(\h8AD9, \h58CF),
             Word(\h105E, \hC76F), Word(\h20BD, \h8EDE), Word(\h417B, \h1DBC), Word(\h82F6, \h3B78)>>
Powers1 == <<Word(\h13A2, \h9877), Word(\h2745, \h30EE), Word(\h4E8A, \h61DC), Word(\h9D14, \hC3B8),
             Word(\h3FC5, \hF181), Word(\h7F8B, \hE302), Word(\hFF17, \hC604), Word(\hFBC3, \hFAF9)>>
Powers2 == <<Word(\hA541, \h927E), Word(\h4F6F, \h520D), Word(\h9EDE, \hA41A), Word(\h3851, \h3EC5),
             Word(\h70A2, \h7D8A), Word(\hE144, \hFB14), Word(\hC765, \h80D9), Word(\h8B27, \h7743)>>
Powers3 == <<Word(\hDD45, \hAAB8), Word(\hBF67, \h2381), Word(\h7B22, \h31F3), Word(\hF644, \h63E6),
             Word(\hE964, \hB13D), Word(\hD725, \h148B), Word(\hABA6, \h5FE7), Word(\h52A0, \hC93F)>>
Powers4 == <<Word(\h3811, \h6FAC), Word(\h7022, \hDF58), Word(\hE045, \hBEB0), Word(\hC567, \h0B91),
             Word(\h8F22, \h61D3), Word(\h1BA8, \hB557), Word(\h3751, \h6AAE), Word(\h6EA2, \hD55C)>>
Powers5 == <<Word(\hEF30, \h6B19), Word(\hDB8C, \hA0C3), Word(\hB2F5, \h3777), Word(\h6006, \h181F),
             Word(\hC00C, \h303E), Word(\h85F4, \h168D), Word(\h0E04, \h5BEB), Word(\h1C08, \hB7D6)>>
Powers6 == <<Word(\h6803, \h2CC8), Word(\hD006, \h5990), Word(\hA5E0, \hC5D1), Word(\h4E2D, \hFD53),
             Word(\h9C5B, \hFAA6), Word(\h3D5B, \h83BD), Word(\h7AB7, \h077A), Word(\hF56E, \h0EF4)>>
Powers7 == <<Word(\h493C, \h7D27), Word(\h9278, \hFA4E), Word(\h211D, \h826D), Word(\h423B, \h04DA),
             Word(\h8476, \h09B4), Word(\h0D00, \h6599), Word(\h1A00, \hCB32), Word(\h3401, \h9664)>>

Powers == <<Powers0, Powers1, Powers2, Powers3, Powers4, Powers5, Powers6, Powers7>>

crc32c_tables(n, byte) ==
  {b \in 0..31 : Cardinality({k \in byte : b \in Powers[n + 1][k + 1]}) % 2 = 1}
-----------------------------------------------------------------------------
(* hash_crc.h: one to eight bytes at a time                                 *)

CRC32_UPD(crc, n) ==
  Xor(crc32c_tables(n, Byte(crc, 0)), crc32c_tables(n - 1, Byte(crc, 1)))

crc32c_1byte(data, init_val) ==
  LET crc == Xor(init_val, data)
  IN Xor(crc32c_tables(0, Byte(crc, 0)), ShiftRight(crc, 8))

crc32c_2bytes(data, init_val) ==
  LET crc == Xor(init_val, data)
  IN Xor(CRC32_UPD(crc, 1), ShiftRight(crc, 16))

crc32c_1word(data, init_val) ==
  LET crc == Xor(init_val, data)
  IN Xor(CRC32_UPD(crc, 3), CRC32_UPD(ShiftRight(crc, 16), 1))

\* Mutant of crc32c_2words: the second word's tables are those of the first.
crc32c_2wordsSameTables(data, init_val) ==
  LET crc  == Xor(init_val, Low(data, 32))
      high == ShiftRight(data, 32)
  IN Xor(Xor(CRC32_UPD(crc, 7), CRC32_UPD(ShiftRight(crc, 16), 5)),
         Xor(CRC32_UPD(high, 7), CRC32_UPD(ShiftRight(high, 16), 5)))

crc32c_2words(data, init_val) ==
  LET crc  == Xor(init_val, Low(data, 32))
      high == ShiftRight(data, 32)
  IN Xor(Xor(CRC32_UPD(crc, 7), CRC32_UPD(ShiftRight(crc, 16), 5)),
         Xor(CRC32_UPD(high, 3), CRC32_UPD(ShiftRight(high, 16), 1)))
-----------------------------------------------------------------------------
(* hashtable.h: the highest bit, the size of a table and the bucket          *)

\* One round of fls and fls64: if the upper n bits are clear, move up by n.
FlsRound(x, r, n, width) ==
  IF \E b \in x : b >= width - n THEN <<x, r>> ELSE <<ShiftLeft(x, n, width), r - n>>

\* Mutant of fls: the round of two bits is forgotten.
FlsTwoShort(x) ==
  LET a == FlsRound(x, 32, 16, 32)
      b == FlsRound(a[1], a[2], 8, 32)
      c == FlsRound(b[1], b[2], 4, 32)
  IN IF x = {} THEN 0 ELSE FlsRound(c[1], c[2], 1, 32)[2]

fls(x) ==
  LET a == FlsRound(x, 32, 16, 32)
      b == FlsRound(a[1], a[2], 8, 32)
      c == FlsRound(b[1], b[2], 4, 32)
      d == FlsRound(c[1], c[2], 2, 32)
  IN IF x = {} THEN 0 ELSE FlsRound(d[1], d[2], 1, 32)[2]

fls64(x) ==
  LET a == FlsRound(x, 64, 32, 64)
      b == FlsRound(a[1], a[2], 16, 64)
      c == FlsRound(b[1], b[2], 8, 64)
      d == FlsRound(c[1], c[2], 4, 64)
      e == FlsRound(d[1], d[2], 2, 64)
  IN IF x = {} THEN 0 ELSE FlsRound(e[1], e[2], 1, 64)[2]

\* Of a constant: the highest bit tested for and found, 1 if there is none of
\* them but the number is at least 2, else 0.
ilog2(n) ==
  IF \A b \in n : b < 1 THEN 0
  ELSE Max({b \in 2..63 : b \in n} \cup {1})

\* 2^b buckets are declared; the macros compute b from the array's size.
HASH_BITS(b) == ilog2({b})

\* val * 0x61C88647 modulo 2^32, as upper and lower 16 bits: one doubling for
\* every bit of val from the highest down, plus the constant where it is one.
GOLDEN_RATIO_32 == <<\h61C8, \h8647>>

Plus(p, q) ==
  <<(p[1] + q[1] + (p[2] + q[2]) \div 65536) % 65536, (p[2] + q[2]) % 65536>>

TimesGolden(val) ==
  LET Twice(p) == Plus(p, p)
      product[k \in 0..32] ==
        IF k = 0 THEN <<0, 0>>
        ELSE Plus(Twice(product[k - 1]), IF 32 - k \in val THEN GOLDEN_RATIO_32 ELSE <<0, 0>>)
  IN product[32]

\* hash_32 of a uint32_t: the product is unsigned, its upper bits the bucket.
\* (bits is at most 16.)
hash_32(val, bits) == TimesGolden(val)[1] \div 2^(16 - bits)

\* hash_32 of a uint16_t: val is promoted to int and so is the product, which
\* overflows; the build wraps it round and shifts it with its sign.
hash_32_int(val, bits) ==
  LET upper == TimesGolden(val)[1]
      int   == IF upper >= 32768 THEN upper - 65536 ELSE upper
  IN int \div 2^(16 - bits)
=============================================================================
