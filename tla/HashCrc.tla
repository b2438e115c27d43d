------------------------------ MODULE HashCrc -------------------------------
(***************************************************************************)
(* One call of hash_crc and the bucket it leads to: the loop over eight    *)
(* bytes at a time and the rest of four, two and one, as one step each.    *)
(* The tables hash device ids (8 bytes) and MAC addresses (6 bytes) so,    *)
(* and a VNF's protocol number, two bytes, as it is.                       *)
(***************************************************************************)
EXTENDS Crc32c

CONSTANTS
  Data,      \* records [len, data]: the byte arrays hashed
  Proto,     \* protocol numbers of VNFs, as words of 16 bits
  TableBits  \* buckets are declared in powers of two: these

ASSUME HashAssumption ==
  /\ \A d \in Data : d.len \in Nat /\ d.data \subseteq 0..(8 * d.len - 1)
  /\ \A p \in Proto : p \subseteq 0..15
  /\ TableBits \subseteq 1..16

None == 100000  \* no bucket yet

VARIABLES
  data,   \* the array hashed, or the protocol number
  len,    \* its length in bytes
  array,  \* which of the two it is
  pd,     \* bytes consumed
  crc,    \* init_val
  bits,   \* the table's size is 2^bits
  bucket

input == <<data, len, array>>
vars  == <<input, pd, crc, bits, bucket>>

Init ==
  /\ \/ array = TRUE /\ \E d \in Data : len = d.len /\ data = d.data
     \/ array = FALSE /\ len = 2 /\ data \in Proto
  /\ pd = 0 /\ crc = {} /\ bits \in TableBits /\ bucket = None

\* The next n bytes, as a word.
Piece(n) == Low(ShiftRight(data, 8 * pd), 8 * n)

Consume(n, word) ==
  /\ crc' = word /\ pd' = pd + n
  /\ UNCHANGED <<input, bits, bucket>>

Eight == array /\ len - pd >= 8 /\ Consume(8, crc32c_2words(Piece(8), crc))
Four  == array /\ len - pd \in 4..7 /\ Consume(4, crc32c_1word(Piece(4), crc))
Two   == array /\ len - pd \in 2..3 /\ Consume(2, crc32c_2bytes(Piece(2), crc))

One   == array /\ len - pd = 1 /\ Consume(1, crc32c_1byte(Piece(1), crc))

\* hash_min: all keys are of 32 bits or fewer.
Place ==
  /\ bucket = None
  /\ \/ /\ array /\ pd = len
        /\ bucket' = hash_32(crc, HASH_BITS(bits))
     \/ /\ ~array
        /\ bucket' = hash_32_int(data, HASH_BITS(bits))
  /\ UNCHANGED <<input, pd, crc, bits>>

Next == Eight \/ Four \/ Two \/ One \/ Place

Spec == Init /\ [][Next]_vars
-----------------------------------------------------------------------------
(* Properties                                                               *)

\* CRC-32C by its definition: division by the reflected polynomial, a bit of
\* the data at a time.
Polynomial == Word(\h82F6, \h3B78)

Divide(word, bit) ==
  IF bit # (0 \in word) THEN Xor(ShiftRight(word, 1), Polynomial) ELSE ShiftRight(word, 1)

Crc(word, n) ==
  LET rest[k \in 0..n] == IF k = 0 THEN {} ELSE Divide(rest[k - 1], k - 1 \in word)
  IN rest[n]

\* hash_crc walks an array in pieces of eight, four, two and one bytes, each
\* with tables of its own: whatever the pieces, the hash so far is the CRC of
\* the bytes so far, so equal ids hash alike wherever they are hashed.
HashIsCrc32c == array => crc = Crc(Low(data, 8 * pd), 8 * pd)

\* The binary search of fls and fls64 ends at the highest bit, in every word
\* that a hash goes through.
FlsIsHighestBit ==
  array => /\ fls(crc) = (IF crc = {} THEN 0 ELSE Max(crc) + 1)
             /\ LET w == Low(data, 64)
                IN fls64(w) = (IF w = {} THEN 0 ELSE Max(w) + 1)

\* "//1024 buckets" (bspc.h:37): an entry hangs in one of the buckets that its
\* table has.  (All 2^bits of them exist, hash_32 of 32 bits gives no other.)
BucketInTable == bucket # None => bucket \in 0..(2^bits - 1)
=============================================================================
