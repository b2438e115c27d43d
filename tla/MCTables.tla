------------------------------ MODULE MCTables ------------------------------
EXTENDS Tables, TLC

C == INSTANCE Crc32c

CONSTANTS BucketBits

\* hash_min(hash_device_id(id), bits), with two buckets in the place of 1024
\* or 4096: of three short ids two share one.
IdBuckets == [id \in Id |-> C!hash_32(C!crc32c_2words(C!Bits(id), {}), BucketBits)]
MCHashId(id) == IdBuckets[id]

\* hash_l2addr of the address that ends in id.
AddrBuckets ==
  [id \in Id |-> C!hash_32(C!crc32c_2bytes(C!ShiftLeft(C!Bits(id), 8, 16), C!crc32c_1word({}, {})),
                           BucketBits)]
MCHashAddr(id) == AddrBuckets[id]

MCBucket == 0..(2^BucketBits - 1)
Symmetry == Permutations(Entry)
=============================================================================
