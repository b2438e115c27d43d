----------------------------- MODULE MCHashCrc ------------------------------
EXTENDS HashCrc

Array(n, set) == [len |-> n, data |-> set]

\* All arrays of up to 15 bytes with a single bit set (a CRC is linear: these
\* span the rest), and device ids with two adjacent bits or all bits set.
MCData ==
  UNION {{Array(n, {b}) : b \in 0..(8 * n - 1)} : n \in 1..15}
  \cup {Array(8, {b, b + 1}) : b \in 0..62} \cup {Array(8, 0..63), Array(6, 0..47), Array(15, 0..119), Array(0, {})}

\* The buckets of ARP and neighbour tables, forwarding tables.
MCTableBits == {10, 12}

OneTable == {10}

NoData == {}
\* vSON's number and the one for data.
QuietProtos == {Bits(\hF001), Bits(\h0800)}
\* vTSD's as well, as bs/config/config_example gives them.
VnfProtos == {Bits(\hF000), Bits(\hF001), Bits(\h0800)}
=============================================================================
