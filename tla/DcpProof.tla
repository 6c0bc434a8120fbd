------------------------------- MODULE DcpProof -------------------------------
(* Proofs about decode-context parallelism.                                 *)
(*                                                                          *)
(* DcpIndex, the arithmetic of where tokens live: for every number of       *)
(* ranks, interleave and block size.                                        *)
(*                                                                          *)
(* DcpPool: whatever fails, and however the ranks interleave, they decide   *)
(* every call alike (RanksAligned), and a profiling pass takes back its     *)
(* channels and no others (ChannelsSound).  For any group, keys, channels   *)
(* and well-nested programs, and with any ranks that cannot import the pool *)
(* class.                                                                   *)
EXTENDS DcpIndex, DcpPool, SequenceTheorems, FiniteSetTheorems, TLAPS

-----------------------------------------------------------------------------
(* DcpIndex.                                                               *)

\* Dividing by a positive number leaves a quotient and a remainder.
LEMMA DivMod ==
  ASSUME NEW a \in Int, NEW b \in Nat \ {0}
  PROVE  /\ a \div b \in Int /\ a % b \in 0 .. b - 1
         /\ a = b * (a \div b) + (a % b)
  OBVIOUS

\* A product of two numbers that are not negative is not negative.
LEMMA ProductNat ==
  ASSUME NEW a \in Nat, NEW b \in Nat
  PROVE  a * b \in Nat
  OBVIOUS

\* Quotient and remainder are the only such pair.
LEMMA DivModUnique ==
  ASSUME NEW q \in Int, NEW b \in Nat \ {0}, NEW r \in 0 .. b - 1
  PROVE  (b * q + r) \div b = q /\ (b * q + r) % b = r
<1> DEFINE a == b * q + r
           p == a \div b
           s == a % b
<1>1. a \in Int /\ b * q \in Int
  OBVIOUS
<1>2. p \in Int /\ s \in 0 .. b - 1 /\ a = b * p + s
  BY <1>1, DivMod
<1>3. p = q
  <2>1. CASE p > q
    <3>1. p - q - 1 \in Nat
      BY <1>2, <2>1
    <3>2. b * (p - q - 1) \in Nat
      BY <3>1, ProductNat
    <3>3. b * (p - q - 1) = b * p - b * q - b
      BY <1>2
    <3> QED
      BY <1>1, <1>2, <3>2, <3>3
  <2>2. CASE p < q
    <3>1. q - p - 1 \in Nat
      BY <1>2, <2>2
    <3>2. b * (q - p - 1) \in Nat
      BY <3>1, ProductNat
    <3>3. b * (q - p - 1) = b * q - b * p - b
      BY <1>2
    <3> QED
      BY <1>1, <1>2, <3>2, <3>3
  <2> QED
    BY <1>2, <2>1, <2>2
<1> QED
  BY <1>1, <1>2, <1>3

-----------------------------------------------------------------------------
\* What a rank's local index l = a * I + m stands for, as a number in mixed
\* radix: group a * W + rank, place m in it.
LEMMA GlobalShape ==
  ASSUME NEW rank \in Ranks, NEW l \in Nat
  PROVE  /\ GlobalIdx(rank, l) = I * (W * (l \div I) + rank) + (l % I)
         /\ GlobalIdx(rank, l) = (W * I) * (l \div I) + (I * rank + (l % I))
         /\ I * rank + (l % I) \in 0 .. W * I - 1
         /\ l \div I \in Nat /\ l % I \in 0 .. I - 1 /\ l = I * (l \div I) + (l % I)
         /\ W * I \in Nat \ {0}
<1> DEFINE a == l \div I
           m == l % I
<1>0. W \in Nat \ {0} /\ I \in Nat \ {0} /\ rank \in 0 .. W - 1
  BY DcpAssumption DEF Ranks
<1>1. a \in Int /\ m \in 0 .. I - 1 /\ l = I * a + m
  BY <1>0, DivMod
<1>2. a \in Nat
  <2> SUFFICES ASSUME a < 0 PROVE FALSE
    BY <1>1
  <2>1. - a - 1 \in Nat
    BY <1>1
  <2>2. I * (- a - 1) \in Nat
    BY <1>0, <2>1, ProductNat
  <2>3. I * (- a - 1) = - (I * a) - I
    BY <1>0, <1>1
  <2> QED
    BY <1>0, <1>1, <2>2, <2>3
<1>3. W * I \in Nat \ {0} /\ I * rank \in Nat
  <2>1. (W - 1) * I \in Nat /\ (W - 1) * I = W * I - I
    BY <1>0, ProductNat
  <2>2. I * rank \in Nat
    BY <1>0, ProductNat
  <2> QED
    BY <1>0, <2>1, <2>2
<1>4. I * rank + m \in 0 .. W * I - 1
  <2>1. (W - 1 - rank) * I \in Nat
    BY <1>0, ProductNat
  <2>2. (W - 1 - rank) * I = W * I - I - I * rank
    BY <1>0
  <2> QED
    BY <1>0, <1>1, <1>3, <2>1, <2>2
<1>5. GlobalIdx(rank, l) = a * (W * I) + rank * I + m
  BY DEF GlobalIdx
<1>6. a * (W * I) + rank * I + m = I * (W * a + rank) + m
  BY <1>0, <1>1, <1>2
<1>7. a * (W * I) + rank * I + m = (W * I) * a + (I * rank + m)
  BY <1>0, <1>1, <1>2
<1> QED
  BY <1>1, <1>2, <1>3, <1>4, <1>5, <1>6, <1>7

\* The remap kernel undoes the pack kernel: the global id a rank sends for
\* its local index l comes back to that rank, as l.
THEOREM LocalOfGlobal ==
  ASSUME NEW rank \in Ranks, NEW l \in Nat
  PROVE  Owner(GlobalIdx(rank, l)) = rank /\ LocalIdx(GlobalIdx(rank, l)) = l
<1> DEFINE a == l \div I
           m == l % I
           g == GlobalIdx(rank, l)
<1>0. W \in Nat \ {0} /\ I \in Nat \ {0} /\ rank \in 0 .. W - 1
  BY DcpAssumption DEF Ranks
<1>1. /\ g = I * (W * a + rank) + m /\ g = (W * I) * a + (I * rank + m)
      /\ I * rank + m \in 0 .. W * I - 1 /\ W * I \in Nat \ {0}
      /\ a \in Nat /\ m \in 0 .. I - 1 /\ l = I * a + m
  BY GlobalShape
<1> DEFINE group == W * a + rank
<1>2. a \in Int /\ group \in Int
  BY <1>0, <1>1
<1>3. group % W = rank
  <2> HIDE DEF a
  <2> QED
    BY <1>0, <1>2, DivModUnique
<1>4. g \div I = group /\ g % I = m
  <2>1. g = I * group + m /\ m \in 0 .. I - 1
    BY <1>1
  <2> HIDE DEF g, group, m
  <2> QED
    BY <1>0, <1>2, <2>1, DivModUnique
<1>5. g \div (W * I) = a
  <2> HIDE DEF g, a, m
  <2> QED
    BY <1>1, DivModUnique, SMTT(30)
<1>6. a * I + m = l
  BY <1>0, <1>1
<1> QED
  BY <1>3, <1>4, <1>5, <1>6 DEF Owner, LocalIdx

-----------------------------------------------------------------------------
\* A token, written with its rank's share of it.
LEMMA TokenShape ==
  ASSUME NEW tok \in Nat
  PROVE  /\ Owner(tok) \in Ranks /\ LocalIdx(tok) \in Nat
         /\ LocalIdx(tok) \div I = tok \div (W * I)
         /\ LocalIdx(tok) % I = tok % I
         /\ tok = (W * I) * (tok \div (W * I)) + (I * Owner(tok) + (tok % I))
         /\ tok \div (W * I) \in Nat
         /\ (tok \div I) \div W = tok \div (W * I)
<1> DEFINE grp == tok \div I
           m == tok % I
           x == grp \div W
           o == grp % W
<1>0. W \in Nat \ {0} /\ I \in Nat \ {0} /\ 0 \in Ranks
  BY DcpAssumption DEF Ranks
<1>1. grp \in Nat /\ m \in 0 .. I - 1 /\ tok = I * grp + m
  BY <1>0, GlobalShape
<1>2. x \in Int /\ o \in 0 .. W - 1 /\ grp = W * x + o
  <2> HIDE DEF grp
  <2> QED
    BY <1>0, <1>1, DivMod
<1>3. o \in Ranks /\ Owner(tok) = o
  BY <1>2 DEF Ranks, Owner
<1>4. x \in Nat
  <2> SUFFICES ASSUME x < 0 PROVE FALSE
    BY <1>2
  <2>1. - x - 1 \in Nat
    BY <1>2
  <2>2. W * (- x - 1) \in Nat
    BY <1>0, <2>1, ProductNat
  <2>3. W * (- x - 1) = - (W * x) - W
    BY <1>0, <1>2
  <2> HIDE DEF x, o, grp
  <2> QED
    BY <1>0, <1>1, <1>2, <2>2, <2>3
<1> DEFINE l == I * x + m
<1>5. l \in Nat /\ l \div I = x /\ l % I = m
  <2>1. I * x \in Nat
    BY <1>0, <1>4, ProductNat
  <2> HIDE DEF x, m
  <2> QED
    BY <1>0, <1>1, <1>4, <2>1, DivModUnique
<1>6. W * I \in Nat \ {0} /\ I * o + m \in 0 .. W * I - 1
  <2>1. I * o + (l % I) \in 0 .. W * I - 1 /\ W * I \in Nat \ {0}
    BY <1>3, <1>5, GlobalShape
  <2> QED
    BY <1>5, <2>1
<1>7. tok = (W * I) * x + (I * o + m)
  <2> HIDE DEF x, o, m, grp
  <2>1. tok = I * (W * x + o) + m
    BY <1>1, <1>2
  <2>2. I * (W * x + o) = (W * I) * x + I * o
    BY <1>0, <1>2
  <2>3. I * o \in Int /\ (W * I) * x \in Int
    BY <1>0, <1>2
  <2> QED
    BY <1>1, <2>1, <2>2, <2>3
<1>8. tok \div (W * I) = x
  <2> HIDE DEF x, o, m, grp
  <2> QED
    BY <1>2, <1>6, <1>7, DivModUnique
<1>9. LocalIdx(tok) = l
  <2>1. LocalIdx(tok) = (tok \div (W * I)) * I + m
    BY DEF LocalIdx
  <2> HIDE DEF x, m
  <2>2. x * I = I * x
    BY <1>0, <1>2
  <2> QED
    BY <1>8, <2>1, <2>2
<1>10. (tok \div I) \div W = x
  OBVIOUS
<1> HIDE DEF x, o, l, m, grp
<1> QED
  BY <1>3, <1>4, <1>5, <1>7, <1>8, <1>9, <1>10 DEF m

\* The pack kernel undoes the remap kernel: no two tokens share an owner and
\* a local index.
THEOREM GlobalOfLocal ==
  ASSUME NEW tok \in Nat
  PROVE  GlobalIdx(Owner(tok), LocalIdx(tok)) = tok
<1> DEFINE l == LocalIdx(tok)
           o == Owner(tok)
<1>1. /\ o \in Ranks /\ l \in Nat
      /\ l \div I = tok \div (W * I) /\ l % I = tok % I
      /\ tok = (W * I) * (tok \div (W * I)) + (I * o + (tok % I))
  BY TokenShape
<1>2. GlobalIdx(o, l) = (W * I) * (l \div I) + (I * o + (l % I))
  BY <1>1, GlobalShape
<1> QED
  BY <1>1, <1>2

-----------------------------------------------------------------------------
\* For every token: the block and offset the remap kernel reads are those the
\* slot mapping wrote, on the owner, because a block holds whole groups.
THEOREM ReadWhereWritten ==
  ASSUME NEW tok \in Nat
  PROVE  /\ ReadBlock(LocalIdx(tok)) = WriteBlock(tok)
         /\ ReadOffset(LocalIdx(tok)) = WriteOffset(tok)
<1> DEFINE c  == BlockSize \div I
           wb == tok \div (BlockSize * W)
           v  == tok % (BlockSize * W)
           x  == v \div (W * I)
           z  == v % I
<1>0. W \in Nat \ {0} /\ I \in Nat \ {0} /\ BlockSize \in Nat \ {0}
  BY DcpAssumption
<1>1. c \in Int /\ BlockSize = I * c
  BY DcpAssumption, DivMod
<1>2. BlockSize * W \in Nat \ {0} /\ W * I \in Nat \ {0}
  <2>1. (W - 1) * I \in Nat /\ (W - 1) * I = W * I - I
    BY <1>0, ProductNat
  <2>2. (W - 1) * BlockSize \in Nat /\ (W - 1) * BlockSize = BlockSize * W - BlockSize
    BY <1>0, ProductNat
  <2> QED
    BY <1>0, <2>1, <2>2
<1>3. wb \in Int /\ v \in Nat /\ v < BlockSize * W /\ tok = (BlockSize * W) * wb + v
  <2> DEFINE bw == BlockSize * W
  <2>1. bw \in Nat \ {0}
    BY <1>2
  <2>2. wb = tok \div bw /\ v = tok % bw
    OBVIOUS
  <2>3. SUFFICES wb \in Int /\ v \in Nat /\ v < bw /\ tok = bw * wb + v
    OBVIOUS
  <2> HIDE DEF bw, wb, v
  <2> QED
    BY <2>1, <2>2, DivMod
<1>4. /\ LocalIdx(v) = I * x + z /\ x \in Nat /\ z \in 0 .. I - 1
      /\ Owner(v) \in Ranks /\ v = (W * I) * x + (I * Owner(v) + z)
      /\ I * Owner(v) + z \in 0 .. W * I - 1
  <2>1. /\ Owner(v) \in Ranks /\ LocalIdx(v) \in Nat
        /\ LocalIdx(v) \div I = x /\ LocalIdx(v) % I = z
        /\ v = (W * I) * x + (I * Owner(v) + z) /\ x \in Nat
    BY <1>3, TokenShape
  <2>2. /\ LocalIdx(v) = I * (LocalIdx(v) \div I) + (LocalIdx(v) % I)
        /\ LocalIdx(v) % I \in 0 .. I - 1
        /\ I * Owner(v) + (LocalIdx(v) % I) \in 0 .. W * I - 1
    BY <2>1, GlobalShape
  <2> HIDE DEF x, z, v
  <2> QED
    BY <2>1, <2>2
<1> DEFINE y == I * Owner(v) + z
<1>5. x < c
  <2> SUFFICES ASSUME x >= c PROVE FALSE
    BY <1>1, <1>4
  <2> HIDE DEF x, c, v, z
  <2>1. (W * I) * (x - c) \in Nat
    BY <1>1, <1>2, <1>4, ProductNat
  <2>2. (W * I) * (x - c) = (W * I) * x - (W * I) * c
    BY <1>0, <1>1, <1>4
  <2>3. (W * I) * c = BlockSize * W
    BY <1>0, <1>1
  <2> QED
    BY <1>2, <1>3, <1>4, <2>1, <2>2, <2>3
<1>6. tok = (W * I) * (c * wb + x) + y
  <2> HIDE DEF x, c, v, wb, y
  <2>1. (BlockSize * W) * wb = (W * I) * (c * wb)
    BY <1>0, <1>1, <1>3
  <2>2. (W * I) * (c * wb + x) = (W * I) * (c * wb) + (W * I) * x
    BY <1>0, <1>1, <1>3, <1>4
  <2>3. v = (W * I) * x + y
    BY <1>4 DEF y
  <2>4. /\ y \in Int /\ (W * I) * x \in Int /\ (W * I) * (c * wb) \in Int
    BY <1>0, <1>1, <1>3, <1>4 DEF y, Ranks
  <2>5. tok = (BlockSize * W) * wb + v
    BY <1>3
  <2> QED
    BY <2>1, <2>2, <2>3, <2>4, <2>5
<1>7. tok \div (W * I) = c * wb + x
  <2>1. c * wb + x \in Int
    BY <1>1, <1>3, <1>4
  <2>2. y \in 0 .. W * I - 1
    BY <1>4
  <2> HIDE DEF x, c, wb, y
  <2> QED
    BY <1>2, <1>6, <2>1, <2>2, DivModUnique
<1>8. tok % I = z
  <2> DEFINE g == W * (c * wb + x) + Owner(v)
  <2>1. Owner(v) \in Int /\ c * wb + x \in Int
    BY <1>1, <1>3, <1>4 DEF Ranks
  <2>2. g \in Int
    BY <1>0, <2>1
  <2> HIDE DEF x, c, wb, v, z
  <2>3. tok = I * g + z
    BY <1>0, <1>4, <1>6, <2>1
  <2> HIDE DEF g
  <2> QED
    BY <1>0, <1>4, <2>2, <2>3, DivModUnique
<1>9. LocalIdx(tok) = BlockSize * wb + (I * x + z)
  <2>1. LocalIdx(tok) = (c * wb + x) * I + z
    BY <1>7, <1>8 DEF LocalIdx
  <2> HIDE DEF x, c, wb, z
  <2>2. (c * wb + x) * I = BlockSize * wb + I * x
    BY <1>0, <1>1, <1>3, <1>4
  <2> QED
    BY <2>1, <2>2, <1>0, <1>3, <1>4
<1>10. I * x + z \in 0 .. BlockSize - 1
  <2> HIDE DEF x, c, z
  <2>1. I * (c - 1 - x) \in Nat /\ I * x \in Nat
    BY <1>0, <1>1, <1>4, <1>5, ProductNat
  <2>2. I * (c - 1 - x) = BlockSize - I - I * x
    BY <1>0, <1>1, <1>4
  <2> QED
    BY <1>0, <1>4, <2>1, <2>2
<1>11. WriteOffset(tok) = I * x + z /\ WriteBlock(tok) = wb
  <2>1. WriteOffset(tok) = LocalIdx(v) /\ WriteBlock(tok) = wb
    BY DEF WriteOffset, WriteBlock, LocalIdx
  <2> QED
    BY <2>1, <1>4
<1>12. /\ (BlockSize * wb + (I * x + z)) \div BlockSize = wb
       /\ (BlockSize * wb + (I * x + z)) % BlockSize = I * x + z
  <2> DEFINE off == I * x + z
  <2>1. off \in 0 .. BlockSize - 1
    BY <1>10
  <2> HIDE DEF off, wb
  <2>2. (BlockSize * wb + off) \div BlockSize = wb /\ (BlockSize * wb + off) % BlockSize = off
    BY <1>0, <1>3, <2>1, DivModUnique
  <2> QED
    BY <2>2 DEF off
<1> QED
  BY <1>9, <1>11, <1>12 DEF ReadBlock, ReadOffset

-----------------------------------------------------------------------------
\* For every length: a rank's local indices below its local length are exactly
\* those of the tokens that exist, so a rank scores all its tokens and no slot
\* beyond them.
THEOREM LenCountsTokens ==
  ASSUME NEW rank \in Ranks, NEW l \in Nat, NEW n \in Nat
  PROVE  l < LocalLen(rank, n) <=> GlobalIdx(rank, l) < n
<1> DEFINE x == n \div (W * I)
           o == Owner(n)
           m == n % I
           a == l \div I
           j == l % I
           d == n - (x * I) * W - rank * I
           clip == Clip(d, 0, I)
           g == GlobalIdx(rank, l)
           len == LocalLen(rank, n)
<1>0. W \in Nat \ {0} /\ I \in Nat \ {0} /\ rank \in Int /\ rank >= 0
  BY DcpAssumption DEF Ranks
<1>1. /\ x \in Nat /\ n = (W * I) * x + (I * o + m) /\ o \in Ranks
      /\ (n \div I) \div W = x
  BY TokenShape
<1>2. /\ I * o + m \in 0 .. W * I - 1
      /\ m \in 0 .. I - 1
  <2> DEFINE k == LocalIdx(n)
  <2>1. k \in Nat /\ k % I = m /\ o \in Ranks
    BY TokenShape
  <2>2. I * o + (k % I) \in 0 .. W * I - 1 /\ k % I \in 0 .. I - 1
    BY <2>1, GlobalShape
  <2> HIDE DEF k, o, m
  <2> QED
    BY <2>1, <2>2
<1>3. /\ g = (W * I) * a + (I * rank + j) /\ I * rank + j \in 0 .. W * I - 1
      /\ a \in Nat /\ j \in 0 .. I - 1 /\ l = I * a + j
  BY GlobalShape
<1>4. len = x * I + clip
  BY <1>1 DEF LocalLen
<1> HIDE DEF x, o, m, a, j, g, len
<1>5. d \in Int /\ d = (I * o + m) - I * rank
  <2>1. (x * I) * W = (W * I) * x /\ (x * I) * W \in Int
    BY <1>0, <1>1
  <2>2. rank * I = I * rank /\ I * rank \in Int /\ I * o + m \in Int
    BY <1>0, <1>2
  <2> QED
    BY <1>1, <2>1, <2>2
<1> HIDE DEF d
<1>6. clip \in 0 .. I /\ (j < clip <=> j < d)
  BY <1>0, <1>3, <1>5 DEF Clip
<1> HIDE DEF clip
<1> DEFINE B == W * I
           r == I * o + m
           q == I * rank + j
<1>7. B \in Int /\ r \in 0 .. B - 1 /\ q \in 0 .. B - 1 /\ I * rank \in Int
  BY <1>0, <1>2, <1>3
<1>8. n = B * x + r /\ g = B * a + q /\ d = r - I * rank
  BY <1>1, <1>3, <1>5
<1> HIDE DEF B, r
<1>9. CASE a < x
  <2>1. x - 1 - a \in Nat
    BY <1>1, <1>3, <1>9
  <2>2. I * (x - 1 - a) \in Nat /\ B * (x - 1 - a) \in Nat
    BY <2>1, <1>0, <1>7, ProductNat
  <2>3. I * (x - 1 - a) = x * I - I - I * a /\ B * (x - 1 - a) = B * x - B - B * a
    BY <1>0, <1>1, <1>3, <1>7
  <2>4. x * I \in Int /\ I * a \in Int /\ B * x \in Int /\ B * a \in Int
    BY <1>0, <1>1, <1>3, <1>7
  <2>5. l < len
    BY <2>2, <2>3, <2>4, <1>0, <1>3, <1>4, <1>6
  <2> HIDE DEF q
  <2>6. g < n
    BY <2>2, <2>3, <2>4, <1>7, <1>8
  <2> QED
    BY <2>5, <2>6 DEF len, g
<1>10. CASE a > x
  <2>1. a - 1 - x \in Nat
    BY <1>1, <1>3, <1>10
  <2>2. I * (a - 1 - x) \in Nat /\ B * (a - 1 - x) \in Nat
    BY <2>1, <1>0, <1>7, ProductNat
  <2>3. I * (a - 1 - x) = I * a - I - x * I /\ B * (a - 1 - x) = B * a - B - B * x
    BY <1>0, <1>1, <1>3, <1>7
  <2>4. x * I \in Int /\ I * a \in Int /\ B * x \in Int /\ B * a \in Int
    BY <1>0, <1>1, <1>3, <1>7
  <2>5. ~ (l < len)
    BY <2>2, <2>3, <2>4, <1>0, <1>3, <1>4, <1>6
  <2> HIDE DEF q
  <2>6. ~ (g < n)
    BY <2>2, <2>3, <2>4, <1>7, <1>8
  <2> QED
    BY <2>5, <2>6 DEF len, g
<1>11. CASE a = x
  <2>1. x * I = I * a /\ I * a \in Int /\ B * a \in Int
    BY <1>0, <1>3, <1>7, <1>11
  <2>2. l < len <=> j < clip
    BY <2>1, <1>0, <1>3, <1>4, <1>6
  <2>3. j < d <=> q < r
    BY <1>3, <1>7, <1>8
  <2> HIDE DEF q
  <2>4. g < n <=> q < r
    BY <2>1, <1>7, <1>8, <1>11
  <2> QED
    BY <2>2, <2>3, <2>4, <1>6 DEF len, g
<1> QED
  BY <1>1, <1>3, <1>9, <1>10, <1>11 DEF len, g

\* At interleave 1 the closed form the draft loop uses is the local length.
THEOREM DraftLenExact ==
  ASSUME I = 1, NEW rank \in Ranks, NEW n \in Nat
  PROVE  DraftLocalLen(rank, n) = LocalLen(rank, n)
<1> DEFINE x == n \div W
           o == n % W
<1>0. W \in Nat \ {0} /\ rank \in 0 .. W - 1
  BY DcpAssumption DEF Ranks
<1>1. x \in Int /\ o \in 0 .. W - 1 /\ n = W * x + o /\ W * x \in Int
  BY <1>0, DivMod
<1>2. n \div I = n
  OBVIOUS
<1>3. LocalLen(rank, n) = x * I + Clip(n - (x * I) * W - rank * I, 0, I)
  BY <1>2 DEF LocalLen
<1> HIDE DEF x, o
<1>4. x * I = x /\ (x * I) * W = W * x /\ rank * I = rank
  BY <1>0, <1>1
<1>5. LocalLen(rank, n) = x + Clip(o - rank, 0, 1)
  <2>1. n - (x * I) * W - rank * I = o - rank
    BY <1>0, <1>1, <1>4
  <2> QED
    BY <2>1, <1>3, <1>4
<1>6. CASE o > rank
  <2> DEFINE r == o - 1 - rank
             p == x + 1
  <2>1. n + (W - 1 - rank) = W * p + r
    <3>1. W * p = W * x + W
      BY <1>0, <1>1
    <3> QED
      BY <3>1, <1>0, <1>1
  <2>2. p \in Int /\ r \in 0 .. W - 1 /\ Clip(o - rank, 0, 1) = 1
    BY <1>0, <1>1, <1>6 DEF Clip
  <2> HIDE DEF r, p
  <2>3. DraftLocalLen(rank, n) = p
    BY <2>1, <2>2, <1>0, DivModUnique DEF DraftLocalLen
  <2> QED
    BY <2>2, <2>3, <1>5 DEF p
<1>7. CASE o <= rank
  <2> DEFINE r == o + (W - 1 - rank)
  <2>1. n + (W - 1 - rank) = W * x + r
    BY <1>0, <1>1
  <2>2. r \in 0 .. W - 1 /\ Clip(o - rank, 0, 1) = 0
    BY <1>0, <1>1, <1>7 DEF Clip
  <2> HIDE DEF r
  <2>3. DraftLocalLen(rank, n) = x
    BY <2>1, <2>2, <1>0, <1>1, DivModUnique DEF DraftLocalLen
  <2> QED
    BY <2>2, <2>3, <1>1, <1>5
<1> QED
  BY <1>0, <1>1, <1>6, <1>7

-----------------------------------------------------------------------------
(* DcpPool: what a rank's choices depend on.                               *)

Positions == 1 .. Len(program)

\* What a rank's choices depend on.  Of the checkpoints only those of live
\* pools count: the one of a pool that was voted off is never read.
Local(r) ==
  [pools |-> pools[r], disabled |-> disabled[r], active |-> active[r],
   contexts |-> contexts[r],
   saved |-> [k \in Keys |-> IF pools[r][k] = None THEN None ELSE checkpoint[r][k]]]

Start == [pools |-> Nothing, disabled |-> {}, active |-> None, contexts |-> <<>>,
          saved |-> Nothing]

NewPool(ch)  == [chans |-> {Eager} \cup Joined(ch), open |-> Joined(ch)]
NewSaved(ch) == IF ch \in Profile THEN Checkpointed({Eager}, ch) ELSE None

-----------------------------------------------------------------------------
(* An operation as one step: what it makes of a state s, given the verdict  *)
(* on the pool it creates, if it creates one.                              *)

Needs(s, o) == o.op = "call" /\ o.arg \notin s.disabled /\ s.pools[o.arg] = None

Falls(s, o, verdict) ==
  o.arg \in s.disabled \/ (s.pools[o.arg] = None /\ (o.op = "record" \/ verdict = "off"))

Result(s, o, verdict) ==
  IF o.op \notin {"call", "record"} THEN None
  ELSE IF Falls(s, o, verdict) THEN "fallback"
  ELSE IF s.active = None THEN Eager ELSE s.active

VotedOff(s, key) ==
  [pools |-> s.pools, disabled |-> s.disabled \cup {key}, active |-> s.active,
   contexts |-> s.contexts, saved |-> s.saved]

Created(s, key) ==
  [pools |-> [s.pools EXCEPT ![key] = NewPool(s.active)], disabled |-> s.disabled,
   active |-> s.active, contexts |-> s.contexts,
   saved |-> [s.saved EXCEPT ![key] = NewSaved(s.active)]]

AfterCall(s, o, verdict) ==
  IF ~Needs(s, o) THEN s ELSE IF verdict = "off" THEN VotedOff(s, o.arg) ELSE Created(s, o.arg)

AfterCapture(s, ch) ==
  IF ch = None \/ s.active # None
  THEN [pools |-> s.pools, disabled |-> s.disabled, active |-> s.active,
        contexts |-> Append(s.contexts, "plain"), saved |-> s.saved]
  ELSE [pools |-> [k \in Keys |-> IF s.pools[k] # None THEN Bind(s.pools[k], ch) ELSE None],
        disabled |-> s.disabled, active |-> ch, contexts |-> Append(s.contexts, "bound"),
        saved |-> [k \in Keys |-> IF s.pools[k] # None
                                  THEN Keeps(s.saved[k], s.pools[k].chans, ch) ELSE None]]

AfterExit(s) ==
  LET rest == SubSeq(s.contexts, 1, Len(s.contexts) - 1)
  IN  IF s.contexts[Len(s.contexts)] = "plain"
      THEN [pools |-> s.pools, disabled |-> s.disabled, active |-> s.active,
            contexts |-> rest, saved |-> s.saved]
      ELSE [pools |-> [k \in Keys |-> IF s.pools[k] # None
                         THEN [s.pools[k] EXCEPT !.open = @ \ {s.active}] ELSE None],
            disabled |-> s.disabled, active |-> None, contexts |-> rest, saved |-> s.saved]

AfterDiscard(s) ==
  [pools |-> [k \in Keys |-> IF s.pools[k] # None /\ s.saved[k] # None
                THEN [s.pools[k] EXCEPT !.chans = s.saved[k]] ELSE s.pools[k]],
   disabled |-> s.disabled, active |-> s.active, contexts |-> s.contexts, saved |-> Nothing]

After(s, o, verdict) ==
  CASE o.op \in {"call", "record"} -> AfterCall(s, o, verdict)
    [] o.op = "capture"            -> AfterCapture(s, o.arg)
    [] o.op = "exit"               -> AfterExit(s)
    [] o.op = "discard"            -> AfterDiscard(s)

-----------------------------------------------------------------------------
(* The inductive invariant.                                                *)

Kinds == {"plain", "bound"}

Types ==
  /\ program \in Programs
  /\ broken \subseteq Members
  /\ at \in [Members -> 1 .. Len(program) + 1]
  /\ label \in [Members -> {"run", "reduce", "issue", "rollback", "dead"}]
  /\ pools \in [Members -> [Keys -> Pool \cup {None}]]
  /\ disabled \in [Members -> SUBSET Keys]
  /\ active \in [Members -> Channels \cup {None}]
  /\ contexts \in [Members -> Seq(Kinds)]
  /\ checkpoint \in [Members -> [Keys -> (SUBSET Channels) \cup {None}]]
  /\ building \in [Members -> Pool \cup {None}]
  /\ votes \in [Members -> [Positions -> BOOLEAN \cup {None}]]
  /\ outcome \in [Members -> [Positions -> Channels \cup {"fallback", None}]]
  /\ graphs \in [Members -> SUBSET [key : Keys, channel : Channels]]

\* Where a rank is in an operation, and what it has there.
Placed(r) ==
  /\ label[r] # "run" => at[r] \in Positions
  /\ label[r] = "issue" => Op(r).op \in {"call", "record"} /\ pools[r][Key(r)] # None
  /\ label[r] = "reduce" =>
       /\ Op(r).op = "call" /\ Key(r) \notin disabled[r] /\ pools[r][Key(r)] = None
       /\ r \notin broken /\ votes[r][at[r]] \in BOOLEAN
       /\ votes[r][at[r]] = FALSE =>
            building[r] = NewPool(active[r]) /\ checkpoint[r][Key(r)] = NewSaved(active[r])
  /\ label[r] = "rollback" => Op(r).op = "discard"

\* A key with no pool has no checkpoint, unless its pool was voted off or is
\* being voted on.
Fresh(r) ==
  \A k \in Keys :
    pools[r][k] = None /\ k \notin disabled[r] /\ checkpoint[r][k] # None =>
      label[r] = "reduce" /\ Key(r) = k

\* A rank votes once on an operation, when it gets there, and never without
\* the pool class.
VotesInTurn(r) ==
  \A i \in Positions :
    votes[r][i] # None =>
      r \notin broken /\ (i < at[r] \/ (i = at[r] /\ label[r] \in {"reduce", "issue"}))

Inv == Types /\ \A r \in Members : Placed(r) /\ Fresh(r) /\ VotesInTurn(r)

\* The pool of the i-th operation is off if some rank cannot create it.
Verdict(i) ==
  IF broken # {} \/ \E q \in Members : votes[q][i] = TRUE THEN "off" ELSE "kept"

\* The vote on the i-th operation, if it takes one in state s, is complete;
\* with a rank that has no pool class nobody waits for it and goes on.
Settled(s, i) ==
  Needs(s, program[i]) => broken # {} \/ \A q \in Members : votes[q][i] # None

\* h is the one history of all ranks: h[i] is the state in which each of them
\* comes to the i-th operation.
Explains(h) ==
  /\ h[1] = Start
  /\ \A i \in Positions : (\E r \in Members : at[r] > i) =>
       h[i + 1] = After(h[i], program[i], Verdict(i)) /\ Settled(h[i], i)

Follows(r, h) ==
  /\ label[r] # "issue" => Local(r) = h[at[r]]
  /\ label[r] = "issue" =>
       /\ Local(r) = After(h[at[r]], Op(r), Verdict(at[r]))
       /\ ~Falls(h[at[r]], Op(r), Verdict(at[r])) /\ Settled(h[at[r]], at[r])
  /\ \A i \in Positions :
       outcome[r][i] = IF i < at[r] THEN Result(h[i], program[i], Verdict(i)) ELSE None

HInv(h) == Explains(h) /\ \A r \in Members : Follows(r, h)

\* A pool with its checkpoint, on a rank whose capture is on channel ch.
Sound(pool, saved, ch) ==
  /\ Eager \in pool.chans
  /\ Joined(ch) \subseteq pool.chans /\ pool.open \subseteq Joined(ch)
  /\ saved = None => pool.chans \cap Profile = {}

ChanInv(r) ==
  /\ \A k \in Keys : pools[r][k] # None => Sound(pools[r][k], checkpoint[r][k], active[r])
  /\ \A k \in Keys : checkpoint[r][k] # None =>
       Eager \in checkpoint[r][k] /\ checkpoint[r][k] \cap Profile = {}
  /\ active[r] # None => \E j \in 1 .. Len(contexts[r]) : contexts[r][j] = "bound"
  /\ Len(contexts[r]) + Done(program, at[r], "exit") = Done(program, at[r], "capture")
  /\ label[r] = "rollback" => graphs[r] = {}

\* The rank's part of GraphsKeepChannels, and of ProfilingLeavesNothing.
Keeping(r) ==
  \A g \in graphs[r] : pools[r][g.key] # None /\ g.channel \in pools[r][g.key].chans

Clean(r) ==
  label[r] = "run" /\ at[r] > 1 /\ program[at[r] - 1].op = "discard" =>
    /\ \A k \in Keys : checkpoint[r][k] = None
    /\ \A k \in Live(r) : pools[r][k].chans \cap Profile = {} /\ pools[r][k].open = {}

Kept == Inv /\ \A r \in Members : ChanInv(r) /\ Keeping(r) /\ Clean(r)

-----------------------------------------------------------------------------
(* Types.                                                                  *)

LEMMA OperationFacts ==
  ASSUME program \in Programs, NEW i \in Positions
  PROVE  /\ program[i] \in Operations
         /\ program[i].op \in {"call", "record"} => program[i].arg \in Keys
         /\ program[i].op = "capture" => program[i].arg \in Channels \cup {None}
<1>1. program \in Seq(Operations)
  BY ProgramsAssumption
<1>2. program[i] \in Operations
  BY <1>1, ElementOfSeq DEF Positions
<1> QED
  BY <1>2 DEF Operations

LEMMA LengthFact ==
  ASSUME program \in Programs
  PROVE  Len(program) \in Nat
<1>1. program \in Seq(Operations)
  BY ProgramsAssumption
<1> QED
  BY <1>1, LenProperties

LEMMA PoolFacts ==
  ASSUME NEW ch \in Channels \cup {None}
  PROVE  /\ Joined(ch) \subseteq Channels
         /\ NewPool(ch) \in Pool /\ NewPool(ch) # None
         /\ NewSaved(ch) \in (SUBSET Channels) \cup {None}
         /\ [chans |-> {Eager}, open |-> {}] \in Pool
         /\ Checkpointed({Eager}, ch) \in SUBSET Channels
<1>1. Eager \in Channels
  BY ChannelsAssumption DEF Channels
<1>2. Joined(ch) \subseteq Channels
  BY DEF Joined
<1>3. NewPool(ch) \in Pool
  BY <1>1, <1>2 DEF NewPool, Pool
<1> QED
  BY <1>1, <1>2, <1>3, NoneAssumption DEF NewSaved, Checkpointed, Pool

LEMMA TypesInit == Init => Types
<1> SUFFICES ASSUME Init PROVE Types
  OBVIOUS
<1> USE DEF Init
<1>1. Len(program) \in Nat /\ 1 \in 1 .. Len(program) + 1
  BY LengthFact
<1>2. Nothing \in [Keys -> Pool \cup {None}] /\ Nothing \in [Keys -> (SUBSET Channels) \cup {None}]
  BY DEF Nothing
<1>3. contexts \in [Members -> Seq(Kinds)]
  BY EmptySeq
<1>4. broken \subseteq Members
  BY ImportAssumption
<1> QED
  BY <1>1, <1>2, <1>3, <1>4 DEF Types, Positions

(* A step that ends an operation, or moves on within it.                   *)
LEMMA MoveTypes ==
  ASSUME Types, NEW r \in Members,
         \/ NextOp(r) /\ at[r] \in Positions
         \/ \E l \in {"reduce", "issue", "rollback", "dead"} : Stay(r, l)
  PROVE  /\ at' \in [Members -> 1 .. Len(program) + 1]
         /\ label' \in [Members -> {"run", "reduce", "issue", "rollback", "dead"}]
<1>1. Len(program) \in Nat
  BY LengthFact DEF Types
<1>2. CASE NextOp(r) /\ at[r] \in Positions
  <2>1. at[r] + 1 \in 1 .. Len(program) + 1
    BY <1>1, <1>2 DEF Positions
  <2> QED
    BY <2>1, <1>2 DEF NextOp, Types
<1>3. CASE \E l \in {"reduce", "issue", "rollback", "dead"} : Stay(r, l)
  BY <1>3 DEF Stay, Types
<1> QED
  BY <1>2, <1>3

LEMMA RunningFacts ==
  ASSUME Types, NEW r \in Members, NEW op, Running(r, op)
  PROVE  at[r] \in Positions /\ Op(r).op = op /\ label[r] = "run"
<1>1. Len(program) \in Nat /\ at[r] \in 1 .. Len(program) + 1
  BY LengthFact DEF Types
<1> QED
  BY <1>1 DEF Running, AtEnd, Positions

LEMMA CallFacts ==
  ASSUME Types, NEW r \in Members, at[r] \in Positions, Op(r).op \in {"call", "record"}
  PROVE  Key(r) \in Keys
BY OperationFacts DEF Types, Op, Key

(* What every action but the ones on captures leaves alone.                *)
LEMMA NeedsFacts ==
  ASSUME Types, NEW r \in Members, NeedsPool(r)
  PROVE  /\ at[r] \in Positions /\ Op(r).op = "call" /\ label[r] = "run"
         /\ Key(r) \in Keys /\ Key(r) \notin disabled[r] /\ pools[r][Key(r)] = None
BY RunningFacts, CallFacts DEF NeedsPool

LEMMA ReduceFacts ==
  ASSUME Types, NEW r \in Members, Placed(r), label[r] = "reduce"
  PROVE  /\ at[r] \in Positions /\ Key(r) \in Keys /\ Op(r).op = "call"
         /\ Key(r) \notin disabled[r] /\ pools[r][Key(r)] = None
BY CallFacts DEF Placed

LEMMA IssueFacts ==
  ASSUME Types, NEW r \in Members, Placed(r), label[r] = "issue"
  PROVE  at[r] \in Positions /\ Key(r) \in Keys
BY CallFacts DEF Placed

LEMMA TypesNext == Inv /\ [Next]_vars => Types'
<1> SUFFICES ASSUME Inv, [Next]_vars PROVE Types'
  OBVIOUS
<1>1. Types
  BY DEF Inv
<1>2. CASE UNCHANGED vars
  BY <1>1, <1>2 DEF Types, vars, local, Positions
<1>3. ASSUME NEW r \in Members, Step(r) PROVE Types'
  <2>0. Placed(r) /\ active[r] \in Channels \cup {None}
    BY <1>1 DEF Inv, Types
  <2>1. CASE GetKnown(r)
    <3>1. at[r] \in Positions
      BY <1>1, <2>1, RunningFacts DEF GetKnown, Calls
    <3>2. \/ FallBack(r)
          \/ Stay(r, "issue") /\ UNCHANGED outcome
      BY <2>1 DEF GetKnown
    <3>3. outcome' \in [Members -> [Positions -> Channels \cup {"fallback", None}]]
      <4>1. CASE FallBack(r)
        BY <1>1, <3>1, <4>1 DEF Types, FallBack
      <4>2. CASE UNCHANGED outcome
        BY <1>1, <4>2 DEF Types
      <4> QED
        BY <3>2, <4>1, <4>2
    <3>4. /\ at' \in [Members -> 1 .. Len(program) + 1]
          /\ label' \in [Members -> {"run", "reduce", "issue", "rollback", "dead"}]
      BY <1>1, <3>1, <3>2, MoveTypes DEF FallBack
    <3> QED
      BY <1>1, <2>1, <3>3, <3>4 DEF Types, GetKnown, Positions
  <2>2. CASE NoPoolClass(r)
    <3>1. at[r] \in Positions /\ Key(r) \in Keys
      BY <1>1, <2>2, NeedsFacts DEF NoPoolClass
    <3>2. /\ outcome' \in [Members -> [Positions -> Channels \cup {"fallback", None}]]
          /\ disabled' \in [Members -> SUBSET Keys]
      BY <1>1, <2>2, <3>1 DEF Types, FallBack, NoPoolClass
    <3>3. /\ at' \in [Members -> 1 .. Len(program) + 1]
          /\ label' \in [Members -> {"run", "reduce", "issue", "rollback", "dead"}]
      BY <1>1, <2>2, <3>1, MoveTypes DEF FallBack, NoPoolClass
    <3> QED
      BY <1>1, <2>2, <3>2, <3>3 DEF Types, NoPoolClass, Positions
  <2>3. CASE CreatePool(r)
    <3>1. at[r] \in Positions /\ Key(r) \in Keys
      BY <1>1, <2>3, NeedsFacts DEF CreatePool
    <3>2. building' = [building EXCEPT ![r] = NewPool(active[r])]
      BY <2>3 DEF CreatePool, NewPool
    <3>3. building' \in [Members -> Pool \cup {None}]
      BY <1>1, <2>0, <3>2, PoolFacts DEF Types
    <3>4. checkpoint' \in [Members -> [Keys -> (SUBSET Channels) \cup {None}]]
      <4>1. Checkpointed({Eager}, active[r]) \in SUBSET Channels
        BY <2>0, PoolFacts
      <4>2. checkpoint[r] \in [Keys -> (SUBSET Channels) \cup {None}]
        BY <1>1 DEF Types
      <4>3. PICK c \in (SUBSET Channels) \cup {None} :
              checkpoint' = [checkpoint EXCEPT ![r] = [@ EXCEPT ![Key(r)] = c]]
        BY <2>3, <3>1, <4>1, <4>2 DEF CreatePool
      <4> QED
        BY <1>1, <4>2, <4>3 DEF Types
    <3>5. votes' \in [Members -> [Positions -> BOOLEAN \cup {None}]]
      BY <1>1, <2>3, <3>1 DEF Types, CreatePool
    <3>6. /\ at' \in [Members -> 1 .. Len(program) + 1]
          /\ label' \in [Members -> {"run", "reduce", "issue", "rollback", "dead"}]
      BY <1>1, <2>3, MoveTypes DEF CreatePool
    <3> QED
      BY <1>1, <2>3, <3>3, <3>4, <3>5, <3>6 DEF Types, CreatePool, Positions
  <2>4. CASE CreateFails(r)
    <3>1. at[r] \in Positions /\ Key(r) \in Keys
      BY <1>1, <2>4, NeedsFacts DEF CreateFails
    <3>3. building' \in [Members -> Pool \cup {None}]
      BY <1>1, <2>0, <2>4, PoolFacts, ZenonT(60) DEF Types, CreateFails
    <3>4. checkpoint' \in [Members -> [Keys -> (SUBSET Channels) \cup {None}]]
      <4>1. Checkpointed({Eager}, active[r]) \in SUBSET Channels
        BY <2>0, PoolFacts
      <4>2. checkpoint[r] \in [Keys -> (SUBSET Channels) \cup {None}]
        BY <1>1 DEF Types
      <4>3. CASE UNCHANGED checkpoint
        BY <1>1, <4>3 DEF Types
      <4>4. CASE checkpoint' = [checkpoint EXCEPT ![r][Key(r)] =
             IF active[r] \in Profile THEN Checkpointed({Eager}, active[r]) ELSE @]
        <5>1. PICK c \in (SUBSET Channels) \cup {None} :
                checkpoint' = [checkpoint EXCEPT ![r] = [@ EXCEPT ![Key(r)] = c]]
          BY <3>1, <4>1, <4>2, <4>4
        <5> QED
          BY <1>1, <4>2, <5>1 DEF Types
      <4> QED
        BY <2>4, <4>3, <4>4 DEF CreateFails
    <3>5. votes' \in [Members -> [Positions -> BOOLEAN \cup {None}]]
      BY <1>1, <2>4, <3>1 DEF Types, CreateFails
    <3>6. /\ at' \in [Members -> 1 .. Len(program) + 1]
          /\ label' \in [Members -> {"run", "reduce", "issue", "rollback", "dead"}]
      BY <1>1, <2>4, MoveTypes DEF CreateFails
    <3> QED
      BY <1>1, <2>4, <3>3, <3>4, <3>5, <3>6 DEF Types, CreateFails, Positions
  <2>5. CASE Agree(r)
    <3>1. at[r] \in Positions /\ Key(r) \in Keys
      BY <1>1, <2>0, <2>5, ReduceFacts DEF Agree
    <3>2. \/ /\ disabled' = [disabled EXCEPT ![r] = @ \cup {Key(r)}]
             /\ FallBack(r) /\ UNCHANGED pools
          \/ /\ pools' = [pools EXCEPT ![r][Key(r)] = building[r]]
             /\ Stay(r, "issue") /\ UNCHANGED <<disabled, outcome>>
      BY <2>5 DEF Agree
    <3>3. /\ outcome' \in [Members -> [Positions -> Channels \cup {"fallback", None}]]
          /\ disabled' \in [Members -> SUBSET Keys]
          /\ pools' \in [Members -> [Keys -> Pool \cup {None}]]
      <4>1. CASE /\ disabled' = [disabled EXCEPT ![r] = @ \cup {Key(r)}]
                 /\ FallBack(r) /\ UNCHANGED pools
        BY <1>1, <3>1, <4>1 DEF Types, FallBack
      <4>2. CASE /\ pools' = [pools EXCEPT ![r][Key(r)] = building[r]]
                 /\ UNCHANGED <<disabled, outcome>>
        BY <1>1, <3>1, <4>2 DEF Types
      <4> QED
        BY <3>2, <4>1, <4>2
    <3>4. /\ at' \in [Members -> 1 .. Len(program) + 1]
          /\ label' \in [Members -> {"run", "reduce", "issue", "rollback", "dead"}]
      BY <1>1, <3>1, <3>2, MoveTypes DEF FallBack
    <3>5. building' \in [Members -> Pool \cup {None}]
      BY <1>1, <2>5 DEF Types, Agree
    <3> QED
      BY <1>1, <2>5, <3>3, <3>4, <3>5 DEF Types, Agree, Positions
  <2>6. CASE Issue(r)
    <3>1. at[r] \in Positions /\ Key(r) \in Keys
      BY <1>1, <2>0, <2>6, IssueFacts DEF Issue
    <3>2. Channel(r) \in Channels
      BY <2>0, ChannelsAssumption DEF Channel, Channels
    <3>3. /\ outcome' \in [Members -> [Positions -> Channels \cup {"fallback", None}]]
      BY <1>1, <2>6, <3>1, <3>2 DEF Types, Issue
    <3>4. graphs' \in [Members -> SUBSET [key : Keys, channel : Channels]]
      <4>1. [key |-> Key(r), channel |-> Channel(r)] \in [key : Keys, channel : Channels]
        BY <3>1, <3>2
      <4> QED
        BY <1>1, <2>6, <4>1 DEF Types, Issue
    <3>5. /\ at' \in [Members -> 1 .. Len(program) + 1]
          /\ label' \in [Members -> {"run", "reduce", "issue", "rollback", "dead"}]
      BY <1>1, <2>6, <3>1, MoveTypes DEF Issue
    <3> QED
      BY <1>1, <2>6, <3>3, <3>4, <3>5 DEF Types, Issue, Positions
  <2>7. CASE EnterPlain(r)
    <3>1. at[r] \in Positions
      BY <1>1, <2>7, RunningFacts DEF EnterPlain
    <3>2. contexts' \in [Members -> Seq(Kinds)]
      <4>1. Append(contexts[r], "plain") \in Seq(Kinds)
        BY <1>1, AppendProperties DEF Types, Kinds
      <4> QED
        BY <1>1, <2>7, <4>1 DEF Types, EnterPlain, Push
    <3>3. /\ at' \in [Members -> 1 .. Len(program) + 1]
          /\ label' \in [Members -> {"run", "reduce", "issue", "rollback", "dead"}]
      BY <1>1, <2>7, <3>1, MoveTypes DEF EnterPlain
    <3> QED
      BY <1>1, <2>7, <3>2, <3>3 DEF Types, EnterPlain, Positions
  <2>8. CASE EnterBound(r)
    <3>0. at[r] \in Positions /\ Op(r).op = "capture" /\ Op(r).arg # None
      BY <1>1, <2>8, RunningFacts DEF EnterBound
    <3>1. PICK ch \in Channels : ch = Op(r).arg
      BY <1>1, <3>0, OperationFacts DEF Types, Op
    <3>2. contexts' \in [Members -> Seq(Kinds)]
      <4>1. Append(contexts[r], "bound") \in Seq(Kinds)
        BY <1>1, AppendProperties DEF Types, Kinds
      <4> QED
        BY <1>1, <2>8, <4>1 DEF Types, EnterBound, Push
    <3>3. /\ at' \in [Members -> 1 .. Len(program) + 1]
          /\ label' \in [Members -> {"run", "reduce", "issue", "rollback", "dead"}]
      BY <1>1, <2>8, <3>0, MoveTypes DEF EnterBound
    <3>4. active' \in [Members -> Channels \cup {None}]
      BY <1>1, <2>8, <3>1 DEF Types, EnterBound
    <3>5. pools' \in [Members -> [Keys -> Pool \cup {None}]]
      <4>1. \A k \in Live(r) : Bind(pools[r][k], ch) \in Pool
        BY <1>1 DEF Types, Live, Bind, Pool
      <4>2. pools' = [pools EXCEPT ![r] = [k \in Keys |->
              IF k \in Live(r) THEN Bind(pools[r][k], ch) ELSE None]]
        BY <1>1, <2>8, <3>1 DEF EnterBound, Types
      <4> QED
        BY <1>1, <4>1, <4>2 DEF Types
    <3>6. checkpoint' \in [Members -> [Keys -> (SUBSET Channels) \cup {None}]]
      <4>1. \A k \in Live(r) :
              Keeps(checkpoint[r][k], pools[r][k].chans, ch) \in (SUBSET Channels) \cup {None}
        BY <1>1 DEF Types, Live, Keeps, Checkpointed, Pool
      <4>2. checkpoint' = [checkpoint EXCEPT ![r] = [k \in Keys |->
              IF k \in Live(r) THEN Keeps(checkpoint[r][k], pools[r][k].chans, ch)
              ELSE checkpoint[r][k]]]
        BY <1>1, <2>8, <3>1 DEF EnterBound, Types
      <4>3. \A k \in Keys : checkpoint[r][k] \in (SUBSET Channels) \cup {None}
        BY <1>1 DEF Types
      <4> QED
        BY <1>1, <4>1, <4>2, <4>3 DEF Types
    <3> QED
      BY <1>1, <2>8, <3>2, <3>3, <3>4, <3>5, <3>6 DEF Types, EnterBound, Positions
  <2>9. CASE EnterRaises(r)
    BY <1>1, <2>9 DEF Types, EnterRaises, Positions
  <2>10. CASE Exit(r)
    <3>1. at[r] \in Positions
      BY <1>1, <2>10, RunningFacts DEF Exit
    <3>2. contexts' \in [Members -> Seq(Kinds)]
      <4>1. contexts[r] \in Seq(Kinds) /\ Len(contexts[r]) \in Nat
        BY <1>1, LenProperties DEF Types
      <4>2. SubSeq(contexts[r], 1, Len(contexts[r]) - 1) \in Seq(Kinds)
        BY <4>1, SubSeqProperties
      <4> QED
        BY <1>1, <2>10, <4>2 DEF Types, Exit
    <3>3. /\ at' \in [Members -> 1 .. Len(program) + 1]
          /\ label' \in [Members -> {"run", "reduce", "issue", "rollback", "dead"}]
      BY <1>1, <2>10, <3>1, MoveTypes DEF Exit
    <3>4. active' \in [Members -> Channels \cup {None}]
      BY <1>1, <2>10 DEF Types, Exit
    <3>5. pools' \in [Members -> [Keys -> Pool \cup {None}]]
      <4>1. ASSUME NEW k \in Live(r)
            PROVE  [pools[r][k] EXCEPT !.open = @ \ {active[r]}] \in Pool
        <5>1. PICK p \in Pool : p = pools[r][k]
          BY <1>1, <4>1 DEF Types, Live
        <5>2. [p EXCEPT !.open = @ \ {active[r]}] \in Pool
          BY DEF Pool
        <5> QED
          BY <5>1, <5>2
      <4>2. CASE UNCHANGED pools
        BY <1>1, <4>2 DEF Types
      <4>3. CASE pools' = [pools EXCEPT ![r] = [k \in Keys |->
                   IF k \in Live(r) THEN [pools[r][k] EXCEPT !.open = @ \ {active[r]}] ELSE None]]
        <5>1. [k \in Keys |-> IF k \in Live(r)
                 THEN [pools[r][k] EXCEPT !.open = @ \ {active[r]}] ELSE None]
                \in [Keys -> Pool \cup {None}]
          BY <4>1
        <5>2. pools' = [pools EXCEPT ![r] = [k \in Keys |-> IF k \in Live(r)
                 THEN [pools[r][k] EXCEPT !.open = @ \ {active[r]}] ELSE None]]
          BY <4>3
        <5> QED
          BY <1>1, <5>1, <5>2 DEF Types
      <4> QED
        BY <2>10, <4>2, <4>3 DEF Exit
    <3> QED
      BY <1>1, <2>10, <3>2, <3>3, <3>4, <3>5 DEF Types, Exit, Positions
  <2>11. CASE ResetGraphs(r)
    <3>1. /\ at' \in [Members -> 1 .. Len(program) + 1]
          /\ label' \in [Members -> {"run", "reduce", "issue", "rollback", "dead"}]
      BY <1>1, <2>11, MoveTypes DEF ResetGraphs
    <3>2. graphs' \in [Members -> SUBSET [key : Keys, channel : Channels]]
      BY <1>1, <2>11 DEF Types, ResetGraphs
    <3> QED
      BY <1>1, <2>11, <3>1, <3>2 DEF Types, ResetGraphs, Positions
  <2>12. CASE Rollback(r)
    <3>1. at[r] \in Positions
      BY <2>0, <2>12 DEF Placed, Rollback
    <3>2. /\ at' \in [Members -> 1 .. Len(program) + 1]
          /\ label' \in [Members -> {"run", "reduce", "issue", "rollback", "dead"}]
      BY <1>1, <2>12, <3>1, MoveTypes DEF Rollback
    <3>3. checkpoint' \in [Members -> [Keys -> (SUBSET Channels) \cup {None}]]
      BY <1>1, <2>12 DEF Types, Rollback, Nothing
    <3>4. pools' \in [Members -> [Keys -> Pool \cup {None}]]
      <4>1. ASSUME NEW k \in Keys, k \in Live(r), checkpoint[r][k] # None
            PROVE  [pools[r][k] EXCEPT !.chans = checkpoint[r][k]] \in Pool
        <5>1. PICK p \in Pool : p = pools[r][k]
          BY <1>1, <4>1 DEF Types, Live
        <5>2. PICK c \in SUBSET Channels : c = checkpoint[r][k]
          BY <1>1, <4>1 DEF Types
        <5>3. [p EXCEPT !.chans = c] \in Pool
          BY DEF Pool
        <5> QED
          BY <5>1, <5>2, <5>3
      <4>2. pools' = [pools EXCEPT ![r] = [k \in Keys |->
              IF k \in Live(r) /\ checkpoint[r][k] # None
              THEN [pools[r][k] EXCEPT !.chans = checkpoint[r][k]] ELSE pools[r][k]]]
        BY <1>1, <2>12 DEF Rollback, Types
      <4>3. \A k \in Keys : pools[r][k] \in Pool \cup {None}
        BY <1>1 DEF Types
      <4> QED
        BY <1>1, <4>1, <4>2, <4>3 DEF Types
    <3> QED
      BY <1>1, <2>12, <3>2, <3>3, <3>4 DEF Types, Rollback, Positions
  <2> QED
    BY <1>3, <2>1, <2>2, <2>3, <2>4, <2>5, <2>6, <2>7, <2>8, <2>9, <2>10, <2>11, <2>12 DEF Step
<1> QED
  BY <1>2, <1>3 DEF Next

-----------------------------------------------------------------------------
(* A rank's own part of the invariant.                                     *)

Same(q) ==
  /\ at'[q] = at[q] /\ label'[q] = label[q]
  /\ pools'[q] = pools[q] /\ disabled'[q] = disabled[q] /\ active'[q] = active[q]
  /\ contexts'[q] = contexts[q] /\ checkpoint'[q] = checkpoint[q]
  /\ building'[q] = building[q] /\ votes'[q] = votes[q] /\ outcome'[q] = outcome[q]
  /\ graphs'[q] = graphs[q]

LEMMA OthersKeep ==
  ASSUME Types, NEW r \in Members, Step(r)
  PROVE  program' = program /\ broken' = broken /\ \A q \in Members \ {r} : Same(q)
<1> SUFFICES ASSUME NEW q \in Members \ {r}
             PROVE  program' = program /\ broken' = broken /\ Same(q)
  <2>1. program' = program /\ broken' = broken
    BY DEF Step, GetKnown, NoPoolClass, CreatePool, CreateFails, Agree, Issue, EnterPlain,
           EnterBound, EnterRaises, Exit, ResetGraphs, Rollback
  <2> QED
    BY <2>1
<1>1. q \in Members /\ q # r
  OBVIOUS
<1> USE <1>1 DEF Types, Same
<1>2. CASE GetKnown(r)
  <2>1. \/ FallBack(r)
        \/ Stay(r, "issue") /\ UNCHANGED outcome
    BY <1>2 DEF GetKnown
  <2> QED
    BY <1>2, <2>1 DEF GetKnown, FallBack, NextOp, Stay
<1>3. CASE NoPoolClass(r)
  BY <1>3 DEF NoPoolClass, FallBack, NextOp
<1>4. CASE CreatePool(r)
  BY <1>4 DEF CreatePool, Stay
<1>5. CASE CreateFails(r)
  BY <1>5 DEF CreateFails, Stay
<1>6. CASE Agree(r)
  <2>1. \/ /\ disabled' = [disabled EXCEPT ![r] = @ \cup {Key(r)}]
           /\ FallBack(r) /\ UNCHANGED pools
        \/ /\ pools' = [pools EXCEPT ![r][Key(r)] = building[r]]
           /\ Stay(r, "issue") /\ UNCHANGED <<disabled, outcome>>
    BY <1>6 DEF Agree
  <2> QED
    BY <1>6, <2>1 DEF Agree, FallBack, NextOp, Stay
<1>7. CASE Issue(r)
  BY <1>7 DEF Issue, NextOp
<1>8. CASE EnterPlain(r)
  BY <1>8 DEF EnterPlain, NextOp, Push
<1>9. CASE EnterBound(r)
  BY <1>9 DEF EnterBound, NextOp, Push
<1>10. CASE EnterRaises(r)
  BY <1>10 DEF EnterRaises
<1>11. CASE Exit(r)
  BY <1>11 DEF Exit, NextOp
<1>12. CASE ResetGraphs(r)
  BY <1>12 DEF ResetGraphs, Stay
<1>13. CASE Rollback(r)
  BY <1>13 DEF Rollback, NextOp
<1> QED
  BY <1>2, <1>3, <1>4, <1>5, <1>6, <1>7, <1>8, <1>9, <1>10, <1>11, <1>12, <1>13 DEF Step

Own(r) == Placed(r) /\ Fresh(r) /\ VotesInTurn(r)

LEMMA OwnKept ==
  ASSUME NEW q \in Members, Own(q), program' = program, broken' = broken, Same(q)
  PROVE  Own(q)'
BY DEF Own, Placed, Fresh, VotesInTurn, Same, Op, Key, Positions, NewPool, NewSaved

LEMMA OwnInit == Init => \A r \in Members : Own(r)
BY DEF Init, Own, Placed, Fresh, VotesInTurn, Positions, Nothing

(* An operation of r ends, and no vote is cast.                            *)
LEMMA OwnLeaves ==
  ASSUME Types, NEW r \in Members, Own(r), Types', program' = program, broken' = broken,
         at[r] \in Positions, NextOp(r), UNCHANGED votes,
         \A k \in Keys : pools'[r][k] = None /\ k \notin disabled'[r] => checkpoint'[r][k] = None
  PROVE  Own(r)'
<1>1. label'[r] = "run" /\ at'[r] = at[r] + 1 /\ at[r] \in Nat
  BY LengthFact DEF NextOp, Types, Positions
<1>2. Placed(r)'
  BY <1>1 DEF Placed
<1>3. Fresh(r)'
  BY DEF Fresh
<1>4. VotesInTurn(r)'
  <2>1. \A i \in Positions : i \in Int
    BY LengthFact DEF Types, Positions
  <2> QED
    BY <1>1, <2>1 DEF Own, VotesInTurn, Positions
<1> QED
  BY <1>2, <1>3, <1>4 DEF Own

LEMMA FreshFact ==
  ASSUME NEW r \in Members, Own(r), label[r] # "reduce", NEW k \in Keys,
         pools[r][k] = None, k \notin disabled[r]
  PROVE  checkpoint[r][k] = None
BY DEF Own, Fresh

LEMMA OwnNext ==
  ASSUME Types, Types', NEW r \in Members, Step(r), Own(r)
  PROVE  Own(r)'
<1>1. program' = program /\ broken' = broken
  BY OthersKeep
<1>2. CASE GetKnown(r)
  <2>1. at[r] \in Positions /\ label[r] = "run" /\ Op(r).op \in {"call", "record"}
    BY <1>2, RunningFacts DEF GetKnown, Calls
  <2>2. UNCHANGED <<pools, disabled, checkpoint, votes>>
    BY <1>2 DEF GetKnown
  <2>3. CASE FallBack(r)
    BY <1>1, <2>1, <2>2, <2>3, OwnLeaves, FreshFact DEF FallBack
  <2>4. CASE Stay(r, "issue") /\ pools[r][Key(r)] # None
    <3>1. at' = at /\ label'[r] = "issue"
      BY <2>4 DEF Stay, Types
    <3>2. Placed(r)'
      BY <1>1, <2>1, <2>2, <2>4, <3>1 DEF Placed, Op, Key, Positions
    <3>3. Fresh(r)' /\ VotesInTurn(r)'
      BY <1>1, <2>1, <2>2, <3>1 DEF Own, Fresh, VotesInTurn, Positions
    <3> QED
      BY <3>2, <3>3 DEF Own
  <2> QED
    BY <1>2, <2>3, <2>4 DEF GetKnown
<1>3. CASE NoPoolClass(r)
  <2>1. at[r] \in Positions /\ label[r] = "run"
    BY <1>3, NeedsFacts DEF NoPoolClass
  <2>2. /\ UNCHANGED <<pools, checkpoint, votes>> /\ disabled[r] \subseteq disabled'[r]
        /\ NextOp(r)
    BY <1>3 DEF NoPoolClass, Types, FallBack
  <2> QED
    BY <1>1, <2>1, <2>2, OwnLeaves, FreshFact
<1>4. ASSUME NeedsPool(r), r \notin broken, Stay(r, "reduce"), UNCHANGED <<pools, disabled, active>>,
             \A k \in Keys \ {Key(r)} : checkpoint'[r][k] = checkpoint[r][k],
             NEW b \in BOOLEAN, votes' = [votes EXCEPT ![r][at[r]] = b],
             b = FALSE => building'[r] = NewPool(active[r])
                            /\ checkpoint'[r][Key(r)] = NewSaved(active[r])
      PROVE  Own(r)'
  <2>1. /\ at[r] \in Positions /\ label[r] = "run" /\ Op(r).op = "call" /\ Key(r) \in Keys
        /\ Key(r) \notin disabled[r] /\ pools[r][Key(r)] = None
    BY <1>4, NeedsFacts
  <2>2. at' = at /\ label'[r] = "reduce" /\ Op(r)' = Op(r) /\ Key(r)' = Key(r)
    BY <1>1, <1>4 DEF Stay, Types, Op, Key
  <2>3. votes'[r][at[r]] = b /\ \A i \in Positions : i # at[r] => votes'[r][i] = votes[r][i]
    BY <1>4, <2>1 DEF Types
  <2>4. Placed(r)'
    BY <1>1, <1>4, <2>1, <2>2, <2>3 DEF Placed, Positions, NewPool, NewSaved
  <2>5. Fresh(r)'
    BY <1>4, <2>1, <2>2 DEF Own, Fresh
  <2>6. VotesInTurn(r)'
    BY <1>1, <1>4, <2>1, <2>2, <2>3 DEF Own, VotesInTurn, Positions
  <2> QED
    BY <2>4, <2>5, <2>6 DEF Own
<1>5. CASE CreatePool(r)
  <2>1. building'[r] = NewPool(active[r])
    BY <1>5 DEF CreatePool, Types, NewPool
  <2>2. NeedsPool(r) /\ Key(r) \in Keys /\ label[r] = "run"
    BY <1>5, NeedsFacts DEF CreatePool
  <2>3. checkpoint[r][Key(r)] = None
    BY <2>2, NeedsFacts, FreshFact
  <2>4. /\ checkpoint'[r][Key(r)] = NewSaved(active[r])
        /\ \A k \in Keys \ {Key(r)} : checkpoint'[r][k] = checkpoint[r][k]
    BY <1>5, <2>2, <2>3 DEF CreatePool, Types, NewSaved
  <2> QED
    BY <1>4, <1>5, <2>1, <2>4 DEF CreatePool
<1>6. CASE CreateFails(r)
  <2>1. NeedsPool(r) /\ Key(r) \in Keys
    BY <1>6, NeedsFacts DEF CreateFails
  <2>2. \A k \in Keys \ {Key(r)} : checkpoint'[r][k] = checkpoint[r][k]
    BY <1>6, <2>1 DEF CreateFails, Types
  <2> QED
    BY <1>4, <1>6, <2>2 DEF CreateFails
<1>7. CASE Agree(r)
  <2>1. /\ at[r] \in Positions /\ Key(r) \in Keys /\ Op(r).op = "call" /\ label[r] = "reduce"
        /\ Key(r) \notin disabled[r] /\ pools[r][Key(r)] = None
    BY <1>7, ReduceFacts DEF Agree, Own
  <2>2. UNCHANGED <<checkpoint, votes>>
    BY <1>7 DEF Agree
  <2>3. \A k \in Keys \ {Key(r)} :
          pools[r][k] = None /\ k \notin disabled[r] => checkpoint[r][k] = None
    BY DEF Own, Fresh
  <2>4. CASE FallBack(r) /\ disabled' = [disabled EXCEPT ![r] = @ \cup {Key(r)}] /\ UNCHANGED pools
    <3>1. disabled'[r] = disabled[r] \cup {Key(r)}
      BY <2>4 DEF Types
    <3> QED
      BY <1>1, <2>1, <2>2, <2>3, <2>4, <3>1, OwnLeaves DEF FallBack
  <2>5. CASE /\ ~InitFailed(r) /\ Stay(r, "issue") /\ UNCHANGED disabled
             /\ pools' = [pools EXCEPT ![r][Key(r)] = building[r]]
    <3>1. at' = at /\ label'[r] = "issue" /\ Op(r)' = Op(r) /\ Key(r)' = Key(r)
      BY <1>1, <2>5 DEF Stay, Types, Op, Key
    <3>2. votes[r][at[r]] = FALSE
      BY <1>7, <2>5 DEF InitFailed, Own, Placed, Agree
    <3>3. building[r] # None
      <4>1. active[r] \in Channels \cup {None} /\ building[r] = NewPool(active[r])
        BY <1>7, <3>2 DEF Own, Placed, Agree, Types
      <4> QED
        BY <4>1, PoolFacts
    <3>4. pools'[r][Key(r)] = building[r] /\ \A k \in Keys \ {Key(r)} : pools'[r][k] = pools[r][k]
      BY <2>1, <2>5 DEF Types
    <3>5. Placed(r)'
      BY <1>1, <2>1, <3>1, <3>3, <3>4 DEF Placed, Positions
    <3>6. Fresh(r)'
      BY <2>2, <2>3, <2>5, <3>3, <3>4 DEF Fresh
    <3>7. VotesInTurn(r)'
      BY <1>1, <2>2, <3>1 DEF Own, VotesInTurn, Positions
    <3> QED
      BY <3>5, <3>6, <3>7 DEF Own
  <2> QED
    BY <1>7, <2>4, <2>5 DEF Agree
<1>8. CASE Issue(r)
  <2>1. at[r] \in Positions /\ NextOp(r) /\ UNCHANGED <<pools, disabled, checkpoint, votes>>
    BY <1>8, IssueFacts DEF Issue, Own
  <2> QED
    BY <1>1, <1>8, <2>1, OwnLeaves, FreshFact DEF Issue
<1>9. CASE EnterPlain(r)
  <2>1. /\ at[r] \in Positions /\ label[r] = "run" /\ NextOp(r)
        /\ UNCHANGED <<pools, disabled, checkpoint, votes>>
    BY <1>9, RunningFacts DEF EnterPlain
  <2> QED
    BY <1>1, <2>1, OwnLeaves, FreshFact
<1>10. CASE EnterBound(r)
  <2>1. /\ at[r] \in Positions /\ label[r] = "run" /\ NextOp(r)
        /\ UNCHANGED <<disabled, votes>>
    BY <1>10, RunningFacts DEF EnterBound
  <2>2. ASSUME NEW k \in Keys, pools'[r][k] = None, k \notin disabled'[r]
        PROVE  checkpoint'[r][k] = None
    <3>1. CASE k \in Live(r)
      <4>1. pools'[r][k] = Bind(pools[r][k], Op(r).arg)
        BY <1>10, <3>1 DEF EnterBound, Types
      <4>2. pools[r][k] \in Pool
        BY <3>1 DEF Live, Types
      <4>3. Op(r).op = "capture" /\ Op(r).arg \in Channels
        BY <1>10, <2>1, RunningFacts, OperationFacts DEF EnterBound, Types, Op
      <4>4. Bind(pools[r][k], Op(r).arg) \in Pool
        BY <4>2, <4>3 DEF Bind, Pool
      <4> QED
        BY <2>2, <4>1, <4>4, NoneAssumption
    <3>2. CASE k \notin Live(r)
      <4>1. checkpoint'[r][k] = checkpoint[r][k]
        BY <1>10, <3>2 DEF EnterBound, Types
      <4> QED
        BY <2>1, <2>2, <3>2, <4>1, FreshFact DEF Live
    <3> QED
      BY <3>1, <3>2
  <2> QED
    BY <1>1, <2>1, <2>2, OwnLeaves
<1>11. CASE EnterRaises(r)
  <2>1. at[r] \in Positions /\ label[r] = "run" /\ Op(r).op = "capture"
    BY <1>11, RunningFacts DEF EnterRaises
  <2>2. /\ UNCHANGED <<at, pools, disabled, checkpoint, votes>> /\ label'[r] = "dead"
    BY <1>11 DEF EnterRaises, Types
  <2>3. Placed(r)' /\ VotesInTurn(r)' /\ Fresh(r)'
    BY <1>1, <2>1, <2>2 DEF Own, Placed, VotesInTurn, Fresh, Positions
  <2> QED
    BY <2>3 DEF Own
<1>12. CASE Exit(r)
  <2>1. /\ at[r] \in Positions /\ label[r] = "run" /\ NextOp(r)
        /\ UNCHANGED <<disabled, checkpoint, votes>>
    BY <1>12, RunningFacts DEF Exit
  <2>2. ASSUME NEW k \in Keys, pools'[r][k] = None
        PROVE  pools[r][k] = None
    <3>1. CASE UNCHANGED pools
      BY <2>2, <3>1
    <3>2. CASE pools' = [pools EXCEPT ![r] = [j \in Keys |->
                 IF j \in Live(r) THEN [pools[r][j] EXCEPT !.open = @ \ {active[r]}] ELSE None]]
      <4>1. SUFFICES ASSUME pools[r][k] # None PROVE FALSE
        OBVIOUS
      <4>2. PICK p \in Pool : p = pools[r][k]
        BY <4>1 DEF Types
      <4>3. pools'[r][k] = [p EXCEPT !.open = @ \ {active[r]}]
        BY <3>2, <4>1, <4>2 DEF Types, Live
      <4>4. [p EXCEPT !.open = @ \ {active[r]}] \in Pool
        BY DEF Pool
      <4> QED
        BY <2>2, <4>3, <4>4, NoneAssumption
    <3> QED
      BY <1>12, <3>1, <3>2 DEF Exit
  <2> QED
    BY <1>1, <2>1, <2>2, OwnLeaves, FreshFact
<1>13. CASE ResetGraphs(r)
  <2>1. at[r] \in Positions /\ label[r] = "run" /\ Op(r).op = "discard"
    BY <1>13, RunningFacts DEF ResetGraphs
  <2>2. /\ UNCHANGED <<at, pools, disabled, checkpoint, votes>> /\ label'[r] = "rollback"
    BY <1>13 DEF ResetGraphs, Types, Stay
  <2>3. Placed(r)' /\ VotesInTurn(r)' /\ Fresh(r)'
    BY <1>1, <2>1, <2>2 DEF Own, Placed, VotesInTurn, Fresh, Positions, Op
  <2> QED
    BY <2>3 DEF Own
<1>14. CASE Rollback(r)
  <2>1. /\ at[r] \in Positions /\ NextOp(r) /\ UNCHANGED votes
        /\ \A k \in Keys : checkpoint'[r][k] = None
    BY <1>14 DEF Rollback, Own, Placed, Types, Nothing
  <2> QED
    BY <1>1, <2>1, OwnLeaves
<1> QED
  BY <1>2, <1>3, <1>5, <1>6, <1>7, <1>8, <1>9, <1>10, <1>11, <1>12, <1>13, <1>14 DEF Step

LEMMA InvInit == Init => Inv
BY TypesInit, OwnInit DEF Inv, Own

LEMMA InvNext == Inv /\ [Next]_vars => Inv'
<1> SUFFICES ASSUME Inv, [Next]_vars PROVE Inv'
  OBVIOUS
<1>1. Types /\ Types' /\ \A r \in Members : Own(r)
  BY TypesNext DEF Inv, Own
<1>2. CASE UNCHANGED vars
  <2>1. program' = program /\ broken' = broken /\ \A q \in Members : Same(q)
    BY <1>2 DEF vars, local, Same
  <2> QED
    BY <1>1, <2>1, OwnKept DEF Inv, Own
<1>3. ASSUME NEW r \in Members, Step(r) PROVE Inv'
  <2>1. program' = program /\ broken' = broken /\ \A q \in Members \ {r} : Same(q)
    BY <1>1, <1>3, OthersKeep
  <2>2. \A q \in Members \ {r} : Own(q)'
    BY <1>1, <2>1, OwnKept
  <2>3. Own(r)'
    BY <1>1, <1>3, OwnNext
  <2> QED
    BY <1>1, <2>2, <2>3 DEF Inv, Own
<1> QED
  BY <1>2, <1>3 DEF Next

-----------------------------------------------------------------------------
(* The common history.                                                     *)

LEMMA LocalSame ==
  ASSUME NEW q \in Members, Same(q)
  PROVE  Local(q)' = Local(q)
BY DEF Same, Local

LEMMA FixedVotes ==
  ASSUME program' = program, broken' = broken, UNCHANGED votes
  PROVE  /\ \A i : Verdict(i)' = Verdict(i)
         /\ \A s, i : Settled(s, i)' = Settled(s, i)
         /\ Positions' = Positions
BY DEF Verdict, Settled, Positions

LEMMA HistoryInit == Init => \E h : HInv(h)
<1> SUFFICES ASSUME Init PROVE \E h : HInv(h)
  OBVIOUS
<1> DEFINE h == [i \in {1} |-> Start]
<1>1. h[1] = Start
  OBVIOUS
<1>2. \A i \in Positions : i \in Nat /\ i >= 1
  BY LengthFact DEF Init, Positions
<1>3. Explains(h)
  BY <1>1, <1>2 DEF Explains, Init
<1>4. ASSUME NEW r \in Members PROVE Follows(r, h)
  <2>1. Local(r) = Start
    BY DEF Local, Start, Init, Nothing
  <2> QED
    BY <1>1, <1>2, <2>1 DEF Follows, Init, Positions
<1> QED
  BY <1>3, <1>4 DEF HInv

(* An operation of r ends, and no vote is cast: the history is what it was, *)
(* or goes one operation further.                                           *)
LEMMA Advance ==
  ASSUME Types, NEW r \in Members, NEW h, HInv(h), NEW i \in Positions, at[r] = i,
         program' = program, broken' = broken, UNCHANGED votes, NextOp(r),
         \A q \in Members \ {r} : Same(q),
         NEW s, s = After(h[i], program[i], Verdict(i)), Local(r)' = s, Settled(h[i], i),
         \A j \in Positions : outcome'[r][j] =
           IF j = i THEN Result(h[i], program[i], Verdict(i)) ELSE outcome[r][j]
  PROVE  \E g : HInv(g)'
<1>0. Len(program) \in Nat /\ i \in Nat /\ i >= 1 /\ i <= Len(program)
  BY LengthFact DEF Types, Positions
<1>1. \A q \in Members : at[q] \in Nat /\ at[q] >= 1 /\ at[q] <= Len(program) + 1
  BY <1>0 DEF Types
<1>2. at'[r] = i + 1 /\ label'[r] = "run" /\ \A q \in Members \ {r} : at'[q] = at[q]
  BY DEF NextOp, Types, Same
<1>3. PICK g : g = [j \in 1 .. Len(program) + 1 |-> IF j = i + 1 THEN s ELSE h[j]]
  OBVIOUS
<1>4. \A j \in 1 .. Len(program) + 1 : g[j] = IF j = i + 1 THEN s ELSE h[j]
  BY <1>3
<1>5. ASSUME NEW q \in Members, NEW j \in 1 .. Len(program) + 1, j <= at[q]
      PROVE  g[j] = h[j]
  <2>1. CASE j = i + 1
    <3>1. at[q] > i
      BY <1>0, <1>1, <1>5, <2>1
    <3>2. h[i + 1] = s
      BY <3>1 DEF HInv, Explains
    <3> QED
      BY <1>4, <2>1, <3>2
  <2> QED
    BY <1>4, <2>1
<1>6. /\ \A j : Verdict(j)' = Verdict(j)
      /\ \A t, j : Settled(t, j)' = Settled(t, j)
      /\ Positions' = Positions
  BY FixedVotes
<1>7. Explains(g)'
  <2>1. g[1] = Start
    BY <1>0, <1>1, <1>5 DEF HInv, Explains
  <2>2. ASSUME NEW j \in Positions, NEW q \in Members, at'[q] > j
        PROVE  g[j + 1] = After(g[j], program[j], Verdict(j)) /\ Settled(g[j], j)
    <3>0. j \in Nat /\ j >= 1 /\ j <= Len(program)
      BY <1>0 DEF Positions
    <3>1. CASE j = i
      <4>1. g[i] = h[i] /\ g[i + 1] = s
        BY <1>0, <1>4, <1>5
      <4> QED
        BY <3>1, <4>1
    <3>2. CASE j # i
      <4>1. at[q] > j
        BY <1>0, <1>1, <1>2, <2>2, <3>0, <3>2
      <4>2. g[j] = h[j] /\ g[j + 1] = h[j + 1]
        BY <1>1, <1>5, <3>0, <4>1
      <4> QED
        BY <4>1, <4>2 DEF HInv, Explains
    <3> QED
      BY <3>1, <3>2
  <2>3. Explains(g)' <=> /\ g[1] = Start
                         /\ \A j \in Positions : (\E q \in Members : at'[q] > j) =>
                              g[j + 1] = After(g[j], program[j], Verdict(j)) /\ Settled(g[j], j)
    BY <1>6 DEF Explains
  <2> QED
    BY <2>1, <2>2, <2>3
<1>8. ASSUME NEW q \in Members PROVE Follows(q, g)'
  <2>1. CASE q # r
    <3>1. Same(q) /\ Local(q)' = Local(q)
      BY <2>1, LocalSame
    <3>2. g[at[q]] = h[at[q]]
      BY <1>0, <1>1, <1>5
    <3>3. \A j \in Positions : j < at[q] => g[j] = h[j]
      BY <1>0, <1>1, <1>5 DEF Positions
    <3>4. Follows(q, h)
      BY DEF HInv
    <3>5. at'[q] = at[q] /\ label'[q] = label[q] /\ outcome'[q] = outcome[q]
          /\ Op(q)' = Op(q)
      BY <3>1 DEF Same, Op
    <3>6. (label[q] # "issue" => Local(q)' = g[at[q]])
      BY <3>1, <3>2, <3>4 DEF Follows
    <3>7. label[q] = "issue" =>
            /\ Local(q)' = After(g[at[q]], Op(q), Verdict(at[q]))
            /\ ~Falls(g[at[q]], Op(q), Verdict(at[q])) /\ Settled(g[at[q]], at[q])
      BY <3>1, <3>2, <3>4 DEF Follows
    <3>8. \A j \in Positions :
            outcome[q][j] = IF j < at[q] THEN Result(g[j], program[j], Verdict(j)) ELSE None
      BY <3>3, <3>4 DEF Follows
    <3> QED
      BY <1>6, <3>5, <3>6, <3>7, <3>8 DEF Follows
  <2>2. CASE q = r
    <3>1. g[i + 1] = s
      BY <1>0, <1>4
    <3>2. \A j \in Positions : j <= i => g[j] = h[j]
      BY <1>0, <1>1, <1>5 DEF Positions
    <3>3. \A j \in Positions :
            outcome'[r][j] = IF j < i + 1 THEN Result(g[j], program[j], Verdict(j)) ELSE None
      <4>1. SUFFICES ASSUME NEW j \in Positions
                     PROVE  outcome'[r][j] =
                       IF j < i + 1 THEN Result(g[j], program[j], Verdict(j)) ELSE None
        OBVIOUS
      <4>2. outcome[r][j] = IF j < i THEN Result(h[j], program[j], Verdict(j)) ELSE None
        BY DEF HInv, Follows
      <4>3. j \in Nat
        BY <1>0 DEF Positions
      <4> QED
        BY <1>0, <3>2, <4>2, <4>3
    <3> QED
      BY <1>2, <1>6, <2>2, <3>1, <3>3 DEF Follows
  <2> QED
    BY <2>1, <2>2
<1> QED
  BY <1>7, <1>8 DEF HInv

(* A step within an operation, without a vote: the history stands.         *)
LEMMA Remain ==
  ASSUME Types, NEW r \in Members, NEW h, HInv(h),
         program' = program, broken' = broken, UNCHANGED <<votes, at>>,
         \A q \in Members \ {r} : Same(q), Follows(r, h)'
  PROVE  HInv(h)'
<1>1. /\ \A j : Verdict(j)' = Verdict(j)
      /\ \A t, j : Settled(t, j)' = Settled(t, j)
      /\ Positions' = Positions
  BY FixedVotes
<1>2. Explains(h)'
  BY <1>1 DEF HInv, Explains
<1>3. ASSUME NEW q \in Members \ {r} PROVE Follows(q, h)'
  <2>1. Same(q) /\ Local(q)' = Local(q) /\ Follows(q, h)
    BY LocalSame DEF HInv
  <2>2. at'[q] = at[q] /\ label'[q] = label[q] /\ outcome'[q] = outcome[q] /\ Op(q)' = Op(q)
    BY <2>1 DEF Same, Op
  <2> QED
    BY <1>1, <2>1, <2>2 DEF Follows
<1> QED
  BY <1>2, <1>3 DEF HInv

(* A vote: it can matter to no rank that has gone on, for a rank that needs *)
(* the vote waits for it, unless some rank has no pool class.               *)
LEMMA Vote ==
  ASSUME Types, NEW r \in Members, NEW h, HInv(h), \A q \in Members : Own(q), NeedsPool(r),
         program' = program, broken' = broken, UNCHANGED at, label'[r] = "reduce",
         NEW b \in BOOLEAN, votes' = [votes EXCEPT ![r][at[r]] = b],
         \A q \in Members \ {r} : /\ Local(q)' = Local(q) /\ label'[q] = label[q]
                                  /\ outcome'[q] = outcome[q],
         Local(r)' = Local(r), outcome'[r] = outcome[r]
  PROVE  HInv(h)'
<1>1. /\ at[r] \in Positions /\ Op(r).op = "call" /\ label[r] = "run"
      /\ Key(r) \in Keys /\ Key(r) \notin disabled[r] /\ pools[r][Key(r)] = None
  BY NeedsFacts
<1>2. PICK i \in Positions : i = at[r]
  BY <1>1
<1>3. votes[r][i] = None
  <2>1. i \in Nat
    BY LengthFact DEF Types, Positions
  <2> QED
    BY <1>1, <1>2, <2>1 DEF Own, VotesInTurn
<1>4. Local(r) = h[i] /\ Needs(h[i], program[i])
  <2>1. Local(r) = h[i]
    BY <1>1, <1>2 DEF HInv, Follows
  <2> QED
    BY <1>1, <1>2, <2>1 DEF Needs, Local, Op, Key
<1>5. Settled(h[i], i) => broken # {}
  BY <1>3, <1>4 DEF Settled
<1>6. /\ votes'[r][i] = b
      /\ \A q \in Members, j \in Positions :
           (q # r \/ j # i) => votes'[q][j] = votes[q][j]
  BY <1>2 DEF Types
<1>7. ASSUME NEW j \in Positions, Settled(h[j], j)
      PROVE  Verdict(j)' = Verdict(j) /\ Settled(h[j], j)'
  <2>1. CASE j = i
    BY <1>5, <1>7, <2>1 DEF Verdict, Settled
  <2>2. CASE j # i
    BY <1>6, <1>7, <2>2 DEF Verdict, Settled
  <2> QED
    BY <2>1, <2>2
<1>8. Positions' = Positions
  BY DEF Positions
<1>9. Explains(h)'
  <2>1. \A j \in Positions : (\E q \in Members : at[q] > j) =>
          h[j + 1] = After(h[j], program[j], Verdict(j)) /\ Settled(h[j], j)
    BY DEF HInv, Explains
  <2>2. \A j \in Positions : (\E q \in Members : at[q] > j) =>
          h[j + 1] = After(h[j], program[j], Verdict(j)') /\ Settled(h[j], j)'
    BY <1>7, <2>1
  <2>3. h[1] = Start
    BY DEF HInv, Explains
  <2> QED
    BY <1>8, <2>2, <2>3 DEF Explains
<1>10. ASSUME NEW q \in Members PROVE Follows(q, h)'
  <2>0. Follows(q, h) /\ at' = at /\ Op(q)' = Op(q) /\ Local(q)' = Local(q)
        /\ outcome'[q] = outcome[q] /\ at[q] \in Nat
    BY LengthFact DEF HInv, Op, Types
  <2>1. \A j \in Positions :
          outcome'[q][j] = IF j < at[q] THEN Result(h[j], program[j], Verdict(j)') ELSE None
    <3>1. SUFFICES ASSUME NEW j \in Positions, j < at[q] PROVE Verdict(j)' = Verdict(j)
      BY <2>0 DEF Follows
    <3>2. j \in Nat
      BY LengthFact DEF Types, Positions
    <3>3. Settled(h[j], j)
      BY <2>0, <3>1, <3>2 DEF HInv, Explains
    <3> QED
      BY <1>7, <3>3
  <2>2. CASE q = r
    BY <1>1, <1>8, <2>0, <2>1, <2>2 DEF Follows
  <2>3. CASE q # r /\ label[q] = "issue"
    <3>0. label'[q] = "issue"
      BY <2>3
    <3>1. /\ Local(q) = After(h[at[q]], Op(q), Verdict(at[q]))
          /\ ~Falls(h[at[q]], Op(q), Verdict(at[q])) /\ Settled(h[at[q]], at[q])
      BY <2>0, <2>3 DEF Follows
    <3>2. CASE at[q] \in Positions
      <4>1. Verdict(at[q])' = Verdict(at[q]) /\ Settled(h[at[q]], at[q])'
        <5>1. PICK j \in Positions : j = at[q]
          BY <3>2
        <5> QED
          BY <1>7, <2>0, <3>1, <5>1, ZenonT(60) DEF Verdict, Settled
      <4> QED
        BY <1>8, <2>0, <2>1, <3>0, <3>1, <4>1 DEF Follows
    <3> QED
      BY <2>3, <3>2 DEF Own, Placed
  <2>4. CASE q # r /\ label[q] # "issue"
    <3>1. label'[q] # "issue" /\ Local(q) = h[at[q]]
      BY <2>0, <2>4 DEF Follows
    <3> QED
      BY <1>8, <2>0, <2>1, <3>1 DEF Follows
  <2> QED
    BY <2>2, <2>3, <2>4
<1> QED
  BY <1>9, <1>10 DEF HInv

-----------------------------------------------------------------------------
(* Every action makes of a rank's state what the operation makes of it.    *)

LEMMA LocalFields ==
  ASSUME NEW r \in Members
  PROVE  /\ Local(r).pools = pools[r] /\ Local(r).disabled = disabled[r]
         /\ Local(r).active = active[r] /\ Local(r).contexts = contexts[r]
         /\ Local(r).saved = [k \in Keys |-> IF pools[r][k] = None THEN None
                                             ELSE checkpoint[r][k]]
BY DEF Local

LEMMA AfterCalls ==
  ASSUME NEW s, NEW i, program[i].op \in {"call", "record"}
  PROVE  /\ ~Needs(s, program[i]) => After(s, program[i], Verdict(i)) = s
         /\ Needs(s, program[i]) /\ Verdict(i) = "off" =>
              After(s, program[i], Verdict(i)) = VotedOff(s, program[i].arg)
         /\ Needs(s, program[i]) /\ Verdict(i) # "off" =>
              After(s, program[i], Verdict(i)) = Created(s, program[i].arg)
BY DEF After, AfterCall

(* The end of a call that changes nothing but perhaps what is disabled.    *)
LEMMA HistoryCall ==
  ASSUME Inv, NEW r \in Members, NEW h, HInv(h), GetKnown(r) \/ NoPoolClass(r)
  PROVE  \E g : HInv(g)'
<1>0. /\ Types /\ Own(r) /\ Step(r) /\ program' = program /\ broken' = broken
      /\ \A q \in Members \ {r} : Same(q)
  BY OthersKeep DEF Inv, Own, Step
<1>1. at[r] \in Positions /\ label[r] = "run" /\ Op(r).op \in {"call", "record"} /\ Key(r) \in Keys
  BY <1>0, RunningFacts, NeedsFacts, CallFacts DEF GetKnown, Calls, NoPoolClass
<1>2. PICK i \in Positions : i = at[r]
  BY <1>1
<1>3. PICK s : s = Local(r)
  OBVIOUS
<1>4. h[i] = s /\ Op(r) = program[i] /\ Key(r) = program[i].arg
  BY <1>1, <1>2, <1>3 DEF HInv, Follows, Op, Key
<1>a. program[i].op \in {"call", "record"}
  BY <1>1, <1>4
<1>5. /\ s.pools = pools[r] /\ s.disabled = disabled[r] /\ s.active = active[r]
  BY <1>3, LocalFields
<1>7. CASE GetKnown(r) /\ FallBack(r) /\ (Key(r) \in disabled[r] \/ (pools[r][Key(r)] = None /\ Op(r).op = "record"))
  <2>1. /\ UNCHANGED votes /\ NextOp(r)
        /\ UNCHANGED <<pools, disabled, active, contexts, checkpoint>>
    BY <1>7 DEF GetKnown, FallBack
  <2>2. ~Needs(s, program[i]) /\ Falls(s, program[i], Verdict(i))
    BY <1>4, <1>5, <1>7 DEF Needs, Falls
  <2>3. After(h[i], program[i], Verdict(i)) = s
    BY <1>a, <1>4, <2>2, AfterCalls
  <2>4. Local(r)' = s
    BY <1>3, <2>1 DEF Local
  <2>5. Settled(h[i], i)
    BY <1>4, <2>2 DEF Settled
  <2>6. \A j \in Positions : outcome'[r][j] =
          IF j = i THEN Result(h[i], program[i], Verdict(i)) ELSE outcome[r][j]
    <3>1. Result(h[i], program[i], Verdict(i)) = "fallback"
      BY <1>1, <1>4, <2>2 DEF Result
    <3> QED
      BY <1>0, <1>2, <1>7, <3>1 DEF FallBack, Types
  <2> QED
    BY <1>0, <1>2, <2>1, <2>3, <2>4, <2>5, <2>6, Advance
<1>8. CASE GetKnown(r) /\ Stay(r, "issue") /\ UNCHANGED outcome
             /\ Key(r) \notin disabled[r] /\ pools[r][Key(r)] # None
  <2>1. UNCHANGED <<votes, at, pools, disabled, active, contexts, checkpoint>>
        /\ label'[r] = "issue"
    BY <1>0, <1>8 DEF GetKnown, Stay, Types
  <2>2. ~Needs(s, program[i]) /\ ~Falls(s, program[i], Verdict(i)) /\ Settled(s, i)
    BY <1>4, <1>5, <1>8 DEF Needs, Falls, Settled
  <2>3. After(h[i], program[i], Verdict(i)) = s
    BY <1>a, <1>4, <2>2, AfterCalls
  <2>4. Local(r)' = s
    BY <1>3, <2>1 DEF Local
  <2>5. /\ \A j : Verdict(j)' = Verdict(j)
        /\ \A t, j : Settled(t, j)' = Settled(t, j)
        /\ Positions' = Positions
    BY <1>0, <2>1, FixedVotes
  <2>6. Op(r)' = program[i] /\ at'[r] = i
    BY <1>0, <1>2, <2>1 DEF Op
  <2>7. Follows(r, h)'
    <3>1. Follows(r, h)
      BY DEF HInv
    <3> QED
      BY <1>0, <1>2, <1>4, <1>8, <2>1, <2>2, <2>3, <2>4, <2>5, <2>6, <3>1 DEF Follows
  <2> QED
    BY <1>0, <2>1, <2>7, Remain
<1>9. CASE NoPoolClass(r)
  <2>1. /\ UNCHANGED votes /\ NextOp(r) /\ NeedsPool(r) /\ r \in broken /\ FallBack(r)
        /\ UNCHANGED <<pools, active, contexts, checkpoint>>
        /\ disabled'[r] = disabled[r] \cup {Key(r)}
    BY <1>0, <1>9 DEF NoPoolClass, FallBack, Types
  <2>2. /\ Verdict(i) = "off" /\ Settled(h[i], i) /\ Needs(s, program[i])
        /\ Falls(s, program[i], Verdict(i))
    BY <1>0, <1>4, <1>5, <2>1, NeedsFacts DEF Verdict, Settled, Needs, Falls
  <2>3. After(h[i], program[i], Verdict(i)) = VotedOff(s, program[i].arg)
    <3>1. Verdict(i) = "off" /\ Needs(s, program[i])
      BY <2>2
    <3> QED
      BY <1>a, <1>4, <3>1, AfterCalls
  <2>4. Local(r)' = VotedOff(s, program[i].arg)
    BY <1>3, <1>4, <2>1 DEF Local, VotedOff
  <2>5. \A j \in Positions : outcome'[r][j] =
          IF j = i THEN Result(h[i], program[i], Verdict(i)) ELSE outcome[r][j]
    <3>1. Result(h[i], program[i], Verdict(i)) = "fallback"
      BY <1>1, <1>4, <2>2 DEF Result
    <3> QED
      BY <1>0, <1>2, <2>1, <3>1 DEF FallBack, Types
  <2>6. PICK t : t = VotedOff(s, program[i].arg)
    OBVIOUS
  <2>7. t = After(h[i], program[i], Verdict(i)) /\ Local(r)' = t /\ Settled(h[i], i)
    BY <2>2, <2>3, <2>4, <2>6
  <2> QED
    BY <1>0, <1>2, <2>1, <2>5, <2>7, Advance
<1> QED
  BY <1>7, <1>8, <1>9 DEF GetKnown

LEMMA HistoryVote ==
  ASSUME Inv, NEW r \in Members, NEW h, HInv(h), CreatePool(r) \/ CreateFails(r)
  PROVE  \E g : HInv(g)'
<1>0. /\ Types /\ Own(r) /\ Step(r) /\ program' = program /\ broken' = broken
      /\ \A q \in Members \ {r} : Same(q)
      /\ \A q \in Members : Own(q)
  BY OthersKeep DEF Inv, Own, Step
<1>1. /\ NeedsPool(r) /\ UNCHANGED <<at, pools, disabled, active, contexts, outcome>>
      /\ label'[r] = "reduce"
      /\ \E b \in BOOLEAN : votes' = [votes EXCEPT ![r][at[r]] = b]
  BY <1>0 DEF CreatePool, CreateFails, Stay, Types
<1>2. Key(r) \in Keys /\ pools[r][Key(r)] = None
  BY <1>0, <1>1, NeedsFacts
<1>3. \A k \in Keys : pools[r][k] # None => checkpoint'[r][k] = checkpoint[r][k]
  BY <1>0, <1>2 DEF CreatePool, CreateFails, Types
<1>4. Local(r)' = Local(r)
  BY <1>1, <1>3 DEF Local
<1>5. \A q \in Members \ {r} : /\ Local(q)' = Local(q) /\ label'[q] = label[q]
                               /\ outcome'[q] = outcome[q]
  BY <1>0, LocalSame DEF Same
<1>6. HInv(h)'
  BY <1>0, <1>1, <1>4, <1>5, Vote
<1> QED
  BY <1>6

LEMMA HistoryAgree ==
  ASSUME Inv, NEW r \in Members, NEW h, HInv(h), Agree(r)
  PROVE  \E g : HInv(g)'
<1>0. /\ Types /\ Own(r) /\ Step(r) /\ program' = program /\ broken' = broken
      /\ \A q \in Members \ {r} : Same(q) /\ Own(q)
  BY OthersKeep DEF Inv, Own, Step
<1>1. /\ at[r] \in Positions /\ label[r] = "reduce" /\ Op(r).op = "call" /\ Key(r) \in Keys
      /\ Key(r) \notin disabled[r] /\ pools[r][Key(r)] = None
      /\ votes[r][at[r]] \in BOOLEAN
  BY <1>0, ReduceFacts DEF Agree, Own, Placed
<1>2. PICK i \in Positions : i = at[r]
  BY <1>1
<1>3. PICK s : s = Local(r)
  OBVIOUS
<1>4. h[i] = s /\ Op(r) = program[i] /\ Key(r) = program[i].arg
  BY <1>1, <1>2, <1>3 DEF HInv, Follows, Op, Key
<1>a. program[i].op \in {"call", "record"}
  BY <1>1, <1>4
<1>5. /\ s.pools = pools[r] /\ s.disabled = disabled[r] /\ s.active = active[r]
  BY <1>3, LocalFields
<1>6. UNCHANGED <<votes, active, contexts, checkpoint>>
  BY DEF Agree
<1>7. Needs(s, program[i]) /\ Settled(h[i], i) /\ broken = {}
  <2>1. \A q \in Members : votes[q][i] # None
    BY <1>2 DEF Agree, Reduced
  <2>2. \A q \in Members : q \notin broken
    BY <1>0, <2>1 DEF Own, VotesInTurn
  <2> QED
    BY <1>0, <1>1, <1>4, <1>5, <2>1, <2>2 DEF Needs, Settled, Types
<1>8. Verdict(i) = "off" <=> InitFailed(r)
  BY <1>2, <1>7 DEF Verdict, InitFailed
<1>9. CASE InitFailed(r) /\ FallBack(r) /\ UNCHANGED pools
             /\ disabled' = [disabled EXCEPT ![r] = @ \cup {Key(r)}]
  <2>1. Verdict(i) = "off" /\ Falls(s, program[i], Verdict(i)) /\ NextOp(r)
    BY <1>7, <1>8, <1>9 DEF InitFailed, Falls, Needs, FallBack
  <2>2. After(h[i], program[i], Verdict(i)) = VotedOff(s, program[i].arg)
    <3>1. Verdict(i) = "off" /\ Needs(s, program[i])
      BY <1>7, <2>1
    <3> QED
      BY <1>a, <1>4, <3>1, AfterCalls
  <2>3. disabled'[r] = disabled[r] \cup {program[i].arg}
    BY <1>0, <1>4, <1>9 DEF Types
  <2>4. Local(r)' = VotedOff(s, program[i].arg)
    BY <1>3, <1>6, <1>9, <2>3 DEF Local, VotedOff
  <2>5. \A j \in Positions : outcome'[r][j] =
          IF j = i THEN Result(h[i], program[i], Verdict(i)) ELSE outcome[r][j]
    <3>1. Result(h[i], program[i], Verdict(i)) = "fallback"
      BY <1>1, <1>4, <2>1 DEF Result
    <3> QED
      BY <1>0, <1>2, <1>9, <3>1 DEF FallBack, Types
  <2>6. PICK t : t = VotedOff(s, program[i].arg)
    OBVIOUS
  <2>7. /\ t = After(h[i], program[i], Verdict(i)) /\ Local(r)' = t /\ Settled(h[i], i)
        /\ NextOp(r) /\ UNCHANGED votes
    BY <1>6, <1>7, <2>1, <2>2, <2>4, <2>6
  <2> QED
    BY <1>0, <1>2, <2>5, <2>7, Advance
<1>10. CASE ~InitFailed(r) /\ Stay(r, "issue") /\ UNCHANGED <<disabled, outcome>>
              /\ pools' = [pools EXCEPT ![r][Key(r)] = building[r]]
  <2>1. votes[r][at[r]] = FALSE /\ Verdict(i) # "off"
    BY <1>1, <1>8, <1>10 DEF InitFailed
  <2>2. /\ building[r] = NewPool(active[r]) /\ checkpoint[r][Key(r)] = NewSaved(active[r])
        /\ NewPool(active[r]) # None
    <3>1. active[r] \in Channels \cup {None}
      BY <1>0 DEF Types
    <3> QED
      BY <1>0, <1>1, <2>1, <3>1, PoolFacts DEF Own, Placed
  <2>3. at' = at /\ label'[r] = "issue" /\ Op(r)' = program[i]
    BY <1>0, <1>4, <1>10 DEF Stay, Types, Op
  <2>4. After(h[i], program[i], Verdict(i)) = Created(s, program[i].arg)
    BY <1>a, <1>4, <1>7, <2>1, AfterCalls
  <2>5. Local(r)' = Created(s, program[i].arg)
    <3>1. pools'[r] = [pools[r] EXCEPT ![Key(r)] = NewPool(active[r])]
      BY <1>0, <1>10, <2>2 DEF Types
    <3>2. pools'[r][Key(r)] # None /\ \A k \in Keys \ {Key(r)} : pools'[r][k] = pools[r][k]
      BY <1>0, <1>1, <2>2, <3>1 DEF Types
    <3>3. [k \in Keys |-> IF pools'[r][k] = None THEN None ELSE checkpoint[r][k]]
            = [[k \in Keys |-> IF pools[r][k] = None THEN None ELSE checkpoint[r][k]]
                 EXCEPT ![Key(r)] = NewSaved(active[r])]
      BY <1>1, <2>2, <3>2
    <3>4. Local(r)' =
            [pools |-> pools'[r], disabled |-> disabled[r], active |-> active[r],
             contexts |-> contexts[r],
             saved |-> [k \in Keys |-> IF pools'[r][k] = None THEN None ELSE checkpoint[r][k]]]
      BY <1>6, <1>10 DEF Local
    <3> QED
      BY <1>3, <1>4, <1>5, <3>1, <3>3, <3>4 DEF Local, Created
  <2>6. /\ \A j : Verdict(j)' = Verdict(j)
        /\ \A t, j : Settled(t, j)' = Settled(t, j)
        /\ Positions' = Positions
    BY <1>0, <1>6, FixedVotes
  <2>7. ~Falls(h[i], program[i], Verdict(i))
    BY <1>1, <1>4, <1>5, <2>1 DEF Falls
  <2>8. Follows(r, h)'
    <3>1. Follows(r, h)
      BY DEF HInv
    <3>2. Local(r)' = After(h[i], program[i], Verdict(i))
      BY <2>4, <2>5
    <3> QED
      BY <1>0, <1>2, <1>7, <1>10, <2>3, <2>6, <2>7, <3>1, <3>2 DEF Follows
  <2> QED
    BY <1>0, <1>6, <2>3, <2>8, Remain
<1> QED
  BY <1>9, <1>10 DEF Agree

LEMMA HistoryIssue ==
  ASSUME Inv, NEW r \in Members, NEW h, HInv(h), Issue(r)
  PROVE  \E g : HInv(g)'
<1>0. /\ Types /\ Own(r) /\ Step(r) /\ program' = program /\ broken' = broken
      /\ \A q \in Members \ {r} : Same(q)
  BY OthersKeep DEF Inv, Own, Step
<1>1. at[r] \in Positions /\ label[r] = "issue" /\ Op(r).op \in {"call", "record"}
  BY <1>0 DEF Issue, Own, Placed
<1>2. PICK i \in Positions : i = at[r]
  BY <1>1
<1>3. PICK s : s = Local(r)
  OBVIOUS
<1>4. /\ s = After(h[i], program[i], Verdict(i))
      /\ ~Falls(h[i], program[i], Verdict(i)) /\ Settled(h[i], i)
  BY <1>1, <1>2, <1>3 DEF HInv, Follows, Op
<1>5. h[i].active = active[r]
  <2>1. s.active = active[r]
    BY <1>3, LocalFields
  <2>2. After(h[i], program[i], Verdict(i)).active = h[i].active
    <3>1. program[i].op \in {"call", "record"}
      BY <1>1, <1>2 DEF Op
    <3>2. CASE ~Needs(h[i], program[i])
      BY <3>1, <3>2, AfterCalls
    <3>3. CASE Needs(h[i], program[i]) /\ Verdict(i) = "off"
      <4>1. After(h[i], program[i], Verdict(i)) = VotedOff(h[i], program[i].arg)
        BY <3>1, <3>3, AfterCalls
      <4> QED
        BY <4>1 DEF VotedOff
    <3>4. CASE Needs(h[i], program[i]) /\ Verdict(i) # "off"
      <4>1. After(h[i], program[i], Verdict(i)) = Created(h[i], program[i].arg)
        BY <3>1, <3>4, AfterCalls
      <4> QED
        BY <4>1 DEF Created
    <3> QED
      BY <3>2, <3>3, <3>4
  <2> QED
    BY <1>4, <2>1, <2>2
<1>6. /\ UNCHANGED <<pools, disabled, active, contexts, checkpoint, votes>> /\ NextOp(r)
  BY DEF Issue
<1>7. Local(r)' = s
  BY <1>3, <1>6 DEF Local
<1>8. \A j \in Positions : outcome'[r][j] =
        IF j = i THEN Result(h[i], program[i], Verdict(i)) ELSE outcome[r][j]
  <2>1. Result(h[i], program[i], Verdict(i)) = Channel(r)
    BY <1>1, <1>2, <1>4, <1>5 DEF Result, Channel, Op
  <2> QED
    BY <1>0, <1>2, <2>1 DEF Issue, Types
<1> QED
  BY <1>0, <1>2, <1>4, <1>6, <1>7, <1>8, Advance

(* The operations on captures, and the end of profiling.                   *)

LEMMA NoNeed ==
  ASSUME NEW s, NEW i, program[i].op \notin {"call", "record"}
  PROVE  ~Needs(s, program[i]) /\ Settled(s, i) /\ Result(s, program[i], Verdict(i)) = None
BY DEF Needs, Settled, Result

(* What Advance asks of an action that is no call: that it makes what the  *)
(* operation makes.                                                        *)
LEMMA HistoryOther ==
  ASSUME Inv, NEW r \in Members, NEW h, HInv(h), Step(r), NextOp(r),
         at[r] \in Positions, label[r] # "issue", Op(r).op \notin {"call", "record"},
         UNCHANGED <<votes, outcome>>,
         NEW s, Local(r)' = s, s = After(Local(r), Op(r), Verdict(at[r]))
  PROVE  \E g : HInv(g)'
<1>0. /\ Types /\ program' = program /\ broken' = broken
      /\ \A q \in Members \ {r} : Same(q)
  BY OthersKeep DEF Inv
<1>1. PICK i \in Positions : i = at[r]
  OBVIOUS
<1>2. Follows(r, h)
  BY DEF HInv
<1>3. Local(r) = h[i] /\ Op(r) = program[i]
  BY <1>1, <1>2 DEF Follows, Op
<1>4. Settled(h[i], i) /\ Result(h[i], program[i], Verdict(i)) = None
  BY <1>3, NoNeed
<1>5. outcome[r][i] = None
  <2>1. i \in Nat
    BY LengthFact, <1>0 DEF Types, Positions
  <2> QED
    BY <1>1, <1>2, <2>1 DEF Follows
<1>6. \A j \in Positions : outcome'[r][j] =
        IF j = i THEN Result(h[i], program[i], Verdict(i)) ELSE outcome[r][j]
  BY <1>4, <1>5
<1>7. s = After(h[i], program[i], Verdict(i))
  BY <1>1, <1>3
<1> QED
  BY <1>0, <1>1, <1>4, <1>6, <1>7, Advance

LEMMA HistoryRaises ==
  ASSUME Inv, NEW r \in Members, NEW h, HInv(h), EnterRaises(r) \/ ResetGraphs(r)
  PROVE  \E g : HInv(g)'
<1>0. /\ Types /\ Step(r) /\ program' = program /\ broken' = broken
      /\ \A q \in Members \ {r} : Same(q)
  BY OthersKeep DEF Inv, Step
<1>1. /\ UNCHANGED <<at, votes, pools, disabled, active, contexts, checkpoint, outcome>>
      /\ label[r] = "run" /\ label'[r] # "issue"
  BY <1>0 DEF EnterRaises, ResetGraphs, Running, Types, Stay
<1>2. Local(r)' = Local(r)
  BY <1>1 DEF Local
<1>3. /\ \A j : Verdict(j)' = Verdict(j)
      /\ Positions' = Positions
  BY <1>0, <1>1, FixedVotes
<1>4. Follows(r, h)'
  BY <1>0, <1>1, <1>2, <1>3 DEF HInv, Follows
<1>5. HInv(h)'
  BY <1>0, <1>1, <1>4, Remain
<1> QED
  BY <1>5

LEMMA AfterOther ==
  ASSUME NEW s, NEW o, NEW verdict
  PROVE  /\ o.op = "capture" => After(s, o, verdict) = AfterCapture(s, o.arg)
         /\ o.op = "exit" => After(s, o, verdict) = AfterExit(s)
         /\ o.op = "discard" => After(s, o, verdict) = AfterDiscard(s)
BY DEF After

LEMMA HistoryEnter ==
  ASSUME Inv, NEW r \in Members, NEW h, HInv(h), EnterPlain(r) \/ EnterBound(r)
  PROVE  \E g : HInv(g)'
<1>0. Types /\ Step(r)
  BY DEF Inv, Step
<1>1. at[r] \in Positions /\ label[r] = "run" /\ Op(r).op = "capture"
  BY <1>0, RunningFacts DEF EnterPlain, EnterBound
<1>2. NextOp(r) /\ UNCHANGED <<votes, outcome>>
  BY DEF EnterPlain, EnterBound
<1>3. PICK s : s = AfterCapture(Local(r), Op(r).arg)
  OBVIOUS
<1>4. s = After(Local(r), Op(r), Verdict(at[r]))
  BY <1>1, <1>3, AfterOther
<1>5. Local(r)' = s
  <2>1. CASE EnterPlain(r)
    <3>1. Op(r).arg = None \/ active[r] # None
      BY <2>1 DEF EnterPlain
    <3>2. /\ UNCHANGED <<pools, disabled, active, checkpoint>>
          /\ contexts'[r] = Append(contexts[r], "plain")
      BY <1>0, <2>1 DEF EnterPlain, Push, Types
    <3>3. s = [pools |-> pools[r], disabled |-> disabled[r], active |-> active[r],
               contexts |-> Append(contexts[r], "plain"), saved |-> Local(r).saved]
      BY <1>3, <3>1, LocalFields DEF AfterCapture
    <3> QED
      BY <3>2, <3>3, LocalFields DEF Local
  <2>2. CASE EnterBound(r)
    <3>1. Op(r).arg # None /\ active[r] = None
      BY <2>2 DEF EnterBound
    <3>2. PICK ch \in Channels : ch = Op(r).arg
      BY <1>0, <1>1, <3>1, OperationFacts DEF Types, Op
    <3>3. /\ UNCHANGED disabled /\ active'[r] = ch
          /\ contexts'[r] = Append(contexts[r], "bound")
          /\ pools'[r] = [k \in Keys |-> IF pools[r][k] # None THEN Bind(pools[r][k], ch) ELSE None]
      BY <1>0, <2>2, <3>2 DEF EnterBound, Push, Types, Live
    <3>4. \A k \in Keys : /\ checkpoint'[r][k] =
                               IF pools[r][k] # None
                               THEN Keeps(checkpoint[r][k], pools[r][k].chans, ch)
                               ELSE checkpoint[r][k]
      BY <1>0, <2>2, <3>2 DEF EnterBound, Types, Live
    <3>5. \A k \in Keys : pools'[r][k] = None <=> pools[r][k] = None
      <4>1. ASSUME NEW k \in Keys, pools[r][k] # None PROVE pools'[r][k] # None
        <5>1. pools[r][k] \in Pool
          BY <1>0, <4>1 DEF Types
        <5>2. Bind(pools[r][k], ch) \in Pool
          BY <5>1 DEF Bind, Pool
        <5> QED
          BY <3>3, <4>1, <5>2, NoneAssumption
      <4> QED
        BY <3>3, <4>1
    <3>6. [k \in Keys |-> IF pools'[r][k] = None THEN None ELSE checkpoint'[r][k]]
            = [k \in Keys |-> IF pools[r][k] # None
                 THEN Keeps(Local(r).saved[k], pools[r][k].chans, ch) ELSE None]
      <4>1. \A k \in Keys : pools[r][k] # None => Local(r).saved[k] = checkpoint[r][k]
        BY LocalFields, ZenonT(60)
      <4> QED
        BY <3>4, <3>5, <4>1
    <3>7. s = [pools |-> [k \in Keys |-> IF pools[r][k] # None THEN Bind(pools[r][k], ch) ELSE None],
               disabled |-> disabled[r], active |-> ch, contexts |-> Append(contexts[r], "bound"),
               saved |-> [k \in Keys |-> IF pools[r][k] # None
                           THEN Keeps(Local(r).saved[k], pools[r][k].chans, ch) ELSE None]]
      <4>1. PICK l : l = Local(r)
        OBVIOUS
      <4>2. /\ l.pools = pools[r] /\ l.disabled = disabled[r] /\ l.active = active[r]
            /\ l.contexts = contexts[r]
        BY <4>1, LocalFields
      <4>3. s = AfterCapture(l, ch) /\ ch # None /\ l.active = None
        BY <1>3, <3>1, <3>2, <4>1, <4>2
      <4>4. s = [pools |-> [k \in Keys |-> IF l.pools[k] # None THEN Bind(l.pools[k], ch) ELSE None],
                 disabled |-> l.disabled, active |-> ch, contexts |-> Append(l.contexts, "bound"),
                 saved |-> [k \in Keys |-> IF l.pools[k] # None
                             THEN Keeps(l.saved[k], l.pools[k].chans, ch) ELSE None]]
        BY <4>3 DEF AfterCapture
      <4> QED
        BY <4>1, <4>2, <4>4
    <3>8. Local(r)' = [pools |-> pools'[r], disabled |-> disabled'[r], active |-> active'[r],
                       contexts |-> contexts'[r],
                       saved |-> [k \in Keys |-> IF pools'[r][k] = None THEN None
                                                 ELSE checkpoint'[r][k]]]
      BY DEF Local
    <3> QED
      BY <3>3, <3>6, <3>7, <3>8
  <2> QED
    BY <2>1, <2>2
<1> QED
  BY <1>0, <1>1, <1>2, <1>4, <1>5, HistoryOther

LEMMA HistoryExit ==
  ASSUME Inv, NEW r \in Members, NEW h, HInv(h), Exit(r)
  PROVE  \E g : HInv(g)'
<1>0. Types /\ Step(r)
  BY DEF Inv, Step
<1>1. at[r] \in Positions /\ label[r] = "run" /\ Op(r).op = "exit"
  BY <1>0, RunningFacts DEF Exit
<1>2. NextOp(r) /\ UNCHANGED <<votes, outcome>>
  BY DEF Exit
<1>3. PICK s : s = AfterExit(Local(r))
  OBVIOUS
<1>4. s = After(Local(r), Op(r), Verdict(at[r]))
  BY <1>1, <1>3, AfterOther
<1>5. Local(r)' = s
  <2> DEFINE rest  == SubSeq(contexts[r], 1, Len(contexts[r]) - 1)
             inner == contexts[r][Len(contexts[r])]
  <2>0. contexts'[r] = rest /\ UNCHANGED <<disabled, checkpoint>>
    BY <1>0 DEF Exit, Types
  <2>1. CASE inner = "plain"
    <3>1. UNCHANGED <<pools, active>>
      BY <2>1 DEF Exit
    <3>2. s = [pools |-> pools[r], disabled |-> disabled[r], active |-> active[r],
               contexts |-> rest, saved |-> Local(r).saved]
      BY <1>3, <2>1, LocalFields DEF AfterExit
    <3> QED
      BY <2>0, <3>1, <3>2, LocalFields DEF Local
  <2>2. CASE inner # "plain"
    <3>1. /\ active'[r] = None
          /\ pools'[r] = [k \in Keys |-> IF pools[r][k] # None
                            THEN [pools[r][k] EXCEPT !.open = @ \ {active[r]}] ELSE None]
      BY <1>0, <2>2 DEF Exit, Types, Live
    <3>2. \A k \in Keys : pools'[r][k] = None <=> pools[r][k] = None
      <4>1. ASSUME NEW k \in Keys, pools[r][k] # None PROVE pools'[r][k] # None
        <5>1. PICK p \in Pool : p = pools[r][k]
          BY <1>0, <4>1 DEF Types
        <5>2. [p EXCEPT !.open = @ \ {active[r]}] \in Pool
          BY DEF Pool
        <5>3. pools'[r][k] = [p EXCEPT !.open = @ \ {active[r]}]
          BY <3>1, <4>1, <5>1
        <5> QED
          BY <5>2, <5>3, NoneAssumption
      <4> QED
        BY <3>1, <4>1
    <3>3. s = [pools |-> [k \in Keys |-> IF pools[r][k] # None
                            THEN [pools[r][k] EXCEPT !.open = @ \ {active[r]}] ELSE None],
               disabled |-> disabled[r], active |-> None, contexts |-> rest,
               saved |-> Local(r).saved]
      <4>1. PICK l : l = Local(r)
        OBVIOUS
      <4>2. /\ l.pools = pools[r] /\ l.disabled = disabled[r] /\ l.active = active[r]
            /\ l.contexts = contexts[r]
        BY <4>1, LocalFields
      <4>3. s = AfterExit(l) /\ l.contexts[Len(l.contexts)] # "plain"
        BY <1>3, <2>2, <4>1, <4>2
      <4>4. s = [pools |-> [k \in Keys |-> IF l.pools[k] # None
                              THEN [l.pools[k] EXCEPT !.open = @ \ {l.active}] ELSE None],
                 disabled |-> l.disabled, active |-> None,
                 contexts |-> SubSeq(l.contexts, 1, Len(l.contexts) - 1), saved |-> l.saved]
        BY <4>3 DEF AfterExit
      <4> QED
        BY <4>1, <4>2, <4>4
    <3>4. Local(r)' = [pools |-> pools'[r], disabled |-> disabled[r], active |-> None,
                       contexts |-> rest,
                       saved |-> [k \in Keys |-> IF pools'[r][k] = None THEN None
                                                 ELSE checkpoint[r][k]]]
      BY <2>0, <3>1 DEF Local
    <3>5. [k \in Keys |-> IF pools'[r][k] = None THEN None ELSE checkpoint[r][k]]
            = Local(r).saved
      BY <3>2, LocalFields
    <3> QED
      BY <3>1, <3>3, <3>4, <3>5
  <2> QED
    BY <2>1, <2>2
<1> QED
  BY <1>0, <1>1, <1>2, <1>4, <1>5, HistoryOther

LEMMA HistoryRollback ==
  ASSUME Inv, NEW r \in Members, NEW h, HInv(h), Rollback(r)
  PROVE  \E g : HInv(g)'
<1>0. Types /\ Own(r) /\ Step(r)
  BY DEF Inv, Own, Step
<1>1. at[r] \in Positions /\ label[r] = "rollback" /\ Op(r).op = "discard"
  BY <1>0 DEF Own, Placed, Rollback
<1>2. NextOp(r) /\ UNCHANGED <<votes, outcome>>
  BY DEF Rollback
<1>3. PICK s : s = AfterDiscard(Local(r))
  OBVIOUS
<1>4. s = After(Local(r), Op(r), Verdict(at[r]))
  BY <1>1, <1>3, AfterOther
<1>5. Local(r)' = s
  <2>1. /\ UNCHANGED <<disabled, active, contexts>>
        /\ \A k \in Keys : checkpoint'[r][k] = None
        /\ pools'[r] = [k \in Keys |-> IF pools[r][k] # None /\ checkpoint[r][k] # None
                          THEN [pools[r][k] EXCEPT !.chans = checkpoint[r][k]] ELSE pools[r][k]]
    BY <1>0 DEF Rollback, Types, Live, Nothing
  <2>2. s = [pools |-> [k \in Keys |-> IF pools[r][k] # None /\ Local(r).saved[k] # None
                          THEN [pools[r][k] EXCEPT !.chans = Local(r).saved[k]] ELSE pools[r][k]],
             disabled |-> disabled[r], active |-> active[r], contexts |-> contexts[r],
             saved |-> Nothing]
    BY <1>3, LocalFields, ZenonT(60) DEF AfterDiscard
  <2>3. \A k \in Keys : pools[r][k] # None => Local(r).saved[k] = checkpoint[r][k]
    BY LocalFields, ZenonT(60)
  <2>4. [k \in Keys |-> IF pools[r][k] # None /\ Local(r).saved[k] # None
           THEN [pools[r][k] EXCEPT !.chans = Local(r).saved[k]] ELSE pools[r][k]] = pools'[r]
    BY <2>1, <2>3
  <2>5. Local(r)' = [pools |-> pools'[r], disabled |-> disabled[r], active |-> active[r],
                     contexts |-> contexts[r], saved |-> Nothing]
    BY <2>1 DEF Local, Nothing
  <2> QED
    BY <2>2, <2>4, <2>5
<1> QED
  BY <1>0, <1>1, <1>2, <1>4, <1>5, HistoryOther

LEMMA HistoryNext ==
  ASSUME Inv, NEW h, HInv(h), [Next]_vars
  PROVE  \E g : HInv(g)'
<1>1. CASE UNCHANGED vars
  <2>1. /\ program' = program /\ broken' = broken /\ votes' = votes /\ at' = at
        /\ \A q \in Members : Same(q)
    BY <1>1 DEF vars, local, Same
  <2>2. Types /\ Members # {}
    BY MembersAssumption DEF Inv
  <2>3. PICK r \in Members : TRUE
    BY <2>2
  <2>4. Follows(r, h)'
    <3>1. /\ \A j : Verdict(j)' = Verdict(j)
          /\ \A t, j : Settled(t, j)' = Settled(t, j)
          /\ Positions' = Positions
      BY <2>1, FixedVotes
    <3>2. Local(r)' = Local(r) /\ Follows(r, h) /\ Op(r)' = Op(r) /\ label'[r] = label[r]
          /\ outcome'[r] = outcome[r]
      BY <2>1, LocalSame DEF HInv, Op, Same
    <3> QED
      BY <2>1, <3>1, <3>2 DEF Follows
  <2>5. HInv(h)'
    BY <2>1, <2>2, <2>4, Remain
  <2> QED
    BY <2>5
<1>2. ASSUME NEW r \in Members, Step(r) PROVE \E g : HInv(g)'
  <2>1. CASE GetKnown(r) \/ NoPoolClass(r)
    BY <2>1, HistoryCall
  <2>2. CASE CreatePool(r) \/ CreateFails(r)
    BY <2>2, HistoryVote
  <2>3. CASE Agree(r)
    BY <2>3, HistoryAgree
  <2>4. CASE Issue(r)
    BY <2>4, HistoryIssue
  <2>5. CASE EnterPlain(r) \/ EnterBound(r)
    BY <2>5, HistoryEnter
  <2>6. CASE EnterRaises(r) \/ ResetGraphs(r)
    BY <2>6, HistoryRaises
  <2>7. CASE Exit(r)
    BY <2>7, HistoryExit
  <2>8. CASE Rollback(r)
    BY <2>8, HistoryRollback
  <2> QED
    BY <1>2, <2>1, <2>2, <2>3, <2>4, <2>5, <2>6, <2>7, <2>8 DEF Step
<1> QED
  BY <1>1, <1>2 DEF Next

-----------------------------------------------------------------------------
(* What follows.                                                           *)

Aligned == Inv /\ \E h : HInv(h)

LEMMA AlignedInit == Init => Aligned
BY InvInit, HistoryInit DEF Aligned

LEMMA AlignedNext == Aligned /\ [Next]_vars => Aligned'
<1> SUFFICES ASSUME Aligned, [Next]_vars PROVE Aligned'
  OBVIOUS
<1>1. Inv'
  BY InvNext DEF Aligned
<1>2. PICK h : HInv(h)
  BY DEF Aligned
<1>3. \E g : HInv(g)'
  BY <1>2, HistoryNext DEF Aligned
<1> QED
  BY <1>1, <1>3 DEF Aligned

LEMMA TypesCorrect == Types => TypeOK
BY DEF Types, TypeOK

LEMMA AlignedDecides == Aligned => SameDecision
<1> SUFFICES ASSUME Aligned, NEW r \in Members, NEW q \in Members, NEW i \in Positions,
                    outcome[r][i] # None, outcome[q][i] # None
             PROVE  outcome[r][i] = outcome[q][i]
  BY DEF SameDecision, Positions
<1>1. PICK h : HInv(h)
  BY DEF Aligned
<1> QED
  BY <1>1 DEF HInv, Follows

LEMMA AlignedCatalogs == Aligned => CatalogsAgree
<1> SUFFICES ASSUME Aligned, NEW r \in Members, NEW q \in Members, at[r] = at[q],
                    label[r] = "run", label[q] = "run"
             PROVE  pools[r] = pools[q] /\ disabled[r] = disabled[q] /\ active[r] = active[q]
  BY DEF CatalogsAgree
<1>1. PICK h : HInv(h)
  BY DEF Aligned
<1>2. Local(r) = Local(q)
  BY <1>1 DEF HInv, Follows
<1>3. /\ Local(r).pools = Local(q).pools /\ Local(r).disabled = Local(q).disabled
      /\ Local(r).active = Local(q).active
  BY <1>2
<1>4. /\ Local(r).pools = pools[r] /\ Local(r).disabled = disabled[r] /\ Local(r).active = active[r]
      /\ Local(q).pools = pools[q] /\ Local(q).disabled = disabled[q] /\ Local(q).active = active[q]
  BY LocalFields
<1> QED
  BY <1>3, <1>4

-----------------------------------------------------------------------------
(* Channels.                                                               *)

LEMMA DoneStep ==
  ASSUME program \in Programs, NEW i \in Positions, NEW name
  PROVE  /\ Done(program, i, name) \in Nat
         /\ Done(program, i + 1, name) =
              IF program[i].op = name THEN Done(program, i, name) + 1
              ELSE Done(program, i, name)
<1> DEFINE S(n) == {j \in 1 .. n - 1 : program[j].op = name}
<1>1. i \in Nat /\ i >= 1
  BY LengthFact DEF Positions
<1>2. IsFiniteSet(S(i))
  <2>1. IsFiniteSet(1 .. i - 1)
    BY <1>1, FS_Interval
  <2> QED
    BY <2>1, FS_Subset
<1>3. Cardinality(S(i)) \in Nat
  BY <1>2, FS_CardinalityType
<1>4. CASE program[i].op = name
  <2>1. S(i + 1) = S(i) \cup {i} /\ i \notin S(i)
    BY <1>1, <1>4
  <2>2. Cardinality(S(i + 1)) = Cardinality(S(i)) + 1
    BY <1>2, <2>1, FS_AddElement
  <2> QED
    BY <1>3, <1>4, <2>2 DEF Done
<1>5. CASE program[i].op # name
  <2>1. S(i + 1) = S(i)
    BY <1>1, <1>5
  <2> QED
    BY <1>3, <1>5, <2>1 DEF Done
<1> QED
  BY <1>4, <1>5

Depth(r) == Len(contexts[r]) + Done(program, at[r], "exit") = Done(program, at[r], "capture")

LEMMA DepthNext ==
  ASSUME Types, NEW r \in Members, Depth(r), at[r] \in Positions, NextOp(r), program' = program,
         NEW n \in Nat, Len(contexts'[r]) = n,
         \/ Op(r).op = "capture" /\ n = Len(contexts[r]) + 1
         \/ Op(r).op = "exit" /\ n = Len(contexts[r]) - 1
         \/ Op(r).op \notin {"capture", "exit"} /\ n = Len(contexts[r])
  PROVE  Depth(r)'
<1>1. PICK i \in Positions : i = at[r]
  OBVIOUS
<1>2. at'[r] = i + 1
  BY <1>1 DEF NextOp, Types
<1>3. Len(contexts[r]) \in Nat
  BY LenProperties DEF Types
<1>4. PICK e, c, f, d : /\ e = Done(program, i, "exit") /\ c = Done(program, i, "capture")
                        /\ f = Done(program, i + 1, "exit") /\ d = Done(program, i + 1, "capture")
  OBVIOUS
<1>5. /\ e \in Nat /\ c \in Nat
      /\ f = IF program[i].op = "exit" THEN e + 1 ELSE e
      /\ d = IF program[i].op = "capture" THEN c + 1 ELSE c
  BY <1>4, DoneStep DEF Types
<1>6. Len(contexts[r]) + e = c
  BY <1>1, <1>4 DEF Depth
<1>7. n + f = d
  <2>1. PICK l \in Nat : l = Len(contexts[r])
    BY <1>3
  <2>2. PICK o : o = program[i].op
    OBVIOUS
  <2>3. \/ o = "capture" /\ n = l + 1
        \/ o = "exit" /\ n = l - 1
        \/ o \notin {"capture", "exit"} /\ n = l
    BY <1>1, <2>1, <2>2 DEF Op
  <2>4. l + e = c /\ f = (IF o = "exit" THEN e + 1 ELSE e) /\ d = IF o = "capture" THEN c + 1 ELSE c
    BY <1>5, <1>6, <2>1, <2>2
  <2>5. e \in Nat /\ c \in Nat
    BY <1>5
  <2>6. CASE o = "capture" /\ n = l + 1
    <3>1. f = e /\ d = c + 1
      BY <2>4, <2>6
    <3> QED
      BY <2>4, <2>5, <2>6, <3>1
  <2>7. CASE o = "exit" /\ n = l - 1
    <3>1. f = e + 1 /\ d = c
      BY <2>4, <2>7
    <3> QED
      BY <2>4, <2>5, <2>7, <3>1
  <2>8. CASE o \notin {"capture", "exit"} /\ n = l
    <3>1. f = e /\ d = c
      BY <2>4, <2>8
    <3> QED
      BY <2>4, <2>8, <3>1
  <2> QED
    BY <2>3, <2>6, <2>7, <2>8
<1> QED
  BY <1>2, <1>4, <1>7 DEF Depth

LEMMA CleanLeaves ==
  ASSUME Types, NEW r \in Members, at[r] \in Positions, NextOp(r), Op(r).op # "discard",
         program' = program
  PROVE  Clean(r)'
<1>1. at'[r] = at[r] + 1 /\ at[r] \in Nat
  BY LengthFact DEF NextOp, Types, Positions
<1>2. at'[r] - 1 = at[r]
  BY <1>1
<1> QED
  BY <1>2 DEF Clean, Op

LEMMA SoundNew ==
  ASSUME NEW ch \in Channels \cup {None}
  PROVE  Sound(NewPool(ch), NewSaved(ch), ch)
<1>1. NewSaved(ch) = None => ch \notin Profile
  BY ChannelsAssumption, NoneAssumption DEF NewSaved, Checkpointed, Channels
<1> QED
  BY <1>1, ChannelsAssumption DEF Sound, NewPool, Joined

(* A call, up to the collective: of pools and checkpoints it only touches   *)
(* those of a key that has no pool.                                        *)
LEMMA ChanCall ==
  ASSUME Inv, NEW r \in Members, ChanInv(r), Keeping(r), Step(r),
         GetKnown(r) \/ NoPoolClass(r) \/ CreatePool(r) \/ CreateFails(r) \/ Agree(r)
  PROVE  (ChanInv(r) /\ Keeping(r) /\ Clean(r))'
<1>0. /\ Types /\ Own(r) /\ program' = program
  BY OthersKeep DEF Inv, Own
<1>1. /\ at[r] \in Positions /\ Op(r).op \in {"call", "record"} /\ Key(r) \in Keys
      /\ label[r] # "rollback"
  BY <1>0, RunningFacts, NeedsFacts, CallFacts, ReduceFacts
     DEF GetKnown, Calls, NoPoolClass, CreatePool, CreateFails, Agree, Own
<1>2. UNCHANGED <<active, contexts, graphs>> /\ active[r] \in Channels \cup {None}
  BY <1>0 DEF GetKnown, NoPoolClass, CreatePool, CreateFails, Agree, Types
<1>3. NextOp(r) \/ (UNCHANGED at /\ label'[r] \in {"reduce", "issue"})
  BY <1>0 DEF GetKnown, NoPoolClass, CreatePool, CreateFails, Agree, FallBack, Stay, Types
<1>4. label'[r] # "rollback" /\ Clean(r)'
  <2>1. CASE NextOp(r)
    BY <1>0, <1>1, <2>1, CleanLeaves DEF NextOp, Types
  <2>2. CASE UNCHANGED at /\ label'[r] \in {"reduce", "issue"}
    BY <2>2 DEF Clean
  <2> QED
    BY <1>3, <2>1, <2>2
<1>5. Depth(r)'
  <2>1. Len(contexts[r]) \in Nat /\ Depth(r)
    BY <1>0, LenProperties DEF Types, ChanInv, Depth
  <2>2. CASE NextOp(r)
    BY <1>0, <1>1, <1>2, <2>1, <2>2, DepthNext
  <2>3. CASE UNCHANGED at
    BY <1>0, <1>2, <2>1, <2>3 DEF Depth
  <2> QED
    BY <1>3, <2>2, <2>3
<1>6. /\ \A k \in Keys : checkpoint'[r][k] # checkpoint[r][k] =>
           k = Key(r) /\ pools[r][k] = None /\ UNCHANGED pools /\ checkpoint'[r][k] = {Eager}
      /\ \A k \in Keys : pools'[r][k] # pools[r][k] =>
           /\ k = Key(r) /\ pools[r][k] = None /\ UNCHANGED checkpoint
           /\ pools'[r][k] = NewPool(active[r]) /\ checkpoint[r][k] = NewSaved(active[r])
  <2>1. CASE GetKnown(r) \/ NoPoolClass(r)
    BY <2>1 DEF GetKnown, NoPoolClass
  <2>2. CASE CreatePool(r) \/ CreateFails(r)
    <3>1. pools[r][Key(r)] = None /\ UNCHANGED pools
      BY <1>0, <2>2, NeedsFacts DEF CreatePool, CreateFails
    <3>2. \A k \in Keys : \/ checkpoint'[r][k] = checkpoint[r][k]
                          \/ k = Key(r) /\ checkpoint'[r][k] = {Eager}
      BY <1>0, <1>1, <2>2 DEF CreatePool, CreateFails, Types, Checkpointed
    <3> QED
      BY <3>1, <3>2
  <2>3. CASE Agree(r)
    <3>1. pools[r][Key(r)] = None /\ UNCHANGED checkpoint
      BY <1>0, <2>3, ReduceFacts DEF Agree, Own
    <3>2. CASE UNCHANGED pools
      BY <3>1, <3>2
    <3>3. CASE ~InitFailed(r) /\ pools' = [pools EXCEPT ![r][Key(r)] = building[r]]
      <4>1. votes[r][at[r]] = FALSE
        BY <1>0, <2>3, <3>3 DEF InitFailed, Own, Placed, Agree
      <4>2. building[r] = NewPool(active[r]) /\ checkpoint[r][Key(r)] = NewSaved(active[r])
        BY <1>0, <2>3, <4>1 DEF Own, Placed, Agree
      <4>3. \A k \in Keys : pools'[r][k] = IF k = Key(r) THEN building[r] ELSE pools[r][k]
        BY <1>0, <1>1, <3>3 DEF Types
      <4> QED
        BY <3>1, <4>2, <4>3
    <3> QED
      BY <2>3, <3>2, <3>3 DEF Agree
  <2> QED
    BY <2>1, <2>2, <2>3
<1>7. \A k \in Keys : pools'[r][k] # None => Sound(pools'[r][k], checkpoint'[r][k], active[r])
  BY <1>2, <1>6, SoundNew DEF ChanInv
<1>8. \A k \in Keys : checkpoint'[r][k] # None =>
        Eager \in checkpoint'[r][k] /\ checkpoint'[r][k] \cap Profile = {}
  BY <1>6, ChannelsAssumption DEF ChanInv
<1>9. Keeping(r)'
  <2>1. \A g \in graphs[r] : g.key \in Keys
    BY <1>0 DEF Types
  <2> QED
    BY <1>2, <1>6, <2>1 DEF Keeping
<1>10. ChanInv(r)'
  <2>1. active[r] # None => \E j \in 1 .. Len(contexts[r]) : contexts[r][j] = "bound"
    BY DEF ChanInv
  <2> QED
    BY <1>2, <1>4, <1>5, <1>7, <1>8, <2>1 DEF ChanInv, Depth
<1> QED
  BY <1>4, <1>9, <1>10

LEMMA ChanIssue ==
  ASSUME Inv, NEW r \in Members, ChanInv(r), Keeping(r), Issue(r)
  PROVE  (ChanInv(r) /\ Keeping(r) /\ Clean(r))'
<1>0. /\ Types /\ Own(r) /\ program' = program
  BY OthersKeep DEF Inv, Own, Step
<1>1. /\ at[r] \in Positions /\ Op(r).op \in {"call", "record"} /\ Key(r) \in Keys
      /\ pools[r][Key(r)] # None
  BY <1>0, IssueFacts DEF Issue, Own, Placed
<1>2. /\ UNCHANGED <<pools, checkpoint, active, contexts>> /\ NextOp(r)
      /\ active[r] \in Channels \cup {None} /\ label'[r] = "run"
  BY <1>0 DEF Issue, Types, NextOp
<1>3. Clean(r)'
  BY <1>0, <1>1, <1>2, CleanLeaves
<1>4. Depth(r)'
  <2>1. Len(contexts[r]) \in Nat /\ Depth(r)
    BY <1>0, LenProperties DEF Types, ChanInv, Depth
  <2> QED
    BY <1>0, <1>1, <1>2, <2>1, DepthNext
<1>5. ChanInv(r)'
  BY <1>2, <1>4 DEF ChanInv, Depth
<1>6. Channel(r) \in pools[r][Key(r)].chans
  BY <1>1 DEF Channel, ChanInv, Sound, Joined
<1>7. \A g \in graphs'[r] : g \in graphs[r] \/ g = [key |-> Key(r), channel |-> Channel(r)]
  BY <1>0 DEF Issue, Types
<1>8. Keeping(r)'
  <2> SUFFICES ASSUME NEW g \in graphs'[r]
               PROVE  pools[r][g.key] # None /\ g.channel \in pools[r][g.key].chans
    BY <1>2 DEF Keeping
  <2>1. CASE g \in graphs[r]
    BY <2>1 DEF Keeping
  <2>2. CASE g = [key |-> Key(r), channel |-> Channel(r)]
    BY <1>1, <1>6, <2>2
  <2> QED
    BY <1>7, <2>1, <2>2
<1> QED
  BY <1>3, <1>5, <1>8

LEMMA ChanEnterPlain ==
  ASSUME Inv, NEW r \in Members, ChanInv(r), Keeping(r), EnterPlain(r)
  PROVE  (ChanInv(r) /\ Keeping(r) /\ Clean(r))'
<1>0. /\ Types /\ program' = program
  BY OthersKeep DEF Inv, Step
<1>1. at[r] \in Positions /\ Op(r).op = "capture"
  BY <1>0, RunningFacts DEF EnterPlain
<1>2. /\ UNCHANGED <<pools, checkpoint, active, graphs>> /\ NextOp(r) /\ label'[r] = "run"
      /\ contexts'[r] = Append(contexts[r], "plain")
  BY <1>0 DEF EnterPlain, Types, NextOp, Push
<1>3. Clean(r)' /\ Keeping(r)'
  BY <1>0, <1>1, <1>2, CleanLeaves DEF Keeping
<1>4. /\ contexts[r] \in Seq(Kinds) /\ Len(contexts[r]) \in Nat /\ "plain" \in Kinds
  BY <1>0, LenProperties DEF Types, Kinds
<1>5. /\ Len(contexts'[r]) = Len(contexts[r]) + 1
      /\ \A j \in 1 .. Len(contexts[r]) : contexts'[r][j] = contexts[r][j]
  BY <1>2, <1>4, AppendProperties
<1>6. Depth(r)'
  <2>1. Depth(r)
    BY DEF ChanInv, Depth
  <2>2. Len(contexts[r]) + 1 \in Nat
    BY <1>4
  <2> QED
    BY <1>0, <1>1, <1>2, <1>4, <1>5, <2>1, <2>2, DepthNext
<1>7. active[r] # None => \E j \in 1 .. Len(contexts'[r]) : contexts'[r][j] = "bound"
  <2>1. 1 .. Len(contexts[r]) \subseteq 1 .. Len(contexts'[r])
    BY <1>4, <1>5
  <2> QED
    BY <1>5, <2>1 DEF ChanInv
<1>8. ChanInv(r)'
  BY <1>2, <1>6, <1>7 DEF ChanInv, Depth
<1> QED
  BY <1>3, <1>8

LEMMA ChanEnterBound ==
  ASSUME Inv, NEW r \in Members, ChanInv(r), Keeping(r), EnterBound(r)
  PROVE  (ChanInv(r) /\ Keeping(r) /\ Clean(r))'
<1>0. /\ Types /\ program' = program
  BY OthersKeep DEF Inv, Step
<1>1. at[r] \in Positions /\ Op(r).op = "capture" /\ Op(r).arg # None /\ active[r] = None
  BY <1>0, RunningFacts DEF EnterBound
<1>2. PICK ch \in Channels : ch = Op(r).arg
  BY <1>0, <1>1, OperationFacts DEF Types, Op
<1>3. /\ UNCHANGED graphs /\ NextOp(r) /\ label'[r] = "run" /\ active'[r] = ch
      /\ contexts'[r] = Append(contexts[r], "bound")
      /\ \A k \in Keys : pools'[r][k] =
           IF pools[r][k] # None THEN Bind(pools[r][k], ch) ELSE None
      /\ \A k \in Keys : checkpoint'[r][k] =
           IF pools[r][k] # None THEN Keeps(checkpoint[r][k], pools[r][k].chans, ch)
           ELSE checkpoint[r][k]
  BY <1>0, <1>2 DEF EnterBound, Types, NextOp, Push, Live
<1>4. Clean(r)'
  BY <1>0, <1>1, <1>3, CleanLeaves
<1>5. /\ contexts[r] \in Seq(Kinds) /\ Len(contexts[r]) \in Nat /\ "bound" \in Kinds
  BY <1>0, LenProperties DEF Types, Kinds
<1>6. /\ Len(contexts'[r]) = Len(contexts[r]) + 1
      /\ contexts'[r][Len(contexts[r]) + 1] = "bound"
  BY <1>3, <1>5, AppendProperties
<1>7. Depth(r)'
  <2>1. Depth(r)
    BY DEF ChanInv, Depth
  <2>2. Len(contexts[r]) + 1 \in Nat
    BY <1>5
  <2> QED
    BY <1>0, <1>1, <1>3, <1>5, <1>6, <2>1, <2>2, DepthNext
<1>8. \E j \in 1 .. Len(contexts'[r]) : contexts'[r][j] = "bound"
  BY <1>5, <1>6
<1>9. ASSUME NEW k \in Keys, pools[r][k] # None
      PROVE  /\ Sound(pools'[r][k], checkpoint'[r][k], ch)
             /\ checkpoint'[r][k] # None =>
                  Eager \in checkpoint'[r][k] /\ checkpoint'[r][k] \cap Profile = {}
             /\ pools'[r][k] # None /\ pools[r][k].chans \subseteq pools'[r][k].chans
  <2>1. PICK p \in Pool : p = pools[r][k]
    BY <1>0, <1>9 DEF Types
  <2>2. PICK c : c = checkpoint[r][k]
    OBVIOUS
  <2>3. Sound(p, c, None)
    BY <1>1, <1>9, <2>1, <2>2 DEF ChanInv
  <2>4. c # None => Eager \in c /\ c \cap Profile = {}
    BY <2>2 DEF ChanInv
  <2>5. /\ pools'[r][k] = Bind(p, ch)
        /\ checkpoint'[r][k] = IF ch \in Profile /\ c = None THEN p.chans ELSE c
    BY <1>3, <1>9, <2>1, <2>2 DEF Keeps, Checkpointed
  <2>6. /\ Bind(p, ch) \in Pool /\ Bind(p, ch).chans = p.chans \cup {ch}
        /\ Bind(p, ch).open = p.open \cup {ch}
    BY DEF Bind, Pool
  <2>7. p.chans # None
    BY NoneAssumption DEF Pool
  <2>8. ch # None
    BY <1>1, <1>2
  <2>9. Sound(Bind(p, ch), checkpoint'[r][k], ch)
    <3>1. Joined(ch) = {ch} /\ p.open = {} /\ Eager \in p.chans
      BY <2>3, <2>8 DEF Sound, Joined
    <3>2. checkpoint'[r][k] = None => c = None /\ ch \notin Profile
      BY <2>5, <2>7
    <3>3. c = None => p.chans \cap Profile = {}
      BY <2>3 DEF Sound
    <3> QED
      BY <2>6, <3>1, <3>2, <3>3 DEF Sound
  <2>10. checkpoint'[r][k] # None =>
           Eager \in checkpoint'[r][k] /\ checkpoint'[r][k] \cap Profile = {}
    BY <2>3, <2>4, <2>5 DEF Sound
  <2> QED
    BY <2>1, <2>5, <2>6, <2>9, <2>10, NoneAssumption
<1>10. ASSUME NEW k \in Keys, pools[r][k] = None
       PROVE  pools'[r][k] = None /\ checkpoint'[r][k] = checkpoint[r][k]
  BY <1>3, <1>10
<1>11. ChanInv(r)'
  BY <1>3, <1>7, <1>8, <1>9, <1>10 DEF ChanInv, Depth
<1>12. Keeping(r)'
  <2>1. \A g \in graphs[r] : g.key \in Keys
    BY <1>0 DEF Types
  <2> QED
    BY <1>3, <1>9, <2>1 DEF Keeping
<1> QED
  BY <1>4, <1>11, <1>12

LEMMA ChanExit ==
  ASSUME Inv, NEW r \in Members, ChanInv(r), Keeping(r), Exit(r)
  PROVE  (ChanInv(r) /\ Keeping(r) /\ Clean(r))'
<1>0. /\ Types /\ program' = program
  BY OthersKeep DEF Inv, Step
<1>1. at[r] \in Positions /\ Op(r).op = "exit"
  BY <1>0, RunningFacts DEF Exit
<1>2. PICK n \in Nat : n = Len(contexts[r])
  BY <1>0, LenProperties DEF Types
<1>3. Depth(r)
  BY DEF ChanInv, Depth
<1>4. n >= 1
  <2>1. PICK i \in Positions : i = at[r]
    BY <1>1
  <2>2. Done(program, i, "exit") < Done(program, i, "capture")
    BY <1>0, <1>1, <2>1, ProgramsAssumption DEF Nested, Types, Op, Positions
  <2>3. Done(program, i, "exit") \in Nat /\ Done(program, i, "capture") \in Nat
    BY <1>0, DoneStep DEF Types
  <2> QED
    BY <1>2, <1>3, <2>1, <2>2, <2>3 DEF Depth
<1>5. /\ UNCHANGED <<checkpoint, graphs>> /\ NextOp(r) /\ label'[r] = "run"
      /\ contexts'[r] = SubSeq(contexts[r], 1, n - 1)
  BY <1>0, <1>2 DEF Exit, Types, NextOp
<1>6. /\ Len(contexts'[r]) = n - 1
      /\ \A j \in 1 .. n - 1 : contexts'[r][j] = contexts[r][j]
  <2>1. contexts[r] \in Seq(Kinds)
    BY <1>0 DEF Types
  <2>2. /\ Len(SubSeq(contexts[r], 1, n - 1)) = n - 1
        /\ \A j \in 1 .. n - 1 : SubSeq(contexts[r], 1, n - 1)[j] = contexts[r][1 + j - 1]
    BY <1>2, <1>4, <2>1, SubSeqProperties
  <2> QED
    BY <1>5, <2>2
<1>7. Depth(r)'
  <2>1. n - 1 \in Nat
    BY <1>4
  <2> QED
    BY <1>0, <1>1, <1>2, <1>3, <1>5, <1>6, <2>1, DepthNext
<1>8. Clean(r)'
  BY <1>0, <1>1, <1>5, CleanLeaves
<1>9. CASE contexts[r][n] = "plain"
  <2>1. UNCHANGED <<active, pools>>
    BY <1>2, <1>9 DEF Exit
  <2>2. active[r] # None => \E j \in 1 .. Len(contexts'[r]) : contexts'[r][j] = "bound"
    <3>1. SUFFICES ASSUME active[r] # None
                   PROVE  \E j \in 1 .. n - 1 : contexts'[r][j] = "bound"
      BY <1>6
    <3>2. PICK j \in 1 .. n : contexts[r][j] = "bound"
      BY <1>2, <3>1 DEF ChanInv
    <3>3. j \in 1 .. n - 1
      BY <1>4, <1>9, <3>2
    <3> QED
      BY <1>6, <3>2, <3>3
  <2> QED
    BY <1>5, <1>7, <1>8, <2>1, <2>2 DEF ChanInv, Keeping, Depth
<1>10. CASE contexts[r][n] # "plain"
  <2>1. /\ active'[r] = None
        /\ \A k \in Keys : pools'[r][k] =
             IF pools[r][k] # None THEN [pools[r][k] EXCEPT !.open = @ \ {active[r]}] ELSE None
    BY <1>0, <1>2, <1>10 DEF Exit, Types, Live
  <2>2. ASSUME NEW k \in Keys, pools[r][k] # None
        PROVE  /\ pools'[r][k] # None /\ pools'[r][k].chans = pools[r][k].chans
               /\ Sound(pools'[r][k], checkpoint[r][k], None)
    <3>1. PICK p \in Pool : p = pools[r][k]
      BY <1>0, <2>2 DEF Types
    <3>2. Sound(p, checkpoint[r][k], active[r])
      BY <2>2, <3>1 DEF ChanInv
    <3>3. PICK e : e = [p EXCEPT !.open = @ \ {active[r]}]
      OBVIOUS
    <3>4. e \in Pool /\ e.chans = p.chans /\ e.open = p.open \ {active[r]}
      BY <3>3 DEF Pool
    <3>5. Sound(e, checkpoint[r][k], None)
      BY <3>2, <3>4 DEF Sound, Joined
    <3> QED
      BY <2>1, <2>2, <3>1, <3>3, <3>4, <3>5, NoneAssumption
  <2>3. Keeping(r)'
    <3>1. \A g \in graphs[r] : g.key \in Keys
      BY <1>0 DEF Types
    <3> QED
      BY <1>5, <2>2, <3>1 DEF Keeping
  <2>4. ChanInv(r)'
    BY <1>5, <1>7, <2>1, <2>2 DEF ChanInv, Depth
  <2> QED
    BY <1>8, <2>3, <2>4
<1> QED
  BY <1>9, <1>10

LEMMA ChanRollback ==
  ASSUME Inv, NEW r \in Members, ChanInv(r), Keeping(r), Rollback(r)
  PROVE  (ChanInv(r) /\ Keeping(r) /\ Clean(r))'
<1>0. /\ Types /\ Own(r) /\ program' = program
  BY OthersKeep DEF Inv, Own, Step
<1>1. at[r] \in Positions /\ label[r] = "rollback" /\ Op(r).op = "discard" /\ graphs[r] = {}
  BY <1>0 DEF Own, Placed, Rollback, ChanInv
<1>2. PICK n \in Nat : n = Len(contexts[r])
  BY <1>0, LenProperties DEF Types
<1>3. Depth(r)
  BY DEF ChanInv, Depth
<1>4. active[r] = None
  <2>1. PICK i \in Positions : i = at[r]
    BY <1>1
  <2>2. Done(program, i, "exit") = Done(program, i, "capture")
    BY <1>0, <1>1, <2>1, ProgramsAssumption DEF Nested, Types, Op, Positions
  <2>3. Done(program, i, "exit") \in Nat
    BY <1>0, DoneStep DEF Types
  <2>4. n = 0
    BY <1>2, <1>3, <2>1, <2>2, <2>3 DEF Depth
  <2> QED
    BY <1>2, <2>4 DEF ChanInv
<1>5. /\ UNCHANGED <<active, contexts, graphs>> /\ NextOp(r) /\ label'[r] = "run"
      /\ \A k \in Keys : checkpoint'[r][k] = None
      /\ \A k \in Keys : pools'[r][k] =
           IF pools[r][k] # None /\ checkpoint[r][k] # None
           THEN [pools[r][k] EXCEPT !.chans = checkpoint[r][k]] ELSE pools[r][k]
  BY <1>0 DEF Rollback, Types, NextOp, Live, Nothing
<1>6. ASSUME NEW k \in Keys, pools'[r][k] # None
      PROVE  /\ Sound(pools'[r][k], None, None) /\ pools'[r][k].open = {}
             /\ pools'[r][k].chans \cap Profile = {}
  <2>1. pools[r][k] # None
    BY <1>5, <1>6
  <2>2. PICK p \in Pool : p = pools[r][k]
    BY <1>0, <2>1 DEF Types
  <2>3. Sound(p, checkpoint[r][k], None)
    BY <1>4, <2>1, <2>2 DEF ChanInv
  <2>4. p.open = {}
    BY <2>3 DEF Sound, Joined
  <2>5. CASE checkpoint[r][k] = None
    <3>1. pools'[r][k] = p
      BY <1>5, <2>2, <2>5
    <3> QED
      BY <2>3, <2>4, <2>5, <3>1 DEF Sound
  <2>6. CASE checkpoint[r][k] # None
    <3>1. PICK c \in SUBSET Channels : c = checkpoint[r][k]
      BY <1>0, <2>6 DEF Types
    <3>2. Eager \in c /\ c \cap Profile = {}
      BY <2>6, <3>1 DEF ChanInv
    <3>3. PICK e : e = [p EXCEPT !.chans = c]
      OBVIOUS
    <3>4. e.chans = c /\ e.open = p.open
      BY <3>3 DEF Pool
    <3>5. pools'[r][k] = e
      BY <1>5, <2>1, <2>2, <2>6, <3>1, <3>3
    <3> QED
      BY <2>4, <3>2, <3>4, <3>5 DEF Sound, Joined
  <2> QED
    BY <2>5, <2>6
<1>7. Depth(r)'
  BY <1>0, <1>1, <1>2, <1>3, <1>5, DepthNext
<1>8. Keeping(r)'
  BY <1>1, <1>5 DEF Keeping
<1>9. Clean(r)'
  BY <1>5, <1>6 DEF Clean, Live
<1>10. ChanInv(r)'
  BY <1>4, <1>5, <1>6, <1>7 DEF ChanInv, Depth
<1> QED
  BY <1>8, <1>9, <1>10

LEMMA ChanRest ==
  ASSUME Inv, NEW r \in Members, ChanInv(r), Keeping(r), EnterRaises(r) \/ ResetGraphs(r)
  PROVE  (ChanInv(r) /\ Keeping(r) /\ Clean(r))'
<1>0. /\ Types /\ program' = program
  BY OthersKeep DEF Inv, Step
<1>1. UNCHANGED <<at, pools, checkpoint, active, contexts>>
  BY DEF EnterRaises, ResetGraphs, Stay
<1>2. \/ label'[r] = "dead" /\ UNCHANGED graphs
      \/ label'[r] = "rollback" /\ graphs'[r] = {}
  BY <1>0 DEF EnterRaises, ResetGraphs, Stay, Types
<1>3. Clean(r)' /\ Keeping(r)'
  BY <1>1, <1>2 DEF Clean, Keeping
<1>4. ChanInv(r)'
  BY <1>0, <1>1, <1>2 DEF ChanInv
<1> QED
  BY <1>3, <1>4

LEMMA KeptInit == Init => Kept
<1> SUFFICES ASSUME Init PROVE Kept
  OBVIOUS
<1>1. Inv
  BY InvInit
<1>2. ASSUME NEW r \in Members PROVE ChanInv(r) /\ Keeping(r) /\ Clean(r)
  <2>1. /\ at[r] = 1 /\ label[r] = "run" /\ active[r] = None /\ contexts[r] = <<>>
        /\ graphs[r] = {} /\ \A k \in Keys : pools[r][k] = None /\ checkpoint[r][k] = None
    BY DEF Init, Nothing
  <2>2. Len(contexts[r]) = 0
    BY <2>1
  <2>3. ASSUME NEW name PROVE Done(program, 1, name) = 0
    <3>1. {j \in 1 .. 1 - 1 : program[j].op = name} = {}
      OBVIOUS
    <3> QED
      BY <3>1, FS_EmptySet DEF Done
  <2> QED
    BY <2>1, <2>2, <2>3 DEF ChanInv, Keeping, Clean
<1> QED
  BY <1>1, <1>2 DEF Kept

LEMMA KeptNext == Kept /\ [Next]_vars => Kept'
<1> SUFFICES ASSUME Kept, [Next]_vars PROVE Kept'
  OBVIOUS
<1>1. Inv /\ Inv' /\ Types
  BY InvNext DEF Kept, Inv
<1>2. ASSUME NEW q \in Members, Same(q), program' = program
      PROVE  (ChanInv(q) /\ Keeping(q) /\ Clean(q))'
  <2>1. ChanInv(q) /\ Keeping(q) /\ Clean(q)
    BY DEF Kept
  <2> QED
    BY <1>2, <2>1 DEF ChanInv, Keeping, Clean, Same, Live
<1>3. CASE UNCHANGED vars
  <2>1. program' = program /\ \A q \in Members : Same(q)
    BY <1>3 DEF vars, local, Same
  <2> QED
    BY <1>1, <1>2, <2>1 DEF Kept
<1>4. ASSUME NEW r \in Members, Step(r) PROVE Kept'
  <2>1. program' = program /\ \A q \in Members \ {r} : Same(q)
    BY <1>1, <1>4, OthersKeep
  <2>2. ChanInv(r) /\ Keeping(r)
    BY DEF Kept
  <2>3. (ChanInv(r) /\ Keeping(r) /\ Clean(r))'
    <3>1. CASE GetKnown(r) \/ NoPoolClass(r) \/ CreatePool(r) \/ CreateFails(r) \/ Agree(r)
      BY <1>1, <1>4, <2>2, <3>1, ChanCall
    <3>2. CASE Issue(r)
      BY <1>1, <2>2, <3>2, ChanIssue
    <3>3. CASE EnterPlain(r)
      BY <1>1, <2>2, <3>3, ChanEnterPlain
    <3>4. CASE EnterBound(r)
      BY <1>1, <2>2, <3>4, ChanEnterBound
    <3>5. CASE EnterRaises(r) \/ ResetGraphs(r)
      BY <1>1, <2>2, <3>5, ChanRest
    <3>6. CASE Exit(r)
      BY <1>1, <2>2, <3>6, ChanExit
    <3>7. CASE Rollback(r)
      BY <1>1, <2>2, <3>7, ChanRollback
    <3> QED
      BY <1>4, <3>1, <3>2, <3>3, <3>4, <3>5, <3>6, <3>7 DEF Step
  <2> QED
    BY <1>1, <1>2, <2>1, <2>3 DEF Kept
<1> QED
  BY <1>3, <1>4 DEF Next

LEMMA KeptSound == Kept => ChannelsSound
BY DEF Kept, ChannelsSound, GraphsKeepChannels, ProfilingLeavesNothing, Keeping, Clean

-----------------------------------------------------------------------------
\* Whichever ranks lack the pool class or fail to create a pool, at whatever
\* stage: no two ranks decide a call differently, and ranks that come to the
\* same operation have the same pools (_get_pool and _init_failed).
THEOREM RanksDecideAlike == Spec => []RanksAligned
<1>1. Aligned => RanksAligned
  BY TypesCorrect, AlignedDecides, AlignedCatalogs DEF Aligned, Inv, RanksAligned
<1> QED
  BY <1>1, AlignedInit, AlignedNext, PTL DEF Spec, SafeSpec

\* A graph's channel stays in its pool's catalogue as long as the graph
\* lives, and after profiling no pool has a channel, an open capture or a
\* checkpoint of it left (capture_b12x_dcp and the rollback).
THEOREM ProfilingTakesBackItsOwn == Spec => []ChannelsSound
<1> QED
  BY KeptInit, KeptNext, KeptSound, PTL DEF Spec, SafeSpec

=============================================================================
