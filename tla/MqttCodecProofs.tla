--------------------------- MODULE MqttCodecProofs ---------------------------
(***************************************************************************)
(* The round trip of MqttCodec for every length below 2^31.                *)
(***************************************************************************)
EXTENDS MqttCodec, TLAPS

\* Seven bits at a time: what a round divides is what the reader adds up.
LEMMA Digits ==
  ASSUME NEW n \in Nat, n <= 2147483647
  PROVE  /\ n < 128 => n % 128 = n
         /\ n < 16384 => (n % 128) + ((n \div 128) % 128) * 128 = n
         /\ n < 2097152 => (n % 128) + ((n \div 128) % 128) * 128
                             + ((n \div 16384) % 128) * 16384 = n
         /\ n < 268435456 => (n % 128) + ((n \div 128) % 128) * 128
                               + ((n \div 16384) % 128) * 16384
                               + ((n \div 2097152) % 128) * 2097152 = n
  BY SMT

\* After k rounds something remains of the lengths from 128^k on.
LEMMA Rounds ==
  ASSUME NEW n \in Nat, n <= 2147483647
  PROVE  /\ Remaining(n, 0) = n
         /\ Remaining(n, 1) = n \div 128 /\ (More(n, 1) <=> n >= 128)
         /\ Remaining(n, 2) = n \div 16384 /\ (More(n, 2) <=> n >= 16384)
         /\ Remaining(n, 3) = n \div 2097152 /\ (More(n, 3) <=> n >= 2097152)
         /\ Remaining(n, 4) = n \div 268435456 /\ (More(n, 4) <=> n >= 268435456)
         /\ ~ More(n, 5)
<1>1. /\ Remaining(n, 0) = n \div 1 /\ Remaining(n, 1) = n \div 128
      /\ Remaining(n, 2) = n \div 16384 /\ Remaining(n, 3) = n \div 2097152
      /\ Remaining(n, 4) = n \div 268435456 /\ Remaining(n, 5) = 0
  BY SMT DEF Remaining, Places
<1>2. n \div 1 = n
  BY SMT
<1>3. /\ (n \div 128 > 0) <=> n >= 128
      /\ (n \div 16384 > 0) <=> n >= 16384
      /\ (n \div 2097152 > 0) <=> n >= 2097152
      /\ (n \div 268435456 > 0) <=> n >= 268435456
  BY SMT
<1> QED BY <1>1, <1>2, <1>3, SMT DEF More

\* The loop stops after the byte that leaves nothing.
LEMMA Count ==
  ASSUME NEW n \in Nat, n <= 2147483647,
         NEW c \in 1..5, ~ More(n, c), \A k \in 1..(c - 1) : More(n, k)
  PROVE  ByteCount(n) = c
<1>1. ASSUME NEW d \in 1..5, ~ More(n, d), \A k \in 1..(d - 1) : More(n, k)
      PROVE  d = c
  BY <1>1, SMT
<1> QED BY <1>1, SMT DEF ByteCount

\* Each byte of what is written, and whether it ends the number.
LEMMA WrittenByte ==
  ASSUME NEW n \in Nat, n <= 2147483647, NEW c \in 1..5, ByteCount(n) = c, NEW k \in 1..c
  PROVE  /\ DOMAIN Written(n) = 1..c
         /\ Written(n)[k] % 128 = Remaining(n, k - 1) % 128
         /\ (Written(n)[k] >= 128) <=> More(n, k)
         /\ Written(n)[k] \in Nat
<1>1. Remaining(n, k - 1) \in Nat
  <2>1. k - 1 \in 0..4
    BY SMT
  <2> QED BY <2>1, Rounds, SMT DEF More
<1>2. \A r \in Nat : /\ (r % 128) % 128 = r % 128 /\ r % 128 < 128 /\ r % 128 \in Nat
                     /\ ((r % 128) + 128) % 128 = r % 128
                     /\ (r % 128) + 0 = r % 128
  BY SMT
<1>3. /\ DOMAIN Written(n) = 1..c
      /\ Written(n)[k] = (Remaining(n, k - 1) % 128) + (IF More(n, k) THEN 128 ELSE 0)
  BY SMT DEF Written
<1> QED BY <1>1, <1>2, <1>3, SMT

\* A number that ends at its last byte is read there and nowhere else.
LEMMA ReadAt ==
  ASSUME NEW n \in Nat, n <= 2147483647, NEW c \in 1..5, ByteCount(n) = c,
         ~ More(n, c), \A k \in 1..(c - 1) : More(n, k)
  PROVE  Read(Written(n)) = IF c <= 4 THEN {Sum(Written(n), c)} ELSE {}
<1>1. DOMAIN Written(n) = 1..c
  BY SMT DEF Written
<1>2. ASSUME NEW k \in 1..c
      PROVE  ((Written(n)[k] >= 128) <=> More(n, k)) /\ Written(n)[k] \in Nat
  BY WrittenByte, SMT
<1>3. \A i \in 1..4 : EndsAt(Written(n), i) <=> i = c
  BY <1>1, <1>2, SMT DEF EndsAt
<1> QED BY <1>3, SMT DEF Read

\* The bytes hold seven bits of the length each, the lowest first.
LEMMA BytesHold ==
  ASSUME NEW n \in Nat, n <= 2147483647, NEW c \in 1..5, ByteCount(n) = c
  PROVE  /\ Written(n)[1] % 128 = n % 128
         /\ c >= 2 => Written(n)[2] % 128 = (n \div 128) % 128
         /\ c >= 3 => Written(n)[3] % 128 = (n \div 16384) % 128
         /\ c >= 4 => Written(n)[4] % 128 = (n \div 2097152) % 128
<1>1. ASSUME NEW i \in 0..3, i + 1 <= c
      PROVE  Written(n)[i + 1] % 128 = Remaining(n, i) % 128
  <2>1. i + 1 \in 1..c /\ (i + 1) - 1 = i
    BY <1>1, SMT
  <2>2. Written(n)[i + 1] % 128 = Remaining(n, (i + 1) - 1) % 128
    BY <2>1, WrittenByte, SMT
  <2>3. Remaining(n, (i + 1) - 1) = Remaining(n, i)
    BY <2>1, SMT
  <2> QED BY <2>2, <2>3, SMT
<1>2. /\ Written(n)[1] % 128 = Remaining(n, 0) % 128
      /\ c >= 2 => Written(n)[2] % 128 = Remaining(n, 1) % 128
      /\ c >= 3 => Written(n)[3] % 128 = Remaining(n, 2) % 128
      /\ c >= 4 => Written(n)[4] % 128 = Remaining(n, 3) % 128
  BY <1>1, SMT
<1>3. /\ Remaining(n, 0) = n /\ Remaining(n, 1) = n \div 128
      /\ Remaining(n, 2) = n \div 16384 /\ Remaining(n, 3) = n \div 2097152
  BY Rounds, SMT
<1>4. /\ Remaining(n, 0) % 128 = n % 128
      /\ Remaining(n, 1) % 128 = (n \div 128) % 128
      /\ Remaining(n, 2) % 128 = (n \div 16384) % 128
      /\ Remaining(n, 3) % 128 = (n \div 2097152) % 128
  BY <1>3, SMT
<1> QED BY <1>2, <1>4, SMT

\* The reader's sum, by the number of bytes.
LEMMA SumOf ==
  ASSUME NEW bytes, NEW a \in Nat, NEW b \in Nat, NEW c \in Nat, NEW d \in Nat
  PROVE  /\ bytes[1] % 128 = a => Sum(bytes, 1) = a
         /\ bytes[1] % 128 = a /\ bytes[2] % 128 = b => Sum(bytes, 2) = a + b * 128
         /\ bytes[1] % 128 = a /\ bytes[2] % 128 = b /\ bytes[3] % 128 = c
              => Sum(bytes, 3) = a + b * 128 + c * 16384
         /\ bytes[1] % 128 = a /\ bytes[2] % 128 = b /\ bytes[3] % 128 = c
            /\ bytes[4] % 128 = d
              => Sum(bytes, 4) = a + b * 128 + c * 16384 + d * 2097152
<1>1. bytes[1] % 128 = a => Sum(bytes, 1) = ((a + 0) + 0) + 0
  BY SMT DEF Sum
<1>2. bytes[1] % 128 = a /\ bytes[2] % 128 = b
        => Sum(bytes, 2) = ((a + b * 128) + 0) + 0
  BY SMT DEF Sum
<1>3. bytes[1] % 128 = a /\ bytes[2] % 128 = b /\ bytes[3] % 128 = c
        => Sum(bytes, 3) = ((a + b * 128) + c * 16384) + 0
  BY SMT DEF Sum
<1>4. bytes[1] % 128 = a /\ bytes[2] % 128 = b /\ bytes[3] % 128 = c /\ bytes[4] % 128 = d
        => Sum(bytes, 4) = ((a + b * 128) + c * 16384) + d * 2097152
  BY SMT DEF Sum
<1>5. a + 0 = a /\ b * 128 \in Nat /\ (a + b * 128) + 0 = a + b * 128
      /\ ((a + b * 128) + c * 16384) + 0 = a + b * 128 + c * 16384
  BY SMT
<1> QED BY <1>1, <1>2, <1>3, <1>4, <1>5, SMT

\* What write_packet writes of a length, read_packet reads, for every length
\* below 2^31: the body is framed as it was sent, or the packet is refused.
THEOREM LengthsReadBackHolds == LengthsReadBack
<1> SUFFICES ASSUME NEW n \in FiveBytes PROVE ReadsBack(n)
  BY LengthsAssumption DEF LengthsReadBack
<1>n. n \in Nat /\ n <= 2147483647
  BY SMT DEF FiveBytes
<1> DEFINE W == Written(n)
<1>r. Read(W) = {n} /\ n < 268435456 => ReadsBack(n)
  BY SMT DEF ReadsBack
<1> DEFINE a == n % 128
           b == (n \div 128) % 128
           c == (n \div 16384) % 128
           d == (n \div 2097152) % 128
<1>a. a \in Nat /\ b \in Nat /\ c \in Nat /\ d \in Nat
  BY <1>n, SMT
<1>d. /\ n < 128 => a = n
      /\ n < 16384 => a + b * 128 = n
      /\ n < 2097152 => a + b * 128 + c * 16384 = n
      /\ n < 268435456 => a + b * 128 + c * 16384 + d * 2097152 = n
  BY <1>n, Digits, SMT
<1>b. ASSUME NEW k \in 1..5, ByteCount(n) = k
      PROVE  /\ W[1] % 128 = a
             /\ k >= 2 => W[2] % 128 = b
             /\ k >= 3 => W[3] % 128 = c
             /\ k >= 4 => W[4] % 128 = d
  BY <1>n, <1>b, BytesHold, SMT
<1> HIDE DEF W, a, b, c, d
<1>1. CASE n < 128
  <2>1. ByteCount(n) = 1 /\ Read(W) = {Sum(W, 1)}
    BY <1>n, <1>1, Rounds, Count, ReadAt, SMT DEF W
  <2>2. W[1] % 128 = a
    BY <1>b, <2>1, SMT
  <2>3. Sum(W, 1) = n
    BY <1>1, <1>a, <1>d, <2>2, SumOf, SMT
  <2> QED BY <1>n, <1>1, <1>r, <2>1, <2>3, SMT
<1>2. CASE n >= 128 /\ n < 16384
  <2>1. ByteCount(n) = 2 /\ Read(W) = {Sum(W, 2)}
    BY <1>n, <1>2, Rounds, Count, ReadAt, SMT DEF W
  <2>2. W[1] % 128 = a /\ W[2] % 128 = b
    BY <1>b, <2>1, SMT
  <2>3. Sum(W, 2) = n
    BY <1>2, <1>a, <1>d, <2>2, SumOf, SMT
  <2> QED BY <1>n, <1>2, <1>r, <2>1, <2>3, SMT
<1>3. CASE n >= 16384 /\ n < 2097152
  <2>1. ByteCount(n) = 3 /\ Read(W) = {Sum(W, 3)}
    BY <1>n, <1>3, Rounds, Count, ReadAt, SMT DEF W
  <2>2. W[1] % 128 = a /\ W[2] % 128 = b /\ W[3] % 128 = c
    BY <1>b, <2>1, SMT
  <2>3. Sum(W, 3) = n
    BY <1>3, <1>a, <1>d, <2>2, SumOf, SMT
  <2> QED BY <1>n, <1>3, <1>r, <2>1, <2>3, SMT
<1>4. CASE n >= 2097152 /\ n < 268435456
  <2>1. ByteCount(n) = 4 /\ Read(W) = {Sum(W, 4)}
    BY <1>n, <1>4, Rounds, Count, ReadAt, SMT DEF W
  <2>2. W[1] % 128 = a /\ W[2] % 128 = b /\ W[3] % 128 = c /\ W[4] % 128 = d
    BY <1>b, <2>1, SMT
  <2>3. Sum(W, 4) = n
    BY <1>4, <1>a, <1>d, <2>2, SumOf, SMT
  <2> QED BY <1>n, <1>4, <1>r, <2>1, <2>3, SMT
<1>5. CASE n >= 268435456
  <2>1. ByteCount(n) = 5 /\ Read(W) = {}
    BY <1>n, <1>5, Rounds, Count, ReadAt, SMT DEF W
  <2> QED BY <1>n, <1>5, <2>1, SMT DEF ReadsBack, W
<1> QED BY <1>n, <1>1, <1>2, <1>3, <1>4, <1>5, SMT
==============================================================================
