------------------------------ MODULE MqttCodec ------------------------------
(***************************************************************************)
(* The remaining length of an MQTT packet as src/export/mqtt.rs writes it  *)
(* (write_packet) and reads it (read_packet): seven bits to a byte, lowest *)
(* first, the eighth bit set on all bytes but the last.  The writer has no *)
(* limit, the reader gives up after four bytes.  Lengths below 2^31 take   *)
(* at most five.                                                           *)
(***************************************************************************)
EXTENDS Naturals

CONSTANT Lengths    \* the lengths of packet bodies considered

FiveBytes == {n \in Nat : n <= 2147483647}

ASSUME LengthsAssumption == Lengths \subseteq FiveBytes

Places == <<1, 128, 16384, 2097152, 268435456>>

\* `remaining' after k rounds of the writer's loop.
Remaining(n, k) == IF k < 5 THEN n \div Places[k + 1] ELSE 0

\* Mutant: `remaining' is tested before it is divided.
More_Early(n, k) == Remaining(n, k - 1) > 0

\* Whether the k-th byte says that another follows.
More(n, k) == Remaining(n, k) > 0

\* The loop ends with the first byte that no other follows.
ByteCount(n) == CHOOSE c \in 1..5 : ~ More(n, c) /\ \A k \in 1..(c - 1) : More(n, k)

\* What write_packet sends before a body of n bytes.
Written(n) ==
  [k \in 1..ByteCount(n) |-> (Remaining(n, k - 1) % 128) + (IF More(n, k) THEN 128 ELSE 0)]

\* The sum of the reader after k bytes.
Sum(bytes, k) ==
  (bytes[1] % 128)
    + (IF k >= 2 THEN (bytes[2] % 128) * 128 ELSE 0)
    + (IF k >= 3 THEN (bytes[3] % 128) * 16384 ELSE 0)
    + (IF k >= 4 THEN (bytes[4] % 128) * 2097152 ELSE 0)

\* The reader's bytes end at the k-th.
EndsAt(bytes, k) ==
  /\ k \in DOMAIN bytes
  /\ bytes[k] < 128
  /\ \A j \in 1..(k - 1) : bytes[j] >= 128

\* What read_packet makes of the bytes: one length, or none when it refuses them.
Read(bytes) == {Sum(bytes, k) : k \in {i \in 1..4 : EndsAt(bytes, i)}}

----------------------------------------------------------------------------
\* A length that write_packet writes is read back as itself if it takes four
\* bytes or fewer, and is refused, never misread, if it takes five.
ReadsBack(n) == Read(Written(n)) = IF n < 268435456 THEN {n} ELSE {}

LengthsReadBack == \A n \in Lengths : ReadsBack(n)
==============================================================================
