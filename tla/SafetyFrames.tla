----------------------------- MODULE SafetyFrames -----------------------------
(***************************************************************************)
(* The CIP Safety frame formats: Base and Extended, each short (up to two  *)
(* bytes of data) and long.  A byte of data is 0 or 1, the complement of b *)
(* being 1 - b; the mode byte is the set of its bits that are one; a CRC   *)
(* is a record of its polynomial, its seed and what it is computed over,   *)
(* so that two CRCs are equal exactly when they cover the same: what the   *)
(* polynomials let through by collision is left out, what they are not     *)
(* computed over is kept.                                                  *)
(*                                                                         *)
(* A frame on the wire has the fields data, mode, actual (CRC), complement *)
(* (data), check (the complement CRC, or the low word of CRC-S5), ts and   *)
(* ts_check (the time stamp CRC, or the high byte of CRC-S5), in this      *)
(* order; a field that a format does not have is empty.                    *)
(***************************************************************************)
EXTENDS Naturals, Sequences

Formats == {"Base", "Extended"}

-----------------------------------------------------------------------------
(* The mode byte                                                           *)

PingBits(ping) == {i \in 0..1 : (ping \div 2^i) % 2 = 1}

\* Bit 7 is run, bit 4 its complement; bit 3 is reserved, bit 2 its complement.
ModeByte(run, ping) == (IF run THEN {7} ELSE {4}) \cup {2} \cup PingBits(ping)

RunOf(mode) == 7 \in mode
PingOf(mode) == (IF 0 \in mode THEN 1 ELSE 0) + (IF 1 \in mode THEN 2 ELSE 0)

DataMaskNoRun(mode) == mode \cap 5..6      \* mutant: the run bit under no CRC
DataMask(mode) == mode \cap 5..7
ComplementDataMask(mode) == 5..7 \ mode
TimestampMask(mode) == mode \cap 0..4

-----------------------------------------------------------------------------
(* Sizes and CRCs                                                          *)

IsShort(n) == n <= 2

WireSize(n) == IF IsShort(n) THEN n + 6 ELSE 2 * n + 8

EstimateTooShort(size) ==        \* mutant: lengths from 4
  IF size \in 7..8 THEN size - 6
  ELSE IF size \in {WireSize(n) : n \in 4..250} THEN (size - 8) \div 2
  ELSE 0

\* Neither end is told the data length: both derive it from the size of what
\* arrives.  0 stands for -1, "not a data frame".
EstimateDataLength(size) ==
  IF size \in 7..8 THEN size - 6
  ELSE IF size \in {WireSize(n) : n \in 3..250} THEN (size - 8) \div 2
  ELSE 0

Crc(poly, seed, mask, data, ts) ==
  [poly |-> poly, seed |-> seed, mask |-> mask, data |-> data, ts |-> ts]

NoTs == 65536                                \* the CRC does not cover a time stamp
NoCrc == Crc("none", <<>>, {}, <<>>, NoTs)

\* The seeds of the Base Format identify the producer and the connection, those
\* of the Extended Format its roll-over count as well.
PidSeed(pid) == <<pid>>
PidRolloverSeed(rollover, pid) == <<pid, rollover>>

Complement(data) == [i \in DOMAIN data |-> 1 - data[i]]

-----------------------------------------------------------------------------
(* Encoding                                                                *)

EncodeBaseShort(data, mode, ts, pid) ==
  [data |-> data, mode |-> mode,
   actual |-> Crc("S1", PidSeed(pid), DataMask(mode), data, NoTs),
   complement |-> <<>>,
   check |-> Crc("S2", PidSeed(pid), ComplementDataMask(mode), Complement(data), NoTs),
   ts |-> ts,
   ts_check |-> Crc("S1", PidSeed(pid), TimestampMask(mode), <<>>, ts)]

EncodeBaseLong(data, mode, ts, pid) ==
  [data |-> data, mode |-> mode,
   actual |-> Crc("S3", PidSeed(pid), DataMask(mode), data, NoTs),
   complement |-> Complement(data),
   check |-> Crc("S3", PidSeed(pid), ComplementDataMask(mode), Complement(data), NoTs),
   ts |-> ts,
   ts_check |-> Crc("S1", PidSeed(pid), TimestampMask(mode), <<>>, ts)]

\* The low bits of the mode byte are under no CRC here.
EncodeExtendedShort(data, mode, ts, pid, rollover) ==
  LET s5 == Crc("S5", PidRolloverSeed(rollover, pid), DataMask(mode), data, ts)
  IN [data |-> data, mode |-> mode, actual |-> NoCrc, complement |-> <<>>,
      check |-> s5, ts |-> ts, ts_check |-> s5]

EncodeExtendedLong(data, mode, ts, pid, rollover) ==
  LET seed == PidRolloverSeed(rollover, pid)
      s5 == Crc("S5", seed, TimestampMask(mode), Complement(data), ts)
  IN [data |-> data, mode |-> mode,
      actual |-> Crc("S3", seed, DataMask(mode), data, NoTs),
      complement |-> Complement(data), check |-> s5, ts |-> ts, ts_check |-> s5]

Encode(format, data, mode, ts, pid, rollover) ==
  CASE format = "Base" /\ IsShort(Len(data)) -> EncodeBaseShort(data, mode, ts, pid)
    [] format = "Base" /\ ~IsShort(Len(data)) -> EncodeBaseLong(data, mode, ts, pid)
    [] format = "Extended" /\ IsShort(Len(data)) ->
         EncodeExtendedShort(data, mode, ts, pid, rollover)
    [] OTHER -> EncodeExtendedLong(data, mode, ts, pid, rollover)

-----------------------------------------------------------------------------
(* Decoding: is the frame w valid?  The receiver computes every CRC from   *)
(* the fields that arrived and compares.                                   *)

ValidBaseShort(w, pid) ==
  /\ w.actual = Crc("S1", PidSeed(pid), DataMask(w.mode), w.data, NoTs)
  /\ w.check = Crc("S2", PidSeed(pid), ComplementDataMask(w.mode), Complement(w.data), NoTs)
  /\ w.ts_check = Crc("S1", PidSeed(pid), TimestampMask(w.mode), <<>>, w.ts)

ValidBaseLong(w, pid) ==
  /\ w.complement = Complement(w.data)
  /\ w.actual = Crc("S3", PidSeed(pid), DataMask(w.mode), w.data, NoTs)
  /\ w.check = Crc("S3", PidSeed(pid), ComplementDataMask(w.mode), w.complement, NoTs)
  /\ w.ts_check = Crc("S1", PidSeed(pid), TimestampMask(w.mode), <<>>, w.ts)

ValidExtendedShort(w, pid, rollover) ==
  LET s5 == Crc("S5", PidRolloverSeed(rollover, pid), DataMask(w.mode), w.data, w.ts)
  IN w.check = s5 /\ w.ts_check = s5

ValidExtendedLong(w, pid, rollover) ==
  LET seed == PidRolloverSeed(rollover, pid)
      s5 == Crc("S5", seed, TimestampMask(w.mode), w.complement, w.ts)
  IN /\ w.complement = Complement(w.data)
     /\ w.actual = Crc("S3", seed, DataMask(w.mode), w.data, NoTs)
     /\ w.check = s5 /\ w.ts_check = s5

Valid(format, w, pid, rollover) ==
  CASE format = "Base" /\ IsShort(Len(w.data)) -> ValidBaseShort(w, pid)
    [] format = "Base" /\ ~IsShort(Len(w.data)) -> ValidBaseLong(w, pid)
    [] format = "Extended" /\ IsShort(Len(w.data)) -> ValidExtendedShort(w, pid, rollover)
    [] OTHER -> ValidExtendedLong(w, pid, rollover)
==============================================================================
