----------------------------- MODULE SafetyStream -----------------------------
(***************************************************************************)
(* The time stamps of one CIP Safety connection in Extended Format.  A     *)
(* frame carries the low word of the producer's time; the high word, the   *)
(* roll-over count, is not sent but is part of the CRC seed, so the two    *)
(* ends must count the wraps alike.  In the "server" direction the         *)
(* originator (SafetyScannerConnection) produces and the target            *)
(* (SafetyDevice) consumes; in the "client" direction the roles swap.      *)
(*                                                                         *)
(* Until the first time coordination message the producer is idle and      *)
(* stamps its frames 0.  A frame is delayed or lost in the network; it is  *)
(* not reordered.  The CRC is valid exactly when the roll-over counts are  *)
(* equal; data, ping counts and the other seeds are left out.  In the Base *)
(* Format the roll-over count is not used.                                 *)
(***************************************************************************)
EXTENDS Integers, Sequences

CONSTANTS Word,          \* 2^16: time stamps and roll-over counts are words
          Directions,    \* the directions to consider
          Initials,      \* Initial_TS and Initial_Rollover_Value advertised
          SendTicks,     \* ticks the originator adds per frame: 50000 \div 128
          MaxElapse,     \* ticks that pass between two frames of the target
          MaxCorrection, \* bound on the consumer time correction value
          BootTicks,     \* what the target's clock may show, counted from 0
          MaxTicks,      \* bound on the target's time in a behaviour
          MaxInFlight,   \* bound on the frames in the network
          MaxLost        \* bound on the frames lost in a row

Words == 0..(Word - 1)
Quarter == Word \div 4   \* 0x4000

\* The ticks from one frame to the next, at most.
Pace ==
  IF SendTicks > MaxElapse + MaxCorrection /\ SendTicks > 0 THEN SendTicks
  ELSE IF MaxElapse + MaxCorrection > 0 THEN MaxElapse + MaxCorrection ELSE 1

ASSUME StreamAssumption ==
  /\ Word \in Nat /\ Word > 4
  /\ Directions \subseteq {"server", "client"}
  /\ Initials \subseteq [ts : Words, roll : Words]
  /\ SendTicks \in Words /\ MaxElapse \in Nat /\ MaxCorrection \in Nat
  /\ BootTicks \subseteq Nat
  /\ MaxTicks \in Nat /\ MaxInFlight \in Nat /\ MaxLost \in Nat

VARIABLES
  direction,        \* who produces
  initial,          \* what the safety segment advertised
  consumer_active,  \* the producer has seen a time coordination message
  rollover_count,   \* producer_rollover_count_ / safety_rollover_count
  timestamp,        \* the originator's timestamp_
  last_sent_ticks,  \* the target's safety_last_sent_ticks
  start,            \* safety_production_start_ticks is set
  elapsed,          \* true ticks since then
  tcoo,             \* where the producing end is in the first coordination message
  producer,         \* where the target's production thread is
  network,          \* frames in flight
  lost,             \* frames lost since the last delivery
  last_ts,          \* consumer: the previous time stamp
  tracked,          \* consumer: its count of the producer's roll-overs
  initialized,      \* consumer: a frame was received before
  heard,            \* the frame received last
  crc_valid,        \* of the last frame received
  missed_start      \* a frame was stamped before the start was set

producerVars == <<consumer_active, rollover_count, timestamp, last_sent_ticks,
                  start, elapsed, tcoo, producer, missed_start>>
consumerVars == <<last_ts, tracked, initialized, heard, crc_valid>>
vars == <<direction, initial, producerVars, network, lost, consumerVars>>

\* The originator starts from what it advertises, the target from zero until
\* it is active; both consumers start counting from zero.
Init ==
  /\ direction \in Directions
  /\ initial \in Initials
  /\ consumer_active = FALSE
  /\ rollover_count = IF direction = "server" THEN initial.roll ELSE 0
  /\ timestamp = initial.ts
  /\ last_sent_ticks = 0
  /\ start = FALSE
  /\ elapsed = 0
  /\ tcoo = "none"
  /\ producer = "sleep"
  /\ network = <<>>
  /\ lost = 0
  /\ last_ts = 0
  /\ tracked = 0
  /\ initialized = FALSE
  /\ heard = [ts |-> 0, roll |-> 0, run |-> FALSE]
  /\ crc_valid = TRUE
  /\ missed_start = FALSE

Send(ts, roll, run) == network' = Append(network, [ts |-> ts, roll |-> roll, run |-> run])

CanSend == Len(network) < MaxInFlight

-----------------------------------------------------------------------------
(* The originator produces: produce_server_data, on_server_tcoo            *)

\* consumer_active_ is set before run_idle_.
OriginatorActivate ==
  /\ direction = "server"
  /\ \/ tcoo = "none" /\ tcoo' = "run" /\ consumer_active' = TRUE
     \/ tcoo = "run" /\ tcoo' = "done" /\ UNCHANGED consumer_active
  /\ UNCHANGED <<direction, initial, rollover_count, timestamp, last_sent_ticks, start,
                 elapsed, producer, missed_start, network, lost, consumerVars>>

Advanced == (timestamp + SendTicks) % Word

\* The frame carries the counters as they were before they are advanced.
OriginatorProduce ==
  /\ direction = "server" /\ CanSend
  /\ Send(IF consumer_active THEN timestamp ELSE 0, rollover_count, tcoo = "done")
  /\ IF consumer_active
     THEN /\ timestamp' = Advanced
          /\ rollover_count' = IF Advanced < timestamp THEN (rollover_count + 1) % Word
                               ELSE rollover_count
     ELSE UNCHANGED <<timestamp, rollover_count>>
  /\ UNCHANGED <<direction, initial, consumer_active, last_sent_ticks, start, elapsed,
                 tcoo, producer, missed_start, lost, consumerVars>>

-----------------------------------------------------------------------------
(* The target produces: handle_received_io_data (first coordination        *)
(* message), produce_io_data                                               *)

TargetUnchanged ==
  UNCHANGED <<direction, initial, timestamp, network, lost, consumerVars>>

\* On the UDP thread, while the production thread runs: the flag first.
TargetActivate ==
  /\ direction = "client" /\ tcoo = "none"
  /\ consumer_active' = TRUE
  /\ tcoo' = "rollover"
  /\ UNCHANGED <<rollover_count, last_sent_ticks, start, elapsed, producer, missed_start>>
  /\ TargetUnchanged

TargetRollover ==
  /\ tcoo = "rollover"
  /\ rollover_count' = initial.roll
  /\ tcoo' = "start"
  /\ UNCHANGED <<consumer_active, last_sent_ticks, start, elapsed, producer, missed_start>>
  /\ TargetUnchanged

TargetStart ==
  /\ tcoo = "start"
  /\ start' = TRUE
  /\ tcoo' = "done"
  /\ UNCHANGED <<consumer_active, rollover_count, last_sent_ticks, elapsed, producer,
                 missed_start>>
  /\ TargetUnchanged

\* The frame is idle or not according to one read of the flag.
TargetWake ==
  /\ direction = "client" /\ producer = "sleep"
  /\ producer' = IF consumer_active THEN "run" ELSE "idle"
  /\ UNCHANGED <<consumer_active, rollover_count, last_sent_ticks, start, elapsed, tcoo,
                 missed_start>>
  /\ TargetUnchanged

TargetProduceIdle ==
  /\ producer = "idle" /\ CanSend
  /\ Send(0, rollover_count, FALSE)
  /\ producer' = "sleep"
  /\ UNCHANGED <<direction, initial, consumer_active, rollover_count, timestamp,
                 last_sent_ticks, start, elapsed, tcoo, missed_start, lost, consumerVars>>

AnyTime(ticks) == ticks      \* mutant: no forward-only guard

\* Never before the frame sent last.
ForwardOnly(ticks) ==
  IF last_sent_ticks # 0 /\ ticks < last_sent_ticks THEN last_sent_ticks + 1 ELSE ticks

\* The correction is what coordination messages make of it, also when one is
\* applied between two reads of it.  Without the start, the time since boot
\* counts as elapsed.
TargetProduce(e, correction) ==
  /\ producer = "run" /\ CanSend
  /\ elapsed' = IF start THEN elapsed + e ELSE elapsed
  /\ \E raw \in IF start THEN {elapsed'} ELSE BootTicks :
       last_sent_ticks' = ForwardOnly(initial.ts + raw + correction)
  /\ last_sent_ticks' <= MaxTicks
  /\ rollover_count' = (initial.roll + last_sent_ticks' \div Word) % Word
  /\ Send(last_sent_ticks' % Word, rollover_count', TRUE)
  /\ missed_start' = (missed_start \/ ~start)
  /\ producer' = "sleep"
  /\ UNCHANGED <<direction, initial, consumer_active, timestamp, start, tcoo, lost,
                 consumerVars>>

-----------------------------------------------------------------------------
(* The network, and the consumer at either end                             *)

Lose ==
  /\ network # <<>> /\ lost < MaxLost
  /\ network' = Tail(network)
  /\ lost' = lost + 1
  /\ UNCHANGED <<direction, initial, producerVars, consumerVars>>

WrapSeenHalf(ts) == ts - last_ts < -(2 * Quarter)   \* mutant: half a wrap as the threshold
WrapSeen(ts) == ts - last_ts < -Quarter

\* The frame decodes with the tracked count; the target also tries count 0 for
\* an idle frame.
Decodes(frame, count) ==
  \/ frame.roll = count
  \/ direction = "server" /\ ~frame.run /\ frame.roll = 0

Receive ==
  /\ network # <<>>
  /\ LET frame == Head(network)
         count == IF initialized /\ WrapSeen(frame.ts) THEN (tracked + 1) % Word ELSE tracked
     IN /\ tracked' = count
        /\ last_ts' = frame.ts
        /\ heard' = frame
        /\ crc_valid' = Decodes(frame, count)
  /\ initialized' = TRUE
  /\ network' = Tail(network)
  /\ lost' = 0
  /\ UNCHANGED <<direction, initial, producerVars>>

Next ==
  \/ OriginatorActivate \/ OriginatorProduce
  \/ TargetActivate \/ TargetRollover \/ TargetStart
  \/ TargetWake \/ TargetProduceIdle
  \/ \E e \in 0..MaxElapse, k \in 0..MaxCorrection : TargetProduce(e, k)
  \/ Lose \/ Receive

Spec == Init /\ [][Next]_vars

-----------------------------------------------------------------------------
(* Properties                                                              *)

Frames == [ts : Words, roll : Words, run : BOOLEAN]

TypeOK ==
  /\ direction \in Directions /\ initial \in Initials
  /\ consumer_active \in BOOLEAN /\ start \in BOOLEAN /\ missed_start \in BOOLEAN
  /\ rollover_count \in Words /\ timestamp \in Words
  /\ last_sent_ticks \in 0..MaxTicks /\ elapsed \in Nat
  /\ tcoo \in {"none", "run", "rollover", "start", "done"}
  /\ producer \in {"sleep", "run", "idle"}
  /\ network \in Seq(Frames) /\ lost \in 0..MaxLost
  /\ last_ts \in Words /\ tracked \in Words
  /\ initialized \in BOOLEAN /\ crc_valid \in BOOLEAN
  /\ heard \in Frames

\* Whatever the initial values: once a run frame has arrived, the consumer counts a
\* wrap exactly when the producer has, across wraps of the time stamp and of the count
\* itself, lost frames, and corrections of the target's time in either direction.  So a
\* connection decodes all of its run frames or none, by how the first one found the
\* count.  A target that stamps a frame before its start is set is the exception.
WrapsCountedAlike ==
  [][heard.run /\ ~missed_start' =>
       \/ tracked' = tracked /\ heard'.roll = heard.roll
       \/ tracked' = (tracked + 1) % Word /\ heard'.roll = (heard.roll + 1) % Word]_vars

\* The initial values of which both consumers' count of zero is right: roll-over count
\* zero, and the first run frame to arrive comes from before a wrap.
FromZero == initial.roll = 0 /\ initial.ts + (MaxLost + 1) * Pace < Word

\* A connection that starts from such values decodes every frame, across the switch
\* from idle to run as well.
RolloverAgrees == FromZero /\ ~missed_start => crc_valid

-----------------------------------------------------------------------------
(* What the sources say and the code does not do                           *)

\* Both ends agree from frame 1, whatever initial values were advertised.
AgreeFromFrameOne == direction = "server" /\ heard.run => crc_valid

\* Nothing writes production_start_ticks while it may be read: a frame is
\* never stamped before it is set.
StartSetBeforeUse == ~missed_start
==============================================================================
