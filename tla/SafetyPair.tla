------------------------------ MODULE SafetyPair ------------------------------
(***************************************************************************)
(* The pair of connections of one safety connection, between the           *)
(* originator (SafetyScannerConnection) and the target (SafetyDevice).  On *)
(* the server connection the originator produces and the target answers a  *)
(* change of the ping count with a time coordination message; on the       *)
(* client connection the roles swap.  A producer is idle until the first   *)
(* coordination message of its connection arrives.                         *)
(*                                                                         *)
(* Frames cross a network that loses, reorders and damages them and hands  *)
(* over frames of another connection; coordination messages may only be    *)
(* late.  The target's producer thread and its UDP thread interleave where *)
(* they share the time correction.  Wraps of the time stamp, and of the    *)
(* roll-over count with it, are in SafetyStream.                           *)
(***************************************************************************)
EXTENDS SafetyFrames, Integers, FiniteSets

CONSTANTS Lengths,           \* data lengths of a connection
          Stamps,            \* time stamps of the frames of an active producer
          Initials,          \* Initial_Rollover_Value advertised
          Word,              \* 2^16: time corrections are words
          Corrections,       \* Worst_Case_CTCV a coordination message may yield
          InstantThreshold,  \* one RPI in ticks
          MaxInFlight,       \* bound on the frames in flight
          MaxPing,           \* 3: ping counts have two bits
          DamagedBits,       \* the bits of a mode byte that damage may change
          MaxDamage          \* bound on the frames damaged or misrouted

ASSUME PairAssumption ==
  /\ Lengths \subseteq 1..2 \cup 3..250
  /\ Stamps \subseteq Nat /\ Initials \subseteq Nat
  /\ Word \in Nat \ {0} /\ Corrections \subseteq 0..(Word - 1)
  /\ InstantThreshold \in Nat \ {0} /\ MaxPing \in 0..3
  /\ MaxInFlight \in Nat \ {0} /\ MaxDamage \in Nat /\ DamagedBits \subseteq 0..7

VARIABLES
  format, length, initial,   \* what the Forward Opens agreed on
  consumer_active, run_idle, \* originator: its producer is coordinated, runs
  activating,                \* originator: its UDP thread has set the first of them
  last_target_ping,          \* originator: the target's ping count it answered
  last_ping_count,           \* target: the originator's ping count it answered
  plc_running,               \* target: the originator was seen to run
  client_active,             \* target: its producer is coordinated
  ping_count,                \* target: of its producer
  correction, goal,          \* target: the time correction applied and its goal
  correction_initialized,    \* target: the first message was skipped
  producer,                  \* target: where the producer thread is, what it read
  udp,                       \* target: where the UDP thread is, what it will write
  server_frames, client_frames,             \* frames in flight
  server_coordination, client_coordination, \* the pings answered, in flight
  damaged,                   \* frames damaged or misrouted so far
  corrupted,                 \* a frame was accepted that says what was never sent
  refused                    \* the roll-over counts put into the frames that
                             \* arrived as they were sent and were refused

agreed == <<format, length, initial>>
originatorVars == <<consumer_active, run_idle, activating, last_target_ping>>
targetVars == <<last_ping_count, plc_running, client_active, ping_count,
                correction_initialized>>
correctionVars == <<correction, goal>>
networkVars == <<server_frames, client_frames, server_coordination,
                 client_coordination, damaged>>
verdicts == <<corrupted, refused>>
\* The names that every specification has begin with Pair here: Safety_proofs extends both
\* SafetyDevice and this module.
pairVars == <<agreed, originatorVars, targetVars, correctionVars, producer, udp,
             networkVars, verdicts>>

PingUnsetZero == 0      \* mutant: no sentinel
PingUnset == 255

Asleep == [at |-> "sleep", applied |-> 0, goal |-> 0]
Ready == [at |-> "ready", value |-> 0, goal |-> 0]

PairInit ==
  /\ format \in Formats /\ length \in Lengths /\ initial \in Initials
  /\ consumer_active = FALSE /\ run_idle = FALSE /\ activating = FALSE
  /\ last_target_ping = PingUnset /\ last_ping_count = PingUnset
  /\ plc_running = FALSE /\ client_active = FALSE
  /\ ping_count = 0
  /\ correction = 0 /\ goal = 0 /\ correction_initialized = FALSE
  /\ producer = Asleep /\ udp = Ready
  /\ server_frames = {} /\ client_frames = {}
  /\ server_coordination = {} /\ client_coordination = {}
  /\ damaged = 0
  /\ corrupted = FALSE /\ refused = {}

RoomInNetwork == Cardinality(server_frames') + Cardinality(client_frames') <= MaxInFlight

\* The application's data: what matters is that damage changes it.
Data == {[i \in 1..length |-> i % 2]}

\* A frame in flight remembers what the producer meant to say.
Frame(data, run, ping, ts, pid, rollover) ==
  LET mode == ModeByte(run, ping)
  IN [wire |-> Encode(format, data, mode, ts, pid, rollover),
      sent |-> [data |-> data, mode |-> mode, ts |-> ts, rollover |-> rollover]]

Intact(m, pid) ==
  m.wire = Encode(format, m.sent.data, m.sent.mode, m.sent.ts, pid, m.sent.rollover)

SaysWhatWasSent(m) ==
  /\ m.wire.data = m.sent.data
  /\ RunOf(m.wire.mode) = RunOf(m.sent.mode)
  /\ m.wire.ts = m.sent.ts

\* Neither consumer counts from the advertised value: the target stores 0 for the
\* connection that it consumes, the originator's counter is a member that starts
\* at 0.  The target's second attempt with 0 is for a count that is not 0 any more.
ConsumerRollover == 0

\* The length is derived from the size of the datagram, on which the layout
\* of everything behind it depends.
Accepts(m, pid) ==
  /\ EstimateDataLength(WireSize(Len(m.wire.data))) = Len(m.wire.data)
  /\ Valid(format, m.wire, pid, ConsumerRollover)

\* m is received, accepted or not.
Judge(m, pid) ==
  /\ corrupted' = (corrupted \/ (Accepts(m, pid) /\ ~SaysWhatWasSent(m)))
  /\ refused' = IF ~Accepts(m, pid) /\ Intact(m, pid)
                THEN refused \cup {m.sent.rollover} ELSE refused

-----------------------------------------------------------------------------
(* The server connection: the originator produces                          *)

\* produce_server_data.  The ping count of the originator never changes.  Coordinated
\* and not yet running, the frame is idle with a time stamp that runs.
ProduceServerData(data, ts) ==
  /\ server_frames' = server_frames \cup
       {Frame(data, consumer_active /\ run_idle, 0, IF consumer_active THEN ts ELSE 0,
              "originator", initial)}
  /\ UNCHANGED client_frames
  /\ RoomInNetwork
  /\ UNCHANGED <<agreed, originatorVars, targetVars, correctionVars, producer, udp,
                 server_coordination, client_coordination, damaged, verdicts>>

\* What produce_io_data sends while the client connection is not coordinated.
IdleFrames(rollover) ==
  {Frame(data, FALSE, ping_count, 0, "target", rollover) : data \in Data}

TargetRollover == IF client_active THEN initial ELSE 0

\* handle_received_io_data, data frame.  The ping count and the run state are
\* read off the frame whether it is valid or not.
ReceiveServerData(m) ==
  /\ udp.at = "ready"
  /\ m \in server_frames
  /\ server_frames' = server_frames \ {m}
  /\ Judge(m, "originator")
  /\ last_ping_count' = PingOf(m.wire.mode)
  /\ server_coordination' = IF PingOf(m.wire.mode) # last_ping_count
                            THEN server_coordination \cup {PingOf(m.wire.mode)}
                            ELSE server_coordination
  /\ plc_running' = (plc_running \/ RunOf(m.wire.mode))
  /\ client_frames' \in IF RunOf(m.wire.mode) /\ ~plc_running /\ ~client_active
                        THEN {client_frames \cup {f} : f \in IdleFrames(TargetRollover)}
                        ELSE {client_frames}
  /\ UNCHANGED <<agreed, originatorVars, client_active, ping_count, correction_initialized,
                 correctionVars, producer, udp, client_coordination, damaged>>

\* on_server_tcoo: whatever arrives on this connection.  The producer may send
\* between the exchange of the first flag ...
ReceiveServerCoordination(ping) ==
  /\ ~activating
  /\ ping \in server_coordination
  /\ server_coordination' = server_coordination \ {ping}
  /\ consumer_active' = TRUE
  /\ activating' = ~consumer_active
  /\ UNCHANGED <<agreed, run_idle, last_target_ping, targetVars, correctionVars, producer, udp,
                 server_frames, client_frames, client_coordination, damaged, verdicts>>

\* ... and the store of the second.
TransitionToRun ==
  /\ activating
  /\ activating' = FALSE
  /\ run_idle' = TRUE
  /\ UNCHANGED <<agreed, consumer_active, last_target_ping, targetVars, correctionVars,
                 producer, udp, networkVars, verdicts>>

-----------------------------------------------------------------------------
(* The client connection: the target produces                              *)

\* int16_t of a difference of words
Signed(n) == ((n + Word \div 2) % Word) - Word \div 2

\* One step of the slew: an eighth of what remains, at least one tick.
Slewed(applied, target_goal) ==
  LET delta == Signed(target_goal - applied)
      step == IF delta \div 8 > 1 THEN delta \div 8 ELSE 1
  IN IF delta > 0 THEN (applied + step) % Word ELSE target_goal

\* produce_io_data: reads whether it is coordinated, and the correction ...
ProducerWake ==
  /\ producer.at = "sleep"
  /\ producer' = IF client_active
                 THEN [at |-> "run", applied |-> correction, goal |-> goal]
                 ELSE [Asleep EXCEPT !.at = "idle"]
  /\ UNCHANGED <<agreed, originatorVars, targetVars, correctionVars, udp, networkVars,
                 verdicts>>

\* ... writes the correction one step nearer to the goal it read, changes the
\* ping count when its interval is over, and sends.
ProduceClientData(data, ts, interval_over) ==
  /\ producer.at = "run"
  /\ correction' = IF producer.applied # producer.goal
                   THEN Slewed(producer.applied, producer.goal) ELSE correction
  /\ ping_count' = IF interval_over THEN (ping_count + 1) % (MaxPing + 1) ELSE ping_count
  /\ client_frames' = client_frames \cup
       {Frame(data, TRUE, ping_count', ts, "target", initial)}
  /\ UNCHANGED server_frames
  /\ RoomInNetwork
  /\ producer' = Asleep
  /\ UNCHANGED <<agreed, originatorVars, last_ping_count, plc_running, client_active,
                 correction_initialized, goal, udp, server_coordination,
                 client_coordination, damaged, verdicts>>

ProduceClientIdle ==
  /\ producer.at = "idle"
  /\ \E f \in IdleFrames(TargetRollover) : client_frames' = client_frames \cup {f}
  /\ UNCHANGED server_frames
  /\ RoomInNetwork
  /\ producer' = Asleep
  /\ UNCHANGED <<agreed, originatorVars, targetVars, correctionVars, udp,
                 server_coordination, client_coordination, damaged, verdicts>>

\* on_client_data, on the thread that on_server_tcoo runs on.
ReceiveClientData(m) ==
  /\ ~activating
  /\ m \in client_frames
  /\ client_frames' = client_frames \ {m}
  /\ Judge(m, "target")
  /\ last_target_ping' = PingOf(m.wire.mode)
  /\ client_coordination' = IF PingOf(m.wire.mode) # last_target_ping
                            THEN client_coordination \cup {PingOf(m.wire.mode)}
                            ELSE client_coordination
  /\ UNCHANGED <<agreed, consumer_active, run_idle, activating, targetVars, correctionVars, producer,
                 udp, server_frames, server_coordination, damaged>>

-----------------------------------------------------------------------------
(* The target's UDP thread at a coordination message                       *)

\* The value and the goal that worst_case asks for, given those it reads.
Corrected(worst_case) ==
  LET delta == Signed(worst_case - correction)
      further == IF Signed(worst_case - goal) > 0 THEN worst_case ELSE goal
  IN IF delta <= 0 THEN [value |-> correction, goal |-> goal]
     ELSE IF correction = 0 \/ delta <= InstantThreshold
          THEN [value |-> worst_case, goal |-> worst_case]
          ELSE [value |-> correction, goal |-> further]

\* Late, the message is skipped; the first one in time is, too.
ReceiveClientCoordination(ping, worst_case, late) ==
  /\ udp.at = "ready"
  /\ late => client_active
  /\ ping \in client_coordination
  /\ client_coordination' = client_coordination \ {ping}
  /\ client_active' = TRUE
  /\ correction_initialized' = (correction_initialized \/ ~late)
  /\ udp' = IF late \/ ~correction_initialized THEN udp
            ELSE [at |-> "value", value |-> Corrected(worst_case).value,
                  goal |-> Corrected(worst_case).goal]
  /\ UNCHANGED <<agreed, originatorVars, last_ping_count, plc_running, ping_count,
                 correctionVars, producer, server_frames, client_frames,
                 server_coordination, damaged, verdicts>>

WriteCorrection ==
  /\ udp.at = "value"
  /\ correction' = udp.value
  /\ udp' = [udp EXCEPT !.at = "goal"]
  /\ UNCHANGED <<agreed, originatorVars, targetVars, goal, producer, networkVars, verdicts>>

WriteGoal ==
  /\ udp.at = "goal"
  /\ goal' = udp.goal
  /\ udp' = Ready
  /\ UNCHANGED <<agreed, originatorVars, targetVars, correction, producer, networkVars,
                 verdicts>>

-----------------------------------------------------------------------------
(* The network                                                             *)

Garbled == Crc("garbled", <<>>, {}, <<>>, NoTs)

Toggle(mode, bit) == IF bit \in mode THEN mode \ {bit} ELSE mode \cup {bit}

\* One field of w changed; of a sequence, its first element.
Damages(w) ==
  {[w EXCEPT !.data[1] = 1 - @]}
  \cup {[w EXCEPT !.mode = Toggle(@, bit)] : bit \in DamagedBits}
  \cup {[w EXCEPT !.complement[i] = 1 - @] : i \in DOMAIN w.complement \cap {1}}
  \cup {[w EXCEPT !.ts = ts] : ts \in (Stamps \cup {0}) \ {w.ts}}
  \cup {[w EXCEPT !.actual = Garbled], [w EXCEPT !.check = Garbled],
        [w EXCEPT !.ts_check = Garbled]}

\* A frame of another connection, which here never said anything.
Foreign ==
  {[Frame(data, run, 0, ts, "other", initial) EXCEPT
      !.sent = [data |-> <<>>, mode |-> {}, ts |-> NoTs, rollover |-> 0]]
     : data \in Data, run \in BOOLEAN, ts \in Stamps}

InNetwork ==
  UNCHANGED <<agreed, originatorVars, targetVars, correctionVars, producer, udp,
              server_coordination, client_coordination, verdicts>>

\* What arrives while the target's UDP thread is at work waits for it.
Lose ==
  /\ udp.at = "ready"
  /\ \/ \E m \in server_frames : server_frames' = server_frames \ {m} /\ UNCHANGED client_frames
     \/ \E m \in client_frames : client_frames' = client_frames \ {m} /\ UNCHANGED server_frames
  /\ UNCHANGED damaged
  /\ InNetwork

DamagedFrames(frames) ==
  UNION {{(frames \ {m}) \cup {[m EXCEPT !.wire = w]} : w \in Damages(m.wire)} : m \in frames}

MisroutedFrames(frames) ==
  {frames \cup {f} : f \in Foreign}

Interfere ==
  /\ damaged < MaxDamage
  /\ damaged' = damaged + 1
  /\ \/ /\ server_frames' \in DamagedFrames(server_frames) \cup MisroutedFrames(server_frames)
        /\ UNCHANGED client_frames
     \/ /\ client_frames' \in DamagedFrames(client_frames) \cup MisroutedFrames(client_frames)
        /\ UNCHANGED server_frames
  /\ RoomInNetwork
  /\ InNetwork

-----------------------------------------------------------------------------

\* What each thread does between two of its waits.
OriginatorProducer == \E data \in Data, ts \in Stamps : ProduceServerData(data, ts)
OriginatorAnswers ==
  TransitionToRun \/ \E ping \in server_coordination : ReceiveServerCoordination(ping)
TargetProducer ==
  \/ ProducerWake \/ ProduceClientIdle
  \/ \E data \in Data, ts \in Stamps, over \in BOOLEAN : ProduceClientData(data, ts, over)
TargetAnswers ==
  \/ \E ping \in client_coordination, c \in Corrections, late \in BOOLEAN :
       ReceiveClientCoordination(ping, c, late)
  \/ WriteCorrection \/ WriteGoal

PairNext ==
  \/ OriginatorProducer \/ OriginatorAnswers \/ TargetProducer \/ TargetAnswers
  \/ \E m \in server_frames : ReceiveServerData(m)
  \/ \E m \in client_frames : ReceiveClientData(m)
  \/ Lose \/ Interfere

\* The threads run, and a producer sends on its period whatever the bound on
\* the network lets in before it; a frame sent again and again arrives some time,
\* and a coordination message, sent once, arrives.
Fairness ==
  /\ SF_pairVars(OriginatorProducer) /\ SF_pairVars(TargetProducer)
  /\ SF_pairVars(\E m \in server_frames : ReceiveServerData(m))
  /\ SF_pairVars(\E m \in client_frames : ReceiveClientData(m))
  /\ WF_pairVars(OriginatorAnswers) /\ WF_pairVars(TargetAnswers)

PairSpec == PairInit /\ [][PairNext]_pairVars /\ Fairness

-----------------------------------------------------------------------------
(* Properties                                                              *)

PairTypeOK ==
  /\ format \in Formats /\ length \in Lengths /\ initial \in Initials
  /\ consumer_active \in BOOLEAN /\ run_idle \in BOOLEAN /\ activating \in BOOLEAN
  /\ last_target_ping \in 0..3 \cup {PingUnset} /\ last_ping_count \in 0..3 \cup {PingUnset}
  /\ plc_running \in BOOLEAN /\ client_active \in BOOLEAN /\ ping_count \in 0..3
  /\ correction \in 0..(Word - 1) /\ goal \in 0..(Word - 1)
  /\ correction_initialized \in BOOLEAN
  /\ producer.at \in {"sleep", "idle", "run"} /\ udp.at \in {"ready", "value", "goal"}
  /\ server_coordination \subseteq 0..3 /\ client_coordination \subseteq 0..3
  /\ damaged \in 0..MaxDamage
  /\ corrupted \in BOOLEAN /\ refused \subseteq Initials \cup {0}

\* Neither end takes data, a run state or a time stamp its peer did not send
\* together on this connection, whichever field was damaged on the way and
\* whatever strays in from other connections: in every format, every part of a
\* frame that is acted on is under a CRC that knows the connection.
OnlyGenuine == ~corrupted

\* A frame that arrives as it was sent is refused for one reason only: its producer
\* put a roll-over count other than 0 into it, in the Extended Format.  Otherwise it
\* is accepted, in every format and length, idle, between idle and running, running.
GenuineAccepted == 0 \notin refused /\ (format = "Base" => refused = {})

\* Both producers end up running although each end answers only a change of the
\* ping count, however many frames are lost or damaged: the idle frames keep
\* asking until the first one that arrives is answered.
HandshakeCompletes == <>[](run_idle /\ client_active)
-----------------------------------------------------------------------------
(* What the sources say and the code does not do                           *)

\* The time correction never goes backward.
CorrectionForward == [][Signed(correction' - correction) >= 0]_pairVars
==============================================================================
