---------------------------- MODULE DreoReceiver ----------------------------
(***************************************************************************)
(* The receive buffer of the hub (rx_message_, src/components/dreo): how   *)
(* it finds the frames of the MCU, which are 55 AA, a header with the      *)
(* length of the body, the body and a checksum, in bytes of which some are *)
(* lost or corrupted.                                                      *)
(*                                                                         *)
(* The handler of a frame is external here; what happens when it sends     *)
(* while the buffer is stale is in DreoHub.                                *)
(***************************************************************************)
EXTENDS Integers, SequencesExt

CONSTANTS
    MAX_FRAME_BODY_BYTES,
    Bodies,      \* bodies of the frames of the MCU
    Noise,       \* bytes a corrupted byte may become
    MaxFrames,   \* the MCU begins so many frames
    MaxFaults    \* so many bytes are lost or corrupted, or frames abandoned

ASSUME ReceiverAssumption ==
    /\ {MAX_FRAME_BODY_BYTES, MaxFrames, MaxFaults} \subseteq Nat
    /\ Noise \subseteq 0..255
    /\ \A body \in Bodies : body \in Seq(0..255) /\ Len(body) <= MAX_FRAME_BODY_BYTES

VARIABLES
    rx_message,  \* the receive buffer
    handled,     \* the frames given to handle_command_
    sending,     \* what the MCU has yet to send of a frame
    frame,       \* that frame
    intact,      \* has all of it arrived as it was sent, so far?
    clean,       \* was the buffer empty when it began?
    begun,       \* frames begun
    faults,      \* faults so far
    sent         \* history: the frames sent, and which arrived as they were sent

mcu == <<sending, frame, intact, clean, begun>>
vars == <<rx_message, handled, mcu, faults, sent>>

Checksum(bytes) == FoldLeft(LAMBDA sum, byte : (sum + byte) % 256, 0, bytes)

\* What the MCU sends.
Frame(body) ==
    LET bytes == <<85, 170, 2, 35, 7, 0, 0, Len(body)>> \o body
    IN  Append(bytes, Checksum(bytes))

----------------------------------------------------------------------------
(* The parser *)

SizeOf(bytes, i) == 8 + 256 * bytes[i + 6] + bytes[i + 7] + 1

\* Is there a candidate at i that has to wait for more bytes?
Waits(bytes, i) ==
    /\ bytes[i] = 85
    /\ i < Len(bytes) => bytes[i + 1] = 170
    /\ i + 7 <= Len(bytes) =>
         /\ SizeOf(bytes, i) <= MAX_FRAME_BODY_BYTES + 9
         /\ i + SizeOf(bytes, i) - 1 > Len(bytes)

\* Is there a frame at i?
Complete(bytes, i) ==
    /\ bytes[i] = 85
    /\ i + 7 <= Len(bytes)
    /\ bytes[i + 1] = 170
    /\ SizeOf(bytes, i) <= MAX_FRAME_BODY_BYTES + 9
    /\ LET last == i + SizeOf(bytes, i) - 1
       IN  last <= Len(bytes) /\ bytes[last] = Checksum(SubSeq(bytes, i, last - 1))

\* process_rx_buffer_: what becomes of the bytes from i on. A candidate that fails is
\* rejected by its first byte.
Parsed(rest, frames) == [rest |-> rest, frames |-> frames]

process_rx_buffer(bytes) ==
    LET from[i \in 1..Len(bytes) + 1] ==
          CASE i > Len(bytes)     -> Parsed(<<>>, <<>>)
            [] i <= Len(bytes) /\ Waits(bytes, i) -> Parsed(SubSeq(bytes, i, Len(bytes)), <<>>)
            [] i <= Len(bytes) /\ Complete(bytes, i) ->
                 LET next == i + SizeOf(bytes, i)
                 IN  Parsed(from[next].rest, <<SubSeq(bytes, i, next - 1)>> \o from[next].frames)
            [] OTHER -> from[i + 1]
    IN  from[1]

Take(bytes) ==
    /\ rx_message' = process_rx_buffer(bytes).rest
    /\ handled' = handled \o process_rx_buffer(bytes).frames

----------------------------------------------------------------------------
(* Steps *)

Init ==
    /\ rx_message = <<>> /\ handled = <<>>
    /\ sending = <<>> /\ frame = <<>> /\ intact = FALSE /\ clean = FALSE
    /\ begun = 0 /\ faults = 0 /\ sent = <<>>

\* handle_char_
HandleChar(c) == Take(Append(rx_message, c))

\* MUTANT: the whole buffer is thrown away.
MutReject(bytes) == <<>>

\* MUTANT: the candidate is not rejected.
MutKeep(bytes) == bytes

\* reject_rx_candidate_
Reject(bytes) == Tail(bytes)

\* No byte has come for RECEIVE_TIMEOUT (process_command_queue_): the MCU sends none for
\* so long only between two frames, or when it abandons one.
Silence ==
    /\ sending = <<>>
    /\ rx_message # <<>>
    /\ Take(Reject(rx_message))
    /\ UNCHANGED <<mcu, faults, sent>>

\* The MCU
Begin(body) ==
    /\ sending = <<>> /\ begun < MaxFrames
    /\ sending' = Frame(body) /\ frame' = Frame(body)
    /\ intact' = TRUE /\ clean' = (rx_message = <<>>)
    /\ begun' = begun + 1
    /\ UNCHANGED <<rx_message, handled, faults, sent>>

Sent(whole) ==
    /\ sending' = Tail(sending)
    /\ intact' = whole
    /\ sent' = IF Len(sending) = 1 THEN Append(sent, [frame |-> frame, whole |-> whole]) ELSE sent
    /\ UNCHANGED <<frame, clean, begun>>

Arrives ==
    /\ sending # <<>>
    /\ HandleChar(Head(sending))
    /\ Sent(intact)
    /\ UNCHANGED faults

\* A frame suffers one fault at most: the sum of its bytes would not tell two that
\* compensate each other.
Faulty ==
    /\ intact /\ faults < MaxFaults
    /\ faults' = faults + 1

IsLost ==
    /\ sending # <<>> /\ Faulty
    /\ Sent(FALSE)
    /\ UNCHANGED <<rx_message, handled>>

IsCorrupted ==
    /\ sending # <<>> /\ Faulty
    /\ \E byte \in Noise \ {Head(sending)} : HandleChar(byte)
    /\ Sent(FALSE)

Abandons ==
    /\ sending # <<>> /\ Faulty
    /\ sending' = <<>> /\ intact' = FALSE
    /\ UNCHANGED <<rx_message, handled, frame, clean, begun, sent>>

Next ==
    \/ Silence
    \/ \E body \in Bodies : Begin(body)
    \/ Arrives
    \/ IsLost
    \/ IsCorrupted
    \/ Abandons

\* Bytes that are sent arrive, and when the MCU is silent the loop notices.
Spec == Init /\ [][Next]_vars /\ WF_vars(Arrives) /\ WF_vars(Silence)

----------------------------------------------------------------------------
(* Properties *)

\* "A report the MCU abandons and retransmits is recovered ... Nothing from a rejected
\* candidate is published" (README.md:57-62): when the buffer has run empty, the frames
\* that arrived as they were sent have been handled, in order, and nothing else but
\* a frame the MCU sent too, whose lost byte that of an abandoned frame has replaced.
\* A frame that comes when the buffer is empty is handled with its last byte.
FramesRecovered ==
    /\ rx_message = <<>> /\ sending = <<>> =>
         \E arrived \in SUBSET DOMAIN sent :
            /\ {i \in DOMAIN sent : sent[i].whole} \subseteq arrived
            /\ handled = [i \in 1..Cardinality(arrived) |-> sent[SetToSortSeq(arrived, <)[i]].frame]
    /\ clean /\ intact /\ sending = <<>> => rx_message = <<>>

\* What does not become a frame, a header that announces more than comes included,
\* does not stay in the buffer, where it would keep commands from being sent: if the
\* MCU is silent the buffer runs empty.
BufferDrains == <>[](rx_message = <<>>)
=============================================================================
