------------------------------ MODULE MicPipe ------------------------------
(***************************************************************************)
(* The microphone of the remote control: the audio FIFO hardware writes    *)
(* samples round and round into buffer_mic; the main loop encodes one half *)
(* while the hardware is in the other, keeps the packets in a ring and     *)
(* hands them to the stack (proc_mic_encoder of application/audio/         *)
(* tl_audio.c in the mode TL_AUDIO_RCU_ADPCM_GATT_TELINK, task_audio and   *)
(* ui_enable_mic of vendor/ble_remote/app_audio.c; nothing calls           *)
(* audio_proc_delay, so there is no delay).  A half is a few chunks of     *)
(* samples; a chunk is known by the pass of the hardware over the buffer   *)
(* that recorded it.                                                       *)
(***************************************************************************)
EXTENDS Integers, Sequences

CONSTANTS
  Half,                      \* chunks in half of the buffer
  TL_MIC_PACKET_BUFFER_NUM,  \* packets in the ring, a power of two
  MaxPass                    \* bound: passes over the buffer

ASSUME HalfAssumption == Half \in Nat \ {0}
(* With one packet the test for an overrun, pkts > 1, could never succeed, *)
(* the pointers being compared modulo 2.                                   *)
ASSUME RingAssumption == TL_MIC_PACKET_BUFFER_NUM \in Nat \ {0, 1}
ASSUME PassAssumption == MaxPass \in Nat

N == TL_MIC_PACKET_BUFFER_NUM

VARIABLES
  ui_mic_enable,
  mic_wptr,              \* where the hardware writes next
  buffer_mic,            \* the pass that recorded each chunk
  pass,                  \* the pass the hardware is in
  first,                 \* history: the first pass since the mic was enabled
  buffer_mic_rptr,       \* the half to encode next
  pc,                    \* main loop: "idle", "encode" or "notify"
  chunks,                \* the chunks encoded so far
  caughtUp,              \* the encoder moved since the hardware last did
  buffer_mic_enc, buffer_mic_pkt_wptr, buffer_mic_pkt_rptr,
                         \* the pointers are used modulo 2 * N and modulo N only
  taken                  \* history: the packet the stack took last

ring == <<buffer_mic_enc, buffer_mic_pkt_wptr, buffer_mic_pkt_rptr>>
mic  == <<ui_mic_enable, mic_wptr, buffer_mic, pass, first>>
vars == <<mic, buffer_mic_rptr, pc, chunks, caughtUp, ring, taken>>

Packet   == [half : {0, Half}, chunks : Seq(0..MaxPass)]
NoPacket == [half |-> 0, chunks |-> <<>>]

Ring == [i \in 1..(buffer_mic_pkt_wptr - buffer_mic_pkt_rptr) % (2 * N) |->
           buffer_mic_enc[(buffer_mic_pkt_rptr + i - 1) % N]]

-----------------------------------------------------------------------------
Init ==
  /\ ui_mic_enable = FALSE
  /\ mic_wptr = 0 /\ buffer_mic = [i \in 0..2 * Half - 1 |-> 0]
  /\ pass = 0 /\ first = 0
  /\ buffer_mic_rptr = 0 /\ pc = "idle" /\ chunks = <<>> /\ caughtUp = TRUE
  /\ buffer_mic_enc = [i \in 0..N - 1 |-> NoPacket]
  /\ buffer_mic_pkt_wptr = 0 /\ buffer_mic_pkt_rptr = 0 /\ taken = NoPacket

(* The hardware fills a chunk.  A chunk is encoded faster than it is       *)
(* recorded, so the encoder moves in between.                              *)
Record ==
  /\ ui_mic_enable
  /\ pc = "encode" => caughtUp
  /\ buffer_mic' = [buffer_mic EXCEPT ![mic_wptr] = pass]
  /\ mic_wptr' = (mic_wptr + 1) % (2 * Half)
  /\ pass' = IF mic_wptr' = 0 THEN pass + 1 ELSE pass
  /\ pass' <= MaxPass
  /\ caughtUp' = FALSE
  /\ UNCHANGED <<ui_mic_enable, first, buffer_mic_rptr, pc, chunks, ring, taken>>

(* ui_enable_mic: the hardware starts at the front and the ring is         *)
(* emptied; buffer_mic_rptr, local to the encoder, stays.                  *)
ui_enable_mic(en) ==
  /\ pc = "idle"
  /\ pass < MaxPass
  /\ en # ui_mic_enable
  /\ ui_mic_enable' = en
  /\ mic_wptr' = IF en THEN 0 ELSE mic_wptr
  /\ pass' = IF en THEN pass + 1 ELSE pass
  /\ first' = pass'
  /\ buffer_mic_pkt_wptr' = 0 /\ buffer_mic_pkt_rptr' = 0
  /\ UNCHANGED <<buffer_mic, buffer_mic_rptr, pc, chunks, caughtUp, buffer_mic_enc, taken>>

(* Variant with a fault: any recorded chunk will do *)
HalfReadyEarly ==
  IF mic_wptr >= buffer_mic_rptr THEN mic_wptr - buffer_mic_rptr > 0 ELSE TRUE

(* l >= TL_MIC_BUFFER_SIZE >> 2: the hardware is in the other half *)
HalfReady ==
  IF mic_wptr >= buffer_mic_rptr THEN mic_wptr - buffer_mic_rptr >= Half ELSE TRUE

(* task_audio and proc_mic_encoder begin *)
TaskAudio ==
  /\ pc = "idle"
  /\ ui_mic_enable
  /\ pc' = IF HalfReady THEN "encode" ELSE "notify"
  /\ chunks' = <<>>
  /\ caughtUp' = TRUE
  /\ UNCHANGED <<mic, buffer_mic_rptr, ring, taken>>

(* mic_to_adpcm_split encodes the next chunk *)
EncodeChunk ==
  /\ pc = "encode"
  /\ Len(chunks) < Half
  /\ chunks' = Append(chunks, buffer_mic[buffer_mic_rptr + Len(chunks)])
  /\ caughtUp' = TRUE
  /\ UNCHANGED <<mic, buffer_mic_rptr, pc, ring, taken>>

(* Variant with a fault: a full ring is taken for an overrun one *)
RptrAfterEarly(w) ==
  IF (w - buffer_mic_pkt_rptr) % (2 * N) >= N
  THEN (buffer_mic_pkt_rptr + 1) % (2 * N) ELSE buffer_mic_pkt_rptr

(* The read pointer after the write pointer moved to w *)
RptrAfter(w) ==
  IF (w - buffer_mic_pkt_rptr) % (2 * N) > N
  THEN (buffer_mic_pkt_rptr + 1) % (2 * N) ELSE buffer_mic_pkt_rptr

(* Variant with a fault: the half stays the same *)
OtherHalfSame == buffer_mic_rptr

OtherHalf == IF buffer_mic_rptr # 0 THEN 0 ELSE Half

(* The packet is complete *)
EncodeDone ==
  /\ pc = "encode"
  /\ Len(chunks) = Half
  /\ buffer_mic_enc' = [buffer_mic_enc EXCEPT ![buffer_mic_pkt_wptr % N] =
                          [half |-> buffer_mic_rptr, chunks |-> chunks]]
  /\ buffer_mic_rptr' = OtherHalf
  /\ buffer_mic_pkt_wptr' = (buffer_mic_pkt_wptr + 1) % (2 * N)
  /\ buffer_mic_pkt_rptr' = RptrAfter(buffer_mic_pkt_wptr')
  /\ pc' = "notify"
  /\ chunks' = <<>>
  /\ UNCHANGED <<mic, caughtUp, taken>>

(* The rest of task_audio: the oldest packet goes to the stack, if there   *)
(* is a connection with room for it and the stack takes it                 *)
(* (mic_encoder_data_buffer, mic_encoder_data_read_ok).                    *)
Notify(accepted) ==
  /\ pc = "notify"
  /\ pc' = "idle"
  /\ IF accepted /\ buffer_mic_pkt_rptr # buffer_mic_pkt_wptr
     THEN /\ taken' = buffer_mic_enc[buffer_mic_pkt_rptr % N]
          /\ buffer_mic_pkt_rptr' = (buffer_mic_pkt_rptr + 1) % (2 * N)
     ELSE UNCHANGED <<taken, buffer_mic_pkt_rptr>>
  /\ UNCHANGED <<mic, buffer_mic_rptr, chunks, caughtUp, buffer_mic_enc, buffer_mic_pkt_wptr>>

Next ==
  \/ Record
  \/ \E en \in BOOLEAN : ui_enable_mic(en)
  \/ TaskAudio \/ EncodeChunk \/ EncodeDone
  \/ \E accepted \in BOOLEAN : Notify(accepted)

Spec == Init /\ [][Next]_vars

-----------------------------------------------------------------------------
Encoding == [half : {0, Half}, chunks : [1..Half -> 0..MaxPass]]

Fifo == INSTANCE LossyFifo WITH Cap <- N, MayClear <- TRUE, Value <- Encoding,
                                Nothing <- NoPacket, q <- Ring

(* The shapes of the state. *)
TypeOK ==
  /\ ui_mic_enable \in BOOLEAN /\ caughtUp \in BOOLEAN
  /\ mic_wptr \in 0..2 * Half - 1 /\ buffer_mic \in [0..2 * Half - 1 -> 0..MaxPass]
  /\ pass \in 0..MaxPass /\ first \in 0..MaxPass
  /\ buffer_mic_rptr \in {0, Half}
  /\ pc \in {"idle", "encode", "notify"}
  /\ chunks \in Seq(0..MaxPass) /\ Len(chunks) <= Half
  /\ buffer_mic_enc \in [0..N - 1 -> Packet] /\ taken \in Packet
  /\ buffer_mic_pkt_wptr \in 0..2 * N - 1 /\ buffer_mic_pkt_rptr \in 0..2 * N - 1

(* No packet is put together from two passes: however late the main loop   *)
(* comes, the half that proc_mic_encoder picks is complete and the         *)
(* hardware does not get into it before the encoder has left.  The one     *)
(* exception is a packet of the second half that is encoded right after    *)
(* the microphone was enabled, from what an earlier session left there.    *)
(* The state keeps its shape: the encoder reads inside buffer_mic.         *)
WholeHalf ==
  /\ TypeOK
  /\ \A i \in 1..Len(Ring) :
       LET c == Ring[i].chunks
       IN \/ \A k \in 1..Half : c[k] >= first /\ c[k] = c[1]
          \/ Ring[i].half = Half /\ \A k \in 1..Half : c[k] < first

(* Packets leave in the order of their recording and none twice: a packet  *)
(* behind another one holds a later half of the sound, even where the main *)
(* loop missed halves.                                                     *)
InOrder ==
  \A i \in 1..Len(Ring) - 1 :
    LET p == Ring[i] r == Ring[i + 1] IN
      p.chunks[1] < r.chunks[1] \/ (p.chunks[1] = r.chunks[1] /\ p.half < r.half)

(* The packet buffer is a FIFO that drops its oldest packet when it is     *)
(* full, and is emptied when the microphone is switched.                   *)
PacketFifo == Fifo!Spec
=============================================================================
