------------------------------ MODULE EcmChunks ------------------------------
(***************************************************************************)
(* Chunk framing shared by both CDC-ECM drivers: a frame crosses a bulk     *)
(* endpoint as chunks of at most MaxPacket bytes, the first short chunk     *)
(* ending it, and the OUT endpoint writes each chunk into the driver's      *)
(* reassembly buffer at the offset it was armed with.                       *)
(*                                                                         *)
(* Data is abstracted to chunk identities: the payload of the k-th chunk   *)
(* of frame i is the pair <<i, k>>, so a frame is whole exactly when its   *)
(* data is <<i,0>>, <<i,1>>, ... and its length is the length sent.  The   *)
(* reassembly buffer is the set of extents [off, len, datum] the endpoint   *)
(* last wrote.                                                             *)
(***************************************************************************)
EXTENDS Integers, Sequences

CONSTANT MaxPacket   \* ECM_DATA_OUT_SZ / ECM_MAX_USB_DATA_PACKET_SIZE (64)

ASSUME MaxPacket \in Nat \ {0}

\* Contents of buffer bytes no chunk has written since start-up.
Garbage == <<0, 0>>

\* Bytes carried by a chunk of n bytes: at most one MaxPacket-sized datum.
Chunk(rem) == IF rem < MaxPacket THEN rem ELSE MaxPacket
NumChunks(len) == (len + MaxPacket - 1) \div MaxPacket

\* The data of a whole frame: its chunks in order.
FrameData(id, len) == [k \in 1..NumChunks(len) |-> <<id, k - 1>>]

\* ecm_rx_buffer after the OUT endpoint writes n bytes of datum d at offset o.
Write(buf, o, n, d) ==
  {e \in buf : e.off + e.len <= o \/ o + n <= e.off}
    \cup (IF n > 0 THEN {[off |-> o, len |-> n, datum |-> d]} ELSE {})

\* What memcpy() copies out of ecm_rx_buffer for a frame of len bytes: the
\* datum of chunk k if that chunk's bytes were written there, else garbage.
Read(buf, len) ==
  [k \in 1..NumChunks(len) |->
     LET o    == (k - 1) * MaxPacket
         need == Chunk(len - o)
         ext  == {e \in buf : e.off = o /\ e.len >= need}
     IN  IF ext = {} THEN Garbage ELSE (CHOOSE e \in ext : TRUE).datum]

IsFrameOf(f, lens) ==
  \E id \in 1..Len(lens) : f.len = lens[id] /\ f.data = FrameData(id, f.len)

=============================================================================
