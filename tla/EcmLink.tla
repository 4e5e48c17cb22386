------------------------------ MODULE EcmLink ------------------------------
(***************************************************************************)
(* What the OUT (host-to-device) direction of a CDC-ECM function promises  *)
(* the network stack above it, whatever driver implements it: the stack is *)
(* handed whole frames the host sent, each at most once and in the order   *)
(* the host sent them, and never one longer than ECM_MAX_SEGMENT_SIZE      *)
(* (the specification's DISCARD rule).  Frames may be lost: a full slot,   *)
(* no buffer, a discarded stream or a bus reset drops one silently.        *)
(*                                                                         *)
(* A frame is identified as in EcmChunks, by the data of its chunks.       *)
(***************************************************************************)
EXTENDS Integers, Sequences, EcmChunks

CONSTANTS
  MaxSegment,     \* ECM_MAX_SEGMENT_SIZE
  HostFrameLens,  \* lengths of the frames the host sends
  MaxHostFrames   \* bound: frames the host sends

VARIABLES
  sent,           \* lengths of the frames the host has sent, by id
  handed          \* the frames handed to the network stack, in order

linkVars == <<sent, handed>>

\* The frame with id id as the host sent it.
SentFrame(id) == [len |-> sent[id], data |-> FrameData(id, sent[id])]

\* The id a handed frame carries; a frame of no bytes carries none.
FrameId(f) == IF f.data = <<>> THEN 0 ELSE f.data[1][1]

LastHanded == IF handed = <<>> THEN 0 ELSE FrameId(handed[Len(handed)])

LinkInit ==
  /\ sent = <<>>
  /\ handed = <<>>

\* The host sends a frame.
Send ==
  /\ Len(sent) < MaxHostFrames
  /\ \E L \in HostFrameLens : sent' = Append(sent, L)
  /\ UNCHANGED handed

\* The stack is handed a frame sent after the last one it was handed; the
\* frames in between are lost.
Hand ==
  /\ \E id \in 1..Len(sent) :
       /\ id > LastHanded
       /\ sent[id] <= MaxSegment
       /\ handed' = Append(handed, SentFrame(id))
  /\ UNCHANGED sent

LinkNext == Send \/ Hand

LinkSpec == LinkInit /\ [][LinkNext]_linkVars

=============================================================================
