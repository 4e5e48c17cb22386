------------------------------ MODULE MCEcmRtos ------------------------------
(* Frame-length sets for checking EcmRtos with TLC.                        *)
EXTENDS EcmRtos

\* Host frames: short, one full chunk (ended by a zero-length packet), the
\* largest legal frame, and an oversize stream that DataOut must DISCARD.
MCRxHostFrameLens == {10, 64, 1514, 1600}

\* A stream that DataOut must DISCARD, then a short frame.
MCDiscardHostFrameLens == {1600, 10}

\* Host frames of one and of two chunks, for runs with a bus reset.
MCResetHostFrameLens == {10, 100}

\* Frames the IP task transmits: one packet, and two packets.
MCDevFrameLens == {10, 100}

\* One single-chunk frame from FreeRTOS+TCP, to interleave a transmission with reception.
MCOneChunkDevFrameLens == {10}

=============================================================================
