----------------------------- MODULE MCEcmLwip -----------------------------
(* Model-checking instances of EcmLwip: full-speed chunk size and the real *)
(* ECM_MAX_SEGMENT_SIZE; frame lengths chosen to hit short, exact-multiple *)
(* and multi-chunk frames.                                                 *)
EXTENDS EcmLwip

\* Frames the host sends: empty, one short chunk, exactly one full chunk
\* (the host adds a zero-length chunk), and two chunks.
MCHostFrameLens == {0, 10, 64, 100}

\* Frames lwIP transmits: one chunk and two chunks, never a multiple of 64.
MCDevFrameLens == {10, 100}

\* Frames that fill ecm_rx_buffer to the last byte, and short ones.
MCRxHostFrameLens == {10, 64, 1514}

\* A long frame followed by a two-chunk one.
MCPbufHostFrameLens == {1500, 100}

\* SET_ETHERNET_MULTICAST_FILTERS (0x40) and SET_ETHERNET_PACKET_FILTER (0x43).
MCHostRequests == {64, 67}

=============================================================================
