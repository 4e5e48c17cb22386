---------------------------- MODULE MCRtosStartup ----------------------------
(* RtosStartup with DEVICE_ID2 bytes on both sides of every hex-digit      *)
(* boundary that matters (0, 9 | A, F), and the host's 100 ms enumeration  *)
(* delay against the device's sub-millisecond start-up, scaled to 2 : 1.   *)
EXTENDS RtosStartup

MCIdBytes == {0, 9, 10, 159, 255}

MCDeviceId3 == <<17, 34, 51, 68>>

\* One address order the linker may give the zero-initialised globals:
\* usbd_ecm.o before NetworkInterface.o, each in declaration order.
MCBssOrder == <<"registered_pdev", "xEMACTaskHandle", "rcvSemaphore", "network_active">>

=============================================================================
