---------------------------- MODULE MCUsbGadget ----------------------------
\* Two functions with endpoints (MTP and ADB) around one without (RNDIS)
EXTENDS UsbGadget

MCSupported == {{1}, {3}, {2}, {1, 3}, {2, 3}}
MCRequests == {{}, {2}, {3}, {1, 3}, {1, 2}}
=============================================================================
