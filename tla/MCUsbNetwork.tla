----------------------------- MODULE MCUsbNetwork ----------------------------
(* UsbNetwork for TLC: four pbufs, so that lwIP can queue some while others   *)
(* are received.                                                              *)
EXTENDS UsbNetwork
==============================================================================
