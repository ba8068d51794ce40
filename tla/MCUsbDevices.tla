---------------------------- MODULE MCUsbDevices ----------------------------
(***************************************************************************)
(* Values of UsbDevices' constants that a configuration file cannot write. *)
(***************************************************************************)
EXTENDS UsbDevices

CONSTANTS phone, accessory, other, phoneSerial, otherSerial

\* One phone, as itself and as an accessory, and another phone.
SerialNumbers == [i \in Impls |-> IF i = other THEN otherSerial ELSE phoneSerial]

=============================================================================
