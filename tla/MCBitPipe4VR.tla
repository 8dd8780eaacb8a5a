---------------------------- MODULE MCBitPipe4VR ----------------------------
(***************************************************************************)
(* Instances of BitPipe4VR for TLC.  The program of a device has no choice *)
(* in it, so the states of an instance are the interleavings of P          *)
(* devices: N only makes the program longer.                               *)
(***************************************************************************)
EXTENDS BitPipe4VR

\* The smallest pipeline the schedule accepts.
FourDevices == 4

\* The smallest one with an odd number of devices per half: the two counts of
\* NumInitial and Half - NumInitial then differ on every device.
SixDevices == 6

\* One unit: no middle part.  Two units: the middle part runs once.  Three
\* units: it follows itself.
FourByFour   == 4
FourByEight  == 2 * FourDevices
FourByTwelve == 3 * FourDevices
SixByTwelve  == 2 * SixDevices
============================================================================
