------------------------------ MODULE EepromMC ------------------------------
(* Small instances of Eeprom for TLC, with the checksum of its records. *)
EXTENDS Eeprom, Crc

\* With every model of the component, LLOS_CRC_CAL yields the remainder of polynomial
\* division, the last byte's reduction and the widths that fill no byte included
\* (llos_crc.c:73-146).  It keeps no state, so the initial state is enough to say so in.
CrcIsRemainder == Init => \A cfg \in crcModels, data \in SomeData : IsRemainder(cfg, data)
=============================================================================
