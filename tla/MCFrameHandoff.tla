--------------------------- MODULE MCFrameHandoff ---------------------------
(* Memory maps in the shape of the one stage 2 prints under QEMU: low      *)
(* memory that ends inside a frame, the firmware's hole, main memory, and  *)
(* more of either kind above it, also as the firmware's last entry.  A     *)
(* frame has two bytes.                                                    *)
EXTENDS FrameHandoff

Region(from, to, typ) == [start |-> from, size |-> to - from, typ |-> typ]

Low == <<Region(0, 3, "Normal"), Region(3, 4, "Reserved"), Region(6, 8, "Reserved")>>
Top == <<Region(60, 64, "Reserved")>>

Roomy == Low \o <<Region(8, 34, "Normal"), Region(34, 36, "AcpiReclaimable")>> \o Top
TwoBanks ==
  Low \o <<Region(8, 34, "Normal"), Region(34, 36, "Reserved"), Region(40, 46, "Normal")>> \o Top
Tight == Low \o <<Region(8, 18, "Normal"), Region(18, 22, "Reserved")>> \o Top
TightTwoBanks ==
  Low \o <<Region(8, 18, "Normal"), Region(20, 34, "Normal")>> \o Top
Adjoining ==
  Low \o <<Region(8, 18, "Normal"), Region(18, 34, "Normal")>> \o Top
Crowded ==
  Low \o <<Region(8, 30, "Normal"), Region(30, 32, "Reserved"), Region(36, 38, "Reserved"),
           Region(38, 40, "Normal"), Region(40, 42, "AcpiReclaimable")>> \o Top
OverCrowded == Crowded \o <<Region(64, 66, "Reserved")>>
ReservedLow == <<Region(0, 3, "Reserved")>> \o Tail(Crowded)

HighBank ==
  Low \o <<Region(8, 34, "Normal"), Region(34, 36, "Reserved"), Region(64, 70, "Normal")>>

MCMaps ==
  {Roomy, TwoBanks, HighBank, Tight, TightTwoBanks, Adjoining, Crowded, OverCrowded, ReservedLow}
MCLast == {8, 11, 17, 18}
QemuMaps == {Roomy}
=============================================================================
