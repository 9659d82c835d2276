----------------------------- MODULE MCSlotGrid -----------------------------
(* Four days, the second closed; the clock goes forward or back on the     *)
(* third.                                                                  *)
EXTENDS SlotGrid
MCClosed == {1}
MCZones == {<<2, 3>>, <<3, 2>>}
=============================================================================
