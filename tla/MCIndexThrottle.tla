--------------------------- MODULE MCIndexThrottle ---------------------------
(* Small instances of IndexThrottle.                                       *)
EXTENDS IndexThrottle

FixedSize == {SegmentMax}
AnySize == 1..SegmentMax
=============================================================================
