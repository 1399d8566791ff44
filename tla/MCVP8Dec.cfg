SPECIFICATION VP8Spec
CONSTANTS
    File <- MixedFile
    Segments <- SomeSegments
    QoS = {2, 5}
    MaxSeeks = 3
    MaxQoS = 2
INVARIANTS VP8Inv ReferencesDecoded
\* Upstream stops at the bounds, and a decoder that spins never returns.
CHECK_DEADLOCK FALSE
