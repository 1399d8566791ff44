------------------------- MODULE MCFFMpegDemuxPush -------------------------
EXTENDS FFMpegDemuxPush

CONSTANTS s1, s2    \* streams

=============================================================================
