CONSTANT Streams <- MCStreams
SPECIFICATION DecSpec
INVARIANTS DecInv FlushedAway DisplayOrder TimesHold
CHECK_DEADLOCK FALSE
