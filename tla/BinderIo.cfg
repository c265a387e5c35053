\* Messages of up to five values in the 256-byte buffer of a reply, sent as a
\* request or as a reply.
SPECIFICATION Spec
CONSTANTS
    MaxData = 256
    MaxOffs = 4
    MaxItems = 5
    WordMod = 65536
    Items <- Values
INVARIANTS TypeOK CursorsInBounds RoundTrip TruncationNoticed
\* A message ends when it is refused or read.
CHECK_DEADLOCK FALSE
