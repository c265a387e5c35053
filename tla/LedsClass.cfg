\* Four LEDs, one registration that fails.
SPECIFICATION LedsSpec
CONSTANTS
    NumLeds = 4
    MaxFailures = 1
INVARIANT RegisteredAlive
