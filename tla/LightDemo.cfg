\* Two clicks, one move of the bar to a position that does not survive the
\* rounding, one restart, one write that fails, and a screen that goes off
\* and on again.
SPECIFICATION DemoSpec
CONSTANTS
    LedThread = t1
    LcdThread = t2
    Threads = {t1, t2}
    NoThread = NoThread
    States <- Asked
    MaxCalls = 5
    MaxFailures = 1
    Positions = {1}
    FirstBrightness = {128}
    MaxClicks = 2
    MaxDrags = 1
    MaxRestarts = 1
    MaxToggles = 2
INVARIANT LightFollowsButton
PROPERTIES OnlyUserDims LightsSettle CallsReturn
\* Clicks, moves, restarts and the screen are bounded, so the system may come to rest.
CHECK_DEADLOCK FALSE
