\* The message app with four clicks and a wait() that returns early twice; the
\* epoll loop on four files, one of which cannot be polled, and two events a
\* wait; a directory with a short and a long name and a queue of three events;
\* the socket pair; four LEDs with two registrations that fail.
SPECIFICATION DemosSpec
CONSTANTS
    MaxClicks = 4
    MaxWakeUps = 2
    Files = {"f1", "f2", "f3", "f4"}
    argv <- Argv
    Monitorable = {"f1", "f3", "f4"}
    EPOLL_MAX_EVENTS = 2
    DATA_MAX_LEN = 2
    MaxWritten = 2
    FileNames = {"short", "long"}
    NameLen <- PaddedLen
    HeaderSize = 16
    BufSize = 512
    MaxQueued = 3
    MaxChanges = 5
    CntMod = 4
    NumLeds = 4
    MaxFailures = 2
INVARIANTS
    TypeOK HandlersBound MessagesInOrder
    ReadNeverBlocks CursorOnEvent PrintedInOrder InStep
PROPERTIES
    AppStarts ClicksHandled DataPrinted ChangesPrinted TalkGoesOn FreedEmpty
\* Clicks, bytes and changes are bounded, so a program may come to rest.
CHECK_DEADLOCK FALSE
