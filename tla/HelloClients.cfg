\* Two clients and servers of two languages, which may replace each other and
\* exit; a name that is the descriptor of the Java interface.
SPECIFICATION Spec
CONSTANTS
    c1 = c1
    c2 = c2
    Clients = {c1, c2}
    Starts <- AnyAndJava
    MaxServers = 2
    Names = {"Bob", "IHelloService"}
INVARIANTS TypeOK HandlesHeld Interchangeable CountsGenuine
PROPERTY ClientsExit
\* Clients and servers are bounded in number, so the system comes to rest.
CHECK_DEADLOCK FALSE
