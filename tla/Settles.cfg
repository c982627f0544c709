SPECIFICATION Behaviors
CONSTANTS
    p1 = p1  p2 = p2  NoProc = NoProc  reply = reply  NoThread = NoThread
PROPERTIES QueuedWorkSettles CloudWorkSettles MessagesArrive LocalRunsSettle LanesSettle
CHECK_DEADLOCK FALSE
