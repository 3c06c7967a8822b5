CONSTANTS
  c1 = c1
  c2 = c2
  None = None
  NoConn = NoConn
  Conns <- MCConns
  MaxFrames = 3
  Base = 2
  MaxLen = 4
  Messages <- MCMessages
  MaxSent = 3
  MaxLines = 3
  MaxConns = 3
  MaxTimers = 2
  MaxBurst = 2
SPECIFICATION PartsSpec
INVARIANTS NothingLost NoEarlyUse IInv NoFrameLeftBehind LinesKept
PROPERTIES ImplementsMessagePipe ImplementsFrameStream EveryLineSettled
\* the peer and the user send so many messages, then everything stops
CHECK_DEADLOCK FALSE
