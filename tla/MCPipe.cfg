CONSTANTS
  Readers = {r1, r2}
  Writers = {w1, w2}
  Pollers = {p1}
  MAX_PIPE_BUFFER_BYTES = 2
  PIPE_BUF_BYTES = 1
  Lengths = {1, 2, 4}
  Waits = {"forever", "timeout"}
  MaxBytes = 4
  MaxWaiters = 3
  MasterReaders = {m}
  SlaveReaders = {s}
  Inputs <- Typed
  Outputs <- Shown
  TermiosSet <- Modes
  Pgids = {0, 1}
  MAX_PTY_BUFFER_BYTES = 3
  MAX_CANON = 2
  MaxWrites = 3
  MaxWaits = 2
  ABSENT = ABSENT
  PENDING = PENDING
  HANGUP = HANGUP
SYMMETRY Symmetry
SPECIFICATION MCSpec
INVARIANTS NoLostWakeup NoMissedPoll NoByteTwice OneReaderOverrun
  PtyReadersWake PtyQueueIsSound PtyIsInOrder PtyInputIsEdited
PROPERTY OneReaderHasAChannel
CHECK_DEADLOCK FALSE
