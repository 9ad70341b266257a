SPECIFICATION EvSpec
CONSTANTS
  Owner = owner
  Threads = {t1, t2}
  Fds = {sfd, f1}
  SigFd = sfd
  MaxRegs = 3
  None = None
INVARIANTS EventsMeetTheirCallback HandlerOutlivesItsUsers
PROPERTIES DataIsRead DestroyEnds
