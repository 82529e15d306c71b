SPECIFICATION Spec
CONSTANTS
  Received = {m1}
  Folders = {INBOX, ARCHIVE}
  INBOX = INBOX
  SENT = SENT
  From = {other, alias}
  To = {alias}
  Own = {own, alias}
  Mailbox = own
  UnreadOps = 1
  FoldersOps = 1
  ClicksOps = 2
  ElsewhereOps = 1
  MaxElse = 1
  MaxRecipients = 1
  MaxTyped = 1
  MaxFaults = 1
  c1 = c1
  USER = USER
  NULL = NULL
INVARIANTS ListsMatch PostedAsShown
PROPERTY CatchesUp
CHECK_DEADLOCK FALSE
