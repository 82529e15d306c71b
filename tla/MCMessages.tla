----------------------------- MODULE MCMessages -----------------------------
(***************************************************************************)
(* The places messages are read and written in: the mail console, its      *)
(* composer, and a chat room.  A tab shows one of them at a time, so the   *)
(* system is their sum: the one on the screen takes every step, in the     *)
(* variables x1, x2, ... that its module names, and the rest are idle.     *)
(***************************************************************************)
EXTENDS Integers, Sequences, FiniteSets

CONSTANTS Received, Folders, INBOX, SENT, \* the mails, and where they are
          From, To, Own, Mailbox, \* addresses: of mails, of the mailbox, its own
          UnreadOps, FoldersOps, ClicksOps, ElsewhereOps, MaxElse, \* in the lists
          MaxRecipients, MaxTyped, MaxFaults, \* in the composer
          c1, USER, \* in the room
          NULL

ASSUME MailsAssumption == INBOX \in Folders
ASSUME BoundsAssumption ==
  /\ {UnreadOps, FoldersOps, ClicksOps, ElsewhereOps, MaxElse} \subseteq Nat
  /\ {MaxRecipients, MaxTyped, MaxFaults} \subseteq Nat
ASSUME NullAssumption ==
  NULL \notin Own \cup {"asked", "read", "loading", "rejected", "ready"}

VARIABLES screen,
          x1, x2, x3, x4, x5, x6, x7, x8, x9, x10, x11, x12, x13, x14, x15,
          x16, x17, x18, x19, x20, x21, x22, x23, x24, x25, x26, x27, x28,
          x29

vars == <<screen, x1, x2, x3, x4, x5, x6, x7, x8, x9, x10, x11, x12, x13,
  x14, x15, x16, x17, x18, x19, x20, x21, x22, x23, x24, x25, x26, x27, x28,
  x29>>
After13 == <<x14, x15, x16, x17, x18, x19, x20, x21, x22, x23, x24, x25, x26,
  x27, x28, x29>>
After15 == <<x16, x17, x18, x19, x20, x21, x22, x23, x24, x25, x26, x27, x28,
  x29>>

Console(Where, Kinds, Ops, Changes) == INSTANCE MailConsole WITH
  Mails <- Received, Folders <- Where, Filters <- Kinds, MaxOps <- Ops,
  MaxElse <- Changes, mails <- x1, mailbox <- x2, mailboxFetch <- x3,
  mailboxRead <- x4, lists <- x5, stale <- x6, listFetch <- x7,
  listRead <- x8, detail <- x9, folder <- x10, unreadOnly <- x11,
  selectedId <- x12, mutations <- x13, ops <- x14, elsewhere <- x15
Composer(Typed, Failures) == INSTANCE MailDesk WITH
  FromOf <- [m \in Received |-> From], ToOf <- [m \in Received |-> To],
  MaxTyped <- Typed, MaxFaults <- Failures, folder <- x1,
  selectedId <- x2, mobilePane <- x3, loaded <- x4, pendingFocus <- x5,
  focus <- x6, senders <- x7, composer <- x8, editor <- x9, moves <- x10,
  sends <- x11, posted <- x12, faults <- x13
ASSUME ComposerAssumption ==
  NULL \notin Composer(MaxTyped, 0)!Composers \cup Composer(0, MaxFaults)!Composers
Chat == INSTANCE ChatRoom WITH
  Clients <- {c1}, Window <- 2, PageSize <- 1, MaxUser <- 1, MaxFaults <- 1,
  log <- x1, floor <- x2, sent <- x3, frames <- x4, joined <- x5,
  readMark <- x6, phase <- x7, socket <- x8, shown <- x9, locals <- x10,
  hasOlder <- x11, hasNewer <- x12, contiguous <- x13, observed <- x14,
  pendingRead <- x15, readTimer <- x16, sendTimers <- x17, history <- x18,
  catchUp <- x19, older <- x20, newer <- x21, requestedTail <- x22,
  retryTimer <- x23, near <- x24, visible <- x25, used <- x26, base <- x27,
  received <- x28, faults <- x29

OnUnread(A) == screen = "unread" /\ A /\ UNCHANGED <<screen, After15>>
OnTwoFolders(A) == screen = "folders" /\ A /\ UNCHANGED <<screen, After15>>
OnClicks(A) == screen = "clicks" /\ A /\ UNCHANGED <<screen, After15>>
OnElsewhere(A) == screen = "elsewhere" /\ A /\ UNCHANGED <<screen, After15>>
OnDesk(A) == screen = "desk" /\ A /\ UNCHANGED <<screen, After13>>
OnChunk(A) == screen = "chunk" /\ A /\ UNCHANGED <<screen, After13>>
OnChat(A) == screen = "chat" /\ A /\ UNCHANGED <<screen>>

Idle15 == x16 = NULL /\ x17 = NULL /\ x18 = NULL /\ x19 = NULL /\
  x20 = NULL /\ x21 = NULL /\ x22 = NULL /\ x23 = NULL /\ x24 = NULL /\
  x25 = NULL /\ x26 = NULL /\ x27 = NULL /\ x28 = NULL /\ x29 = NULL
Idle13 == x14 = NULL /\ x15 = NULL /\ Idle15

Init ==
  \/ screen = "unread" /\ Console({INBOX}, BOOLEAN, UnreadOps, 0)!Init /\ Idle15
  \/ screen = "folders" /\ Console(Folders, {FALSE}, FoldersOps, 0)!Init /\ Idle15
  \/ screen = "clicks" /\ Console({INBOX}, {FALSE}, ClicksOps, 0)!Init /\ Idle15
  \/ screen = "elsewhere" /\ Console({INBOX}, {FALSE}, ElsewhereOps, MaxElse)!Init /\ Idle15
  \/ screen = "desk" /\ Composer(MaxTyped, 0)!Init /\ Idle13
  \/ screen = "chunk" /\ Composer(0, MaxFaults)!Init /\ Idle13
  \/ screen = "chat" /\ Chat!Init

Next ==
  \/ OnUnread(Console({INBOX}, BOOLEAN, UnreadOps, 0)!Next)
  \/ OnTwoFolders(Console(Folders, {FALSE}, FoldersOps, 0)!Next)
  \/ OnClicks(Console({INBOX}, {FALSE}, ClicksOps, 0)!Next)
  \/ OnElsewhere(Console({INBOX}, {FALSE}, ElsewhereOps, MaxElse)!Next)
  \/ OnDesk(Composer(MaxTyped, 0)!Next)
  \/ OnChunk(Composer(0, MaxFaults)!Next)
  \/ OnChat(Chat!Next)

(* Requests are answered, timers and the interval fire, the chunk is       *)
(* loaded or fails, and an operator who is offered a retry takes it; the   *)
(* gateway answers the join and its frames arrive while the socket is      *)
(* open.  Nothing is assumed of what the operator does otherwise, of other *)
(* users, or of watermarks nobody asked for.  Steps of different places    *)
(* share a conjunct: only one place is ever on the screen.                 *)
Fairness ==
  /\ WF_vars(\/ OnClicks(Console({INBOX}, {FALSE}, ClicksOps, 0)!MailboxReads)
             \/ OnElsewhere(Console({INBOX}, {FALSE}, ElsewhereOps, MaxElse)!MailboxReads)
             \/ OnDesk(Composer(MaxTyped, 0)!DetailLoads)
             \/ OnChunk(Composer(0, MaxFaults)!EditorLoads)
             \/ OnChat(Chat!onopen))
  /\ WF_vars(\/ OnClicks(Console({INBOX}, {FALSE}, ClicksOps, 0)!MailboxAnswered)
             \/ OnElsewhere(Console({INBOX}, {FALSE}, ElsewhereOps, MaxElse)!MailboxAnswered)
             \/ OnChunk(Composer(0, MaxFaults)!RetryEditor) \/ OnChat(Chat!onclose))
  /\ WF_vars(\/ OnClicks(Console({INBOX}, {FALSE}, ClicksOps, 0)!MailboxInterval)
             \/ OnElsewhere(Console({INBOX}, {FALSE}, ElsewhereOps, MaxElse)!MailboxInterval)
             \/ OnChat(Chat!Reconnect))
  /\ WF_vars(\/ OnClicks(Console({INBOX}, {FALSE}, ClicksOps, 0)!Server)
             \/ OnElsewhere(Console({INBOX}, {FALSE}, ElsewhereOps, MaxElse)!Server)
             \/ OnChat(Chat!HistoryLoaded))
  /\ WF_vars(OnChat(Chat!CatchUpAnswered)) /\ WF_vars(OnChat(Chat!RetryCatchUp))
  /\ WF_vars(OnChat(Chat!GatewayJoin)) /\ WF_vars(OnChat(Chat!markFailed(c1)))
  /\ \A s \in 1..2 : /\ WF_vars(OnChat(Chat!onmessage(Chat!Watermarked(s))))
                     /\ WF_vars(OnChat(Chat!onmessage(Chat!Committed(s))))

Spec == Init /\ [][Next]_vars /\ Fairness

-----------------------------------------------------------------------------
(* No list shows a mail that does not belong to it, whatever was read,     *)
(* moved, changed elsewhere or patched into the cache meanwhile.           *)
ListsMatch ==
  /\ screen = "unread" =>
       /\ Console({INBOX}, BOOLEAN, UnreadOps, 0)!TypeOK
       /\ Console({INBOX}, BOOLEAN, UnreadOps, 0)!ListsMatch
  /\ screen = "folders" =>
       /\ Console(Folders, {FALSE}, FoldersOps, 0)!TypeOK
       /\ Console(Folders, {FALSE}, FoldersOps, 0)!ListsMatch
  /\ screen = "clicks" =>
       /\ Console({INBOX}, {FALSE}, ClicksOps, 0)!TypeOK
       /\ Console({INBOX}, {FALSE}, ClicksOps, 0)!ListsMatch
  /\ screen = "elsewhere" =>
       /\ Console({INBOX}, {FALSE}, ElsewhereOps, MaxElse)!TypeOK
       /\ Console({INBOX}, {FALSE}, ElsewhereOps, MaxElse)!ListsMatch

(* A mail is posted as the composer shows it: from an address the mailbox  *)
(* still offers, and with a text and an HTML that are one body.            *)
PostedAsShown ==
  /\ screen = "desk" =>
       /\ Composer(MaxTyped, 0)!TypeOK
       /\ Composer(MaxTyped, 0)!PostsWhatIsShown
       /\ Composer(MaxTyped, 0)!BodyAgrees
  /\ screen = "chunk" =>
       /\ Composer(0, MaxFaults)!TypeOK
       /\ Composer(0, MaxFaults)!PostsWhatIsShown
       /\ Composer(0, MaxFaults)!BodyAgrees

(* The counters agree with the server again and again, whatever raced      *)
(* them; the focus arrives in the mail that was opened, an editor whose    *)
(* chunk was lost comes back, the room catches up after every reconnect,   *)
(* and a message that was sent is committed or offered for a retry.        *)
CatchesUp ==
  /\ (\/ screen = "clicks" /\ ~Console({INBOX}, {FALSE}, ClicksOps, 0)!CountersAgree
      \/ screen = "elsewhere" /\ ~Console({INBOX}, {FALSE}, ElsewhereOps, MaxElse)!CountersAgree
      \/ screen = "desk" /\ Composer(MaxTyped, 0)!FocusOwed
      \/ screen = "chunk" /\ Composer(0, MaxFaults)!EditorLost
      \/ screen = "chat" /\ Chat!Ready)
     ~> (/\ screen = "clicks" => Console({INBOX}, {FALSE}, ClicksOps, 0)!CountersAgree
         /\ screen = "elsewhere" => Console({INBOX}, {FALSE}, ElsewhereOps, MaxElse)!CountersAgree
         /\ screen = "desk" => Composer(MaxTyped, 0)!FocusArrives
         /\ screen = "chunk" => Composer(0, MaxFaults)!EditorComesBack
         /\ screen = "chat" => Chat!CatchesUp)
  /\ (screen = "chat" /\ Chat!Pending(c1)) ~> (screen = "chat" => Chat!SendSettles(c1))
=============================================================================
