------------------------------ MODULE MCDesks ------------------------------
(***************************************************************************)
(* The desks at which an administrator acts on what a list or a detail     *)
(* shows: businesses, their invitations and administrators, users, the     *)
(* resource console, reports, and a party's status.  A tab shows one desk  *)
(* at a time, so the system is their sum: the desk on the screen takes     *)
(* every step, in the variables x1, x2, ... that its module names, and the *)
(* rest are idle.                                                          *)
(***************************************************************************)
EXTENDS Integers, Sequences, FiniteSets

CONSTANTS
  Values, BusinessMoves,                   \* of a business
  b1, b2, q1, q2,                          \* of the assignments
  MaxChanges, MaxRefetches,                \* of a user
  Rows, PAGE_SIZE, ResourceMoves,          \* of the resource console
  Tabs, QueueSize, QueueMoves,             \* of the reports: the queue,
  DecidedSize, DecidedMoves, CountsSize, CountsMoves, \* decisions, counters
  PartyVersion, AgainVersion, AgainVisits, \* of a party
  MaxFaults, NULL

ASSUME SizesAssumption ==
  /\ {PAGE_SIZE, QueueSize, DecidedSize, CountsSize} \subseteq Nat \ {0}
  /\ {BusinessMoves, MaxChanges, MaxRefetches, ResourceMoves} \subseteq Nat
  /\ {QueueMoves, DecidedMoves, CountsMoves, MaxFaults} \subseteq Nat
  /\ {PartyVersion, AgainVersion, AgainVisits} \subseteq Nat
ASSUME TabsAssumption ==
  "PENDING" \in Tabs /\ Tabs \subseteq {"PENDING", "ACTIONED", "DISMISSED"}
ASSUME ValuesAssumption == Values # {}
ASSUME RowsAssumption == Rows \subseteq Nat /\ IsFiniteSet(Rows)

VARIABLES screen,
          x1, x2, x3, x4, x5, x6, x7, x8, x9, x10, x11, x12, x13, x14, x15,
          x16, x17

vars == <<screen, x1, x2, x3, x4, x5, x6, x7, x8, x9, x10, x11, x12, x13,
  x14, x15, x16, x17>>
After8 == <<x9, x10, x11, x12, x13, x14, x15, x16, x17>>
After9 == <<x10, x11, x12, x13, x14, x15, x16, x17>>
After11 == <<x12, x13, x14, x15, x16, x17>>

Business == INSTANCE BusinessDesk WITH
  MaxMoves <- BusinessMoves, server <- x1,
  queries <- x2, form <- x3, runs <- x4, mount <- x5, mutations <- x6,
  told <- x7, moves <- x8, faults <- x9
Invitation == INSTANCE InvitationDesk WITH
  Invitations <- {1, 2}, MAX_TAKE <- 2, MaxMoves <- 2,
  server <- x1, invQuery <- x2, outboxQueries <- x3, mount <- x4,
  requests <- x5, told <- x6, moves <- x7, faults <- x8
Assignment == INSTANCE BusinessAssignment WITH
  Businesses <- {b1, b2}, Users <- {1, 2}, Searches <- {q1, q2},
  MaxMoves <- 5, server <- x1, businesses <- x2,
  search <- x3, businessId <- x4, picker <- x5, mount <- x6, nextPage <- x7,
  assignment <- x8, told <- x9, moves <- x10, faults <- x11
User == INSTANCE UserDetail WITH
  account <- x1,
  detail <- x2, summary <- x3, dialog <- x4, mutation <- x5, acted <- x6,
  faults <- x7, refetches <- x8
Resource == INSTANCE ResourceConsole WITH
  MaxMoves <- ResourceMoves, done <- x1,
  filter <- x2, lists <- x3, pageState <- x4, asks <- x5, dialog <- x6,
  mutation <- x7, owed <- x8, cut <- x9, moves <- x10, faults <- x11

(* The queue is looked at for three questions: whether a walk along it      *)
(* misses a report, whether a decision stays decided, and whether the       *)
(* counters agree; a party for two: one visit with faults, and visits      *)
(* one after another.                                                       *)
Walked ==
  [size |-> QueueSize, tabs |-> Tabs, moves |-> QueueMoves, faults |-> 0]
Judged ==
  [size |-> DecidedSize, tabs |-> Tabs, moves |-> DecidedMoves, faults |-> 0]
Counted == [size |-> CountsSize, tabs |-> {"PENDING"},
            moves |-> CountsMoves, faults |-> MaxFaults]
Queue(c) == INSTANCE ReportQueue WITH
  Reports <- 1..c.size, TABS <- c.tabs, MaxMoves <- c.moves,
  MaxFaults <- c.faults, server <- x1,
  late <- x2, status <- x3, lists <- x4, queueSummary <- x5, details <- x6,
  dialog <- x7, requests <- x8, decided <- x9, moves <- x10, faults <- x11
Once == [version |-> PartyVersion, visits |-> 1, faults |-> MaxFaults]
Again == [version |-> AgainVersion, visits |-> AgainVisits, faults |-> 0]
PartyPage(c) == INSTANCE PartyDesk WITH
  MaxVersion <- c.version, MaxVisits <- c.visits, MaxFaults <- c.faults,
  server <- x1, own <- x2, mounted <- x3, detail <- x4, fetch <- x5,
  read <- x6, detailError <- x7, invalidated <- x8, history <- x9,
  historyFetch <- x10, reason <- x11,
  runs <- x12, blind <- x13, owed <- x14, made <- x15, visits <- x16,
  faults <- x17

ASSUME NullAssumption ==
  NULL \notin Nat \cup User!Data \cup Business!Overview \cup Business!Form
                \cup Resource!Reading
                \cup Invitation!InvitationStatus \cup Invitation!Listed
                \cup Queue(Walked)!ReportStatus
                \cup {"detail", "summary", "404", "403", "other", "asked", "read", "all", "next"}

OnBusiness(A) == screen = "business" /\ A /\ UNCHANGED <<screen, After9>>
OnInvitation(A) == screen = "invitation" /\ A /\ UNCHANGED <<screen, After8>>
OnAssignment(A) == screen = "assignment" /\ A /\ UNCHANGED <<screen, After11>>
OnUser(A) == screen = "user" /\ A /\ UNCHANGED <<screen, After8>>
OnResource(A) == screen = "resource" /\ A /\ UNCHANGED <<screen, After11>>
OnQueue(A) == screen = "queue" /\ A /\ UNCHANGED <<screen, After11>>
OnDecided(A) == screen = "decided" /\ A /\ UNCHANGED <<screen, After11>>
OnCounts(A) == screen = "counts" /\ A /\ UNCHANGED <<screen, After11>>
OnParty(A) == screen = "party" /\ A /\ UNCHANGED <<screen>>
OnAgain(A) == screen = "again" /\ A /\ UNCHANGED <<screen>>

Idle11 == x12 = NULL /\ x13 = NULL /\ x14 = NULL /\ x15 = NULL /\
  x16 = NULL /\ x17 = NULL
Idle9 == x10 = NULL /\ x11 = NULL /\ Idle11
Idle8 == x9 = NULL /\ Idle9

Init ==
  \/ screen = "business" /\ Business!Init /\ Idle9
  \/ screen = "invitation" /\ Invitation!Init /\ Idle8
  \/ screen = "assignment" /\ Assignment!Init /\ Idle11
  \/ screen = "user" /\ User!Init /\ Idle8
  \/ screen = "resource" /\ Resource!Init /\ Idle11
  \/ screen = "queue" /\ Queue(Walked)!Init /\ Idle11
  \/ screen = "decided" /\ Queue(Judged)!Init /\ Idle11
  \/ screen = "counts" /\ Queue(Counted)!Init /\ Idle11
  \/ screen = "party" /\ PartyPage(Once)!Init
  \/ screen = "again" /\ PartyPage(Again)!Init

Next ==
  \/ OnBusiness(Business!Next)
  \/ OnInvitation(Invitation!Next)
  \/ OnAssignment(Assignment!Next)
  \/ OnUser(User!Next)
  \/ OnResource(Resource!Next)
  \/ OnQueue(Queue(Walked)!Next)
  \/ OnDecided(Queue(Judged)!Next)
  \/ OnCounts(Queue(Counted)!Next)
  \/ OnParty(PartyPage(Once)!Next)
  \/ OnAgain(PartyPage(Again)!Next)

(* Requests are answered or fail, the poll comes round, and a read that    *)
(* failed is tried again on the business page.  Nothing is assumed of what *)
(* administrators do otherwise.  Steps of different desks share a          *)
(* conjunct: only one desk is ever on the screen.                          *)
Fairness ==
  /\ WF_vars(\/ OnBusiness(Business!CommerceServer)
             \/ OnInvitation(Invitation!Server)
             \/ OnAssignment(Assignment!Server) \/ OnUser(User!DetailRead)
             \/ OnResource(Resource!mutateAdminResource)
             \/ OnCounts(Queue(Counted)!Poll)
             \/ OnParty(PartyPage(Once)!DetailReads)
             \/ OnAgain(PartyPage(Again)!DetailReads))
  /\ WF_vars(\/ OnBusiness(Business!LifecycleServer)
             \/ OnInvitation(Invitation!listInvitations)
             \/ OnAssignment(Assignment!ListRead)
             \/ OnUser(User!DetailAnswered \/ User!DetailFails)
             \/ OnResource(Resource!onSuccess)
             \/ OnCounts(Queue(Counted)!SummaryRead)
             \/ OnParty(PartyPage(Once)!DetailAnswered)
             \/ OnAgain(PartyPage(Again)!DetailAnswered))
  /\ WF_vars(\/ OnBusiness(Business!Retries)
             \/ OnInvitation(Invitation!ListAnswered)
             \/ OnAssignment(Assignment!ListAnswered)
             \/ OnUser(User!SummaryAnswered \/ User!SummaryFails)
             \/ OnResource(Resource!PageRead("all"))
             \/ OnCounts(Queue(Counted)!SummaryAnswered)
             \/ OnParty(PartyPage(Once)!HistoryAnswered)
             \/ OnAgain(PartyPage(Again)!HistoryAnswered))
  /\ WF_vars(\/ OnBusiness(Business!Read("detail"))
             \/ OnInvitation(Invitation!listMailOutbox(1))
             \/ OnAssignment(Assignment!SearchRead(q1))
             \/ OnResource(Resource!Answered("all"))
             \/ OnParty(PartyPage(Once)!Moves)
             \/ OnAgain(PartyPage(Again)!Moves))
  /\ WF_vars(\/ OnBusiness(Business!Answered("detail"))
             \/ OnInvitation(Invitation!OutboxAnswered(1))
             \/ OnAssignment(Assignment!SearchAnswered(q1))
             \/ OnResource(Resource!PageRead("open")))
  /\ WF_vars(\/ OnBusiness(Business!Read("commerce"))
             \/ OnInvitation(Invitation!listMailOutbox(2))
             \/ OnAssignment(Assignment!SearchRead(q2))
             \/ OnResource(Resource!Answered("open")))
  /\ WF_vars(\/ OnBusiness(Business!Answered("commerce"))
             \/ OnInvitation(Invitation!OutboxAnswered(2))
             \/ OnAssignment(Assignment!SearchAnswered(q2)))

Spec == Init /\ [][Next]_vars /\ Fairness

-----------------------------------------------------------------------------
(* Once a desk is at rest, it shows nothing from before what its own       *)
(* administrator was told had been done there, whatever reads were under   *)
(* way, were cut short or failed when it was.                              *)
OwnActionIsSeen ==
  /\ screen = "business" => Business!TypeOK /\ Business!OwnActionIsSeen
  /\ screen = "invitation" =>
       Invitation!TypeOK /\ Invitation!OwnActionIsSeen /\ Invitation!NoOlderMail
  /\ screen = "assignment" =>
       Assignment!TypeOK /\ Assignment!OwnAssignmentIsSeen
  /\ screen = "user" => User!TypeOK /\ User!OwnActionIsSeen
  /\ screen = "resource" => Resource!OwnActionIsSeen
  /\ screen = "decided" =>
       Queue(Judged)!TypeOK /\ Queue(Judged)!DecidedStays

(* What is acted on is what is on screen: a party moves only from the      *)
(* status that was seen, a dialog waits for its own request and shows its  *)
(* own error, and no report that waits is passed over.                     *)
ActsOnWhatIsShown ==
  /\ screen = "resource" =>
       Resource!TypeOK /\ Resource!DialogIsOwn /\ Resource!ErrorIsOwn
  /\ screen = "queue" => Queue(Walked)!TypeOK /\ Queue(Walked)!NothingSkipped
  /\ screen = "counts" =>
       Queue(Counted)!TypeOK /\ Queue(Counted)!NothingSkipped
  /\ screen = "party" => PartyPage(Once)!TypeOK /\ PartyPage(Once)!NoBlindMove
  /\ screen = "again" => PartyPage(Again)!TypeOK /\ PartyPage(Again)!NoBlindMove

(* An action or an answer changes what it is about and nothing else: a     *)
(* draft only what was typed, an answer only the list it was asked for; a  *)
(* profile is not lost to a read in vain, and no summary read needlessly.  *)
NothingElseMoves ==
  [][/\ screen = "business" => Business!UntouchedStays
     /\ screen = "user" => User!ProfileStays /\ User!NoNeedlessSummary
     /\ screen = "resource" => Resource!OnlyAskedPages]_vars

(* No button, picker, skeleton or dialog stays locked; the counters of the *)
(* queue, the panel of a party and its history come to show what is so.    *)
DesksComeBack ==
  /\ (\/ screen = "business" /\ Business!ButtonsLocked
      \/ screen = "invitation" /\ Invitation!ButtonsLocked(1)
      \/ screen = "assignment" /\ Assignment!PickerLocked
      \/ screen = "user" /\ User!SkeletonShown
      \/ screen = "resource" /\ Resource!Waits
      \/ screen = "counts" /\ ~Queue(Counted)!CountsAgree)
     ~> (/\ screen = "business" => ~Business!ButtonsLocked
         /\ screen = "invitation" => ~Invitation!ButtonsLocked(1)
         /\ screen = "assignment" => ~Assignment!PickerLocked
         /\ screen = "user" => ~User!SkeletonShown
         /\ screen = "resource" => ~Resource!Waits
         /\ screen = "counts" => Queue(Counted)!CountsAgree)
  /\ \A v \in 1..2 :
       /\ (\/ screen = "invitation" /\ v = 2 /\ Invitation!ButtonsLocked(v)
           \/ screen = "party" /\ PartyPage(Once)!PanelOwed(v)
           \/ screen = "again" /\ PartyPage(Again)!PanelOwed(v))
          ~> (/\ (screen = "invitation" /\ v = 2) =>
                   ~Invitation!ButtonsLocked(v)
              /\ screen = "party" => PartyPage(Once)!PanelCatchesUp(v)
              /\ screen = "again" => PartyPage(Again)!PanelCatchesUp(v))
       /\ (\/ screen = "party" /\ PartyPage(Once)!MoveMade(v)
           \/ screen = "again" /\ PartyPage(Again)!MoveMade(v))
          ~> (/\ screen = "party" => PartyPage(Once)!HistoryCatchesUp(v)
              /\ screen = "again" => PartyPage(Again)!HistoryCatchesUp(v))
=============================================================================
