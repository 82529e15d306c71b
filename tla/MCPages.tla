------------------------------ MODULE MCPages ------------------------------
(***************************************************************************)
(* The pages that are filled in and worked on: those a party is run with   *)
(* (its door, the scanner, the applications, the form, the images, the     *)
(* list), the editor of the resource console, the wizard of sign-up and    *)
(* password reset, and the sign-in page; the navigation that leads to      *)
(* them; with them the two scripts that fill the market of a new           *)
(* deployment.  A tab does one of this at a time, and they share nothing:  *)
(* the one that "screen" names takes every step, in the variables x1, x2,  *)
(* ... that its module names, and the rest of them are idle.               *)
(***************************************************************************)
EXTENDS Integers, Sequences, FiniteSets

CONSTANTS People, PAGE_SIZE, MaxOps, MaxFaults, \* at the door
          MaxOpens, MaxTyped, \* at its scanner
          Applicants, WINDOW_SIZE, MaxReviews, \* reviewing applications
          Places, Minutes, \* in the form
          EditYear, EditEdits, EditSearches, EditSaves, \* of a party there is
          CreateYear, CreateEdits, CreateSaves, \* of a new one
          maxFiles, MaxChoices, \* choosing images
          Tabs, MaxPages, AUTO_OPEN_SCAN_PAGE_LIMIT, MaxMoves, \* in the list
          Emails, Internal, Passwords, WizardMoves, WizardFaults, \* by e-mail
          MaxVisits, MaxFlows, ScriptFaults, \* signing in
          SUPER_ADMIN, BUSINESS_ADMIN, MaxEvents, \* on the way to a page
          category, business, Titles, p1, p2, foreign, \* what the scripts make, and what is there
          MarketRuns, MarketFaults, MarketMoves, \* of the one
          SeedItems, TRANSITION_ATTEMPTS, SeedRuns, SeedFaults, SeedMoves, \* of the other
          NULL

ASSUME PeopleAssumption == IsFiniteSet(People) /\ PAGE_SIZE \in Nat \ {0}
ASSUME ApplicantsAssumption == IsFiniteSet(Applicants) /\ WINDOW_SIZE \in Nat \ {0}
ASSUME BoundsAssumption ==
  /\ {MaxOps, MaxFaults, MaxOpens, MaxTyped, MaxReviews} \subseteq Nat
  /\ {Minutes, EditYear, EditEdits, EditSearches, EditSaves} \subseteq Nat
  /\ {CreateYear, CreateEdits, CreateSaves} \subseteq Nat
  /\ {MaxChoices, MaxPages, AUTO_OPEN_SCAN_PAGE_LIMIT, MaxMoves} \subseteq Nat
ASSUME FilesAssumption == maxFiles \in Nat \ {0}
ASSUME EmailsAssumption == Internal \subseteq Emails /\ NULL \notin Emails
ASSUME SeedAssumption ==
  /\ category # business /\ {category, business} \cap Titles = {}
  /\ foreign \notin Titles \cup {category, business}
  /\ SeedItems \in Seq(Titles \cup {category, business}) /\ TRANSITION_ATTEMPTS \in Nat \ {0}
  /\ NULL \notin (Titles \cup {category, business, foreign}) \X Int
ASSUME NullAssumption ==
  NULL \notin Int /\ NULL \notin {"all", "next", "waiting", "deaf", "resolved", "rejected"}

(* Two parties of a business, in the order of the data.                    *)
SeedData == <<category, business, p1, p2>>

VARIABLES screen,
          x1, x2, x3, x4, x5, x6, x7, x8, x9, x10, x11, x12, x13, x14

vars == <<screen, x1, x2, x3, x4, x5, x6, x7, x8, x9, x10, x11, x12, x13,
  x14>>
After7 == <<x8, x9, x10, x11, x12, x13, x14>>
After8 == <<x9, x10, x11, x12, x13, x14>>
After9 == <<x10, x11, x12, x13, x14>>
After10 == <<x11, x12, x13, x14>>
After12 == <<x13, x14>>
After13 == <<x14>>

CheckIn == INSTANCE CheckIn WITH
  present <- x1, participants <- x2, statusFetch <- x3, statusRead <- x4, statusError <- x5,
  attendanceFilter <- x6, visibleWindow <- x7, selected <- x8, manual <- x9,
  qr <- x10, qrOpen <- x11, notice <- x12, ops <- x13, faults <- x14
QrScanner == INSTANCE QrScanner WITH
  opens <- x1, qrOpen <- x2, phase <- x3,
  stopped <- x4, stream <- x5, cameraError <- x6, scanned <- x7, typed <- x8,
  requests <- x9, observed <- x10
Applications == INSTANCE Applications WITH
  status <- x1,
  applicants <- x2, fetch <- x3, read <- x4, listError <- x5,
  visibleCount <- x6, selectedApplicant <- x7, rejecting <- x8, reason <- x9,
  review <- x10, sent <- x11, faults <- x12
Form(Where, MaxYear, MaxEdits, MaxSearches, MaxSaves) == INSTANCE PartyForm WITH
  Places <- Where, year <- x1, mode <- x2, party <- x3, loaded <- x4, form <- x5,
  filled <- x6, placeResults <- x7, searches <- x8, save <- x9,
  navigating <- x10, edits <- x11, searched <- x12, saves <- x13
ASSUME LoadedAssumption ==
  NULL \notin [party : Form(Places, EditYear, EditEdits, EditSearches, EditSaves)!PartyRecord,
               year : Int] \cup
              [party : Form({}, CreateYear, CreateEdits, 0, CreateSaves)!PartyRecord, year : Int]
Image == INSTANCE ImageUploader WITH
  Single <- TRUE, maxFiles <- 1, MaxChoices <- 3, value <- x1, choices <- x2,
  uploading <- x3, frame <- x4, focused <- x5, due <- x6, chosen <- x7
Images == INSTANCE ImageUploader WITH
  Single <- FALSE, value <- x1, choices <- x2, uploading <- x3, frame <- x4, focused <- x5, due <- x6,
  chosen <- x7
PartyList == INSTANCE PartyList WITH
  book <- x1, tab <- x2, lists <- x3, index <- x4, asks <- x5, focus <- x6,
  handoff <- x7, moves <- x8, faults <- x9

Editor == INSTANCE ConsoleEditor WITH
  mode <- x1, field <- x2, server <- x3, before <- x4, value <- x5,
  touched <- x6, stage <- x7, request <- x8, others <- x9
Wizard == INSTANCE EmailWizard WITH
  MaxMoves <- WizardMoves, MaxFaults <- WizardFaults, flow <- x1, session <- x2, ready <- x3,
  step <- x4, email <- x5, setupToken <- x6, expiresHint <- x7, typed <- x8,
  request <- x9, code <- x10, token <- x11, account <- x12, moves <- x13,
  faults <- x14
SigningIn == INSTANCE SignIn WITH
  MaxFaults <- ScriptFaults, google <- x1, gisLoader <- x2, apple <- x3, page <- x4, rendered <- x5, loading <- x6,
  flows <- x7, generation <- x8, signedIn <- x9, nonces <- x10,
  visits <- x11, begun <- x12, faults <- x13
Market == INSTANCE SeedMarket WITH
  Category <- category, Business <- business, Parties <- Titles,
  Foreign <- foreign, MaxRuns <- MarketRuns, MaxFaults <- MarketFaults, MaxMoves <- MarketMoves,
  platform <- x1, businesses <- x2, parties <- x3, extras <- x4,
  catalog <- x5, admin <- x6, ledger <- x7, run <- x8, last <- x9,
  now <- x10, runs <- x11, faults <- x12, moves <- x13
Registering == INSTANCE SeedParties WITH
  Items <- SeedItems, Categories <- {category}, Parties <- Titles,
  MaxRuns <- SeedRuns, MaxFaults <- SeedFaults, MaxMoves <- SeedMoves, server <- x1, ledger <- x2, run <- x3,
  last <- x4, lost <- x5, runs <- x6, faults <- x7, moves <- x8
Navigation == INSTANCE Navigation WITH
  shown <- x1, target <- x2, due <- x3, status <- x4, role <- x5,
  cookie <- x6, hops <- x7, events <- x8
ASSUME NavigationAssumption == Navigation!Parameters
ASSUME RunAssumption == NULL \notin Registering!Runs

OnCheckIn(A) == screen = "check-in" /\ A /\ UNCHANGED <<screen>>
OnQrScanner(A) == screen = "scanner" /\ A /\ UNCHANGED <<screen, After10>>
OnApplications(A) == screen = "applications" /\ A /\ UNCHANGED <<screen, After12>>
OnEdit(A) == screen = "edit" /\ A /\ UNCHANGED <<screen, After13>>
OnCreate(A) == screen = "create" /\ A /\ UNCHANGED <<screen, After13>>
OnImage(A) == screen = "image" /\ A /\ UNCHANGED <<screen, After7>>
OnImages(A) == screen = "images" /\ A /\ UNCHANGED <<screen, After7>>
OnPartyList(A) == screen = "list" /\ A /\ UNCHANGED <<screen, After9>>
OnEditor(A) == screen = "editor" /\ A /\ UNCHANGED <<screen, After9>>
OnWizard(A) == screen = "email" /\ A /\ UNCHANGED <<screen>>
OnSigningIn(A) == screen = "sign-in" /\ A /\ UNCHANGED <<screen, After13>>
OnNavigation(A) == screen = "navigation" /\ A /\ UNCHANGED <<screen, After8>>
OnMarket(A) == screen = "market" /\ A /\ UNCHANGED <<screen, After13>>
OnRegistering(A) == screen = "parties" /\ A /\ UNCHANGED <<screen, After8>>

Idle13 == x14 = NULL
Idle12 == x13 = NULL /\ Idle13
Idle10 == x11 = NULL /\ x12 = NULL /\ Idle12
Idle9 == x10 = NULL /\ Idle10
Idle8 == x9 = NULL /\ Idle9
Idle7 == x8 = NULL /\ Idle8

Init ==
  \/ screen = "check-in" /\ CheckIn!Init
  \/ screen = "scanner" /\ QrScanner!Init /\ Idle10
  \/ screen = "applications" /\ Applications!Init /\ Idle12
  \/ /\ screen = "edit" /\ Idle13
     /\ Form(Places, EditYear, EditEdits, EditSearches, EditSaves)!Init
     /\ Form(Places, EditYear, EditEdits, EditSearches, EditSaves)!Editing
  \/ /\ screen = "create" /\ Idle13
     /\ Form({}, CreateYear, CreateEdits, 0, CreateSaves)!Init
     /\ ~Form({}, CreateYear, CreateEdits, 0, CreateSaves)!Editing
  \/ screen = "image" /\ Image!Init /\ Idle7
  \/ screen = "images" /\ Images!Init /\ Idle7
  \/ screen = "list" /\ PartyList!Init /\ Idle9
  \/ screen = "editor" /\ Editor!Init /\ Idle9
  \/ screen = "email" /\ Wizard!Init
  \/ screen = "sign-in" /\ SigningIn!Init /\ Idle13
  \/ screen = "navigation" /\ Navigation!Init /\ Idle8
  \/ screen = "market" /\ Market!Init /\ Idle13
  \/ screen = "parties" /\ Registering!Init /\ Idle8

Next ==
  \/ OnCheckIn(CheckIn!Next)
  \/ OnQrScanner(QrScanner!Next)
  \/ OnApplications(Applications!Next)
  \/ OnEdit(Form(Places, EditYear, EditEdits, EditSearches, EditSaves)!Next)
  \/ OnCreate(Form({}, CreateYear, CreateEdits, 0, CreateSaves)!Next)
  \/ OnImage(Image!Next)
  \/ OnImages(Images!Next)
  \/ OnPartyList(PartyList!Next)
  \/ OnEditor(Editor!Next)
  \/ OnWizard(Wizard!Next)
  \/ OnSigningIn(SigningIn!Next)
  \/ OnNavigation(Navigation!Next)
  \/ OnMarket(Market!Next)
  \/ OnRegistering(Registering!Next)

(* The screen stays, so a condition on several pages is one on each.  The  *)
(* requests of a page are answered, its effects and frames run; who has    *)
(* begun to sign up or in goes on (Persist), the popups of a sign-in are   *)
(* answered or closed, and a script runs on.  The middleware answers,      *)
(* React runs due effects, and a boot ends (shown of the code in           *)
(* AdminSession).                                                          *)
Fairness ==
  /\ WF_vars(\/ OnCheckIn(CheckIn!Requests) \/ OnApplications(Applications!Reads)
             \/ OnImage(Image!Network) \/ OnImages(Images!Network) \/ OnPartyList(PartyList!Scan)
             \/ OnWizard(Wizard!Boot) \/ OnSigningIn(SigningIn!AppleLoads)
             \/ OnRegistering(Registering!GoesOn) \/ OnNavigation(Navigation!Edge))
  /\ WF_vars(\/ OnCheckIn(CheckIn!StatusReads) \/ OnApplications(Applications!Answered)
             \/ OnImage(Image!Frame) \/ OnWizard(Wizard!fetchBootstrapStatus)
             \/ OnSigningIn(SigningIn!GoesOn(1)) \/ OnNavigation(Navigation!Effect))
  /\ WF_vars(\/ OnCheckIn(CheckIn!StatusAnswered) \/ OnApplications(Applications!onSuccess)
             \/ OnWizard(Wizard!Serve) \/ OnSigningIn(SigningIn!GoesOn(2))
             \/ OnNavigation(Navigation!BootVerdict))
  /\ \A r \in QrScanner!Runs : WF_vars(OnQrScanner(QrScanner!Camera(r)))
  /\ \A l \in PartyList!Lifecycles :
       WF_vars(OnPartyList(PartyList!PageArrives(l))) /\ WF_vars(OnPartyList(PartyList!ListArrives(l)))
  /\ WF_vars(OnWizard(Wizard!EmailDone) \/ OnSigningIn(SigningIn!GoesOn(3)))
  /\ WF_vars(OnWizard(Wizard!ResendDone)) /\ WF_vars(OnWizard(Wizard!CodeDone))
  /\ WF_vars(OnWizard(Wizard!PasswordDone)) /\ WF_vars(OnWizard(Wizard!Restart))
  /\ WF_vars(OnWizard(Wizard!Refused)) /\ WF_vars(OnWizard(Wizard!Persist))

Spec == Init /\ [][Next]_vars /\ Fairness

-----------------------------------------------------------------------------
(* The middleware goes by the cookie, the pages by the provider's verdict, *)
(* and yet the two never bounce an administrator: between two events there *)
(* are at most MaxHops redirects, whatever they say (src/src/middleware.ts *)
(* and the guards).                                                        *)
FewRedirects ==
  screen = "navigation" => Navigation!TypeOK /\ Navigation!FewRedirects

(* When the user and the others leave it alone, the tab comes to rest on a *)
(* usable screen, not on a spinner or on "moving", whatever was refused,   *)
(* revoked or signed in elsewhere; provided that the cookie never goes     *)
(* unnoticed, which can strand the tab on "moving" (see the README).       *)
RestsOnUsableScreen ==
  [](screen = "navigation" => ~Navigation!CookieGoneUnnoticed)
    => <>[](screen = "navigation" => Navigation!UsableScreen)

(* At the door: the notice names nobody the server has not checked in, a   *)
(* closed scanner holds no camera, and one opening of it checks in one     *)
(* token at most.                                                          *)
DoorIsTrue ==
  /\ screen = "check-in" => CheckIn!TypeOK /\ CheckIn!NoticeIsTrue
  /\ screen = "scanner" =>
       QrScanner!TypeOK /\ QrScanner!CameraReleased /\ QrScanner!OneTokenPerRun

(* What is sent and what is said is what the operator made of it: a party  *)
(* goes out with its times and ages in order, with one place, and as it    *)
(* was unless it was edited; a list is called empty only when it is.       *)
FormIsKept ==
  /\ screen = "edit" =>
       /\ Form(Places, EditYear, EditEdits, EditSearches, EditSaves)!TypeOK
       /\ Form(Places, EditYear, EditEdits, EditSearches, EditSaves)!SentInOrder
       /\ Form(Places, EditYear, EditEdits, EditSearches, EditSaves)!UneditedStays
       /\ Form(Places, EditYear, EditEdits, EditSearches, EditSaves)!PlaceIsOne
  /\ screen = "create" =>
       /\ Form({}, CreateYear, CreateEdits, 0, CreateSaves)!TypeOK
       /\ Form({}, CreateYear, CreateEdits, 0, CreateSaves)!SentInOrder
  /\ screen = "images" => Images!TypeOK
  /\ screen = "list" => PartyList!TypeOK /\ PartyList!EmptyIsTrue
  /\ screen = "applications" => Applications!TypeOK

(* No answer takes away what it is not about: the sheet over another       *)
(* applicant, an image that was stored, a page between two others, the     *)
(* focus, or the window of another filter.                                 *)
NothingIsLost ==
  [][/\ screen = "check-in" => CheckIn!WindowPerFilter
     /\ screen = "applications" => Applications!SheetStays
     /\ screen = "images" => Images!StoredIsKept
     /\ screen = "list" => PartyList!NothingSkipped /\ PartyList!PageHasFocus]_vars

(* Every page comes to rest on the truth: who was named is shown as in,    *)
(* who was decided leaves the list, an upload ends and hands on the focus, *)
(* a live camera is scanned, and a search ends.                            *)
PagesCatchUp ==
  /\ \A p \in People :
       (screen = "check-in" /\ CheckIn!Named(p)) ~> (screen = "check-in" => CheckIn!ShownIn(p))
  /\ \A a \in Applicants :
       (screen = "applications" /\ Applications!Decided(a))
         ~> (screen = "applications" => Applications!Gone(a))
  /\ (screen = "image" /\ Image!FocusOwed) ~> (screen = "image" => Image!FocusIsMoved)
  /\ \A r \in QrScanner!Runs : []<>(screen = "scanner" => QrScanner!ScansOrSays(r))
  /\ (\/ screen = "images" /\ Images!Busy
      \/ screen = "list" /\ PartyList!Searching)
     ~> (/\ screen = "images" => ~Images!Busy
         /\ screen = "list" => PartyList!SearchEnds)

(* What is said to be done is done: the row that was saved has what stood  *)
(* in the form at the press, typed or left alone, the password is set on   *)
(* the account on screen, a sign-in uses its own nonce and locks its own   *)
(* form, the market has one of each name, with its parents and in a whole  *)
(* list, and a run that registers parties notes all it made, makes again   *)
(* only what was lost, opens what it is to open, and leaves alone what     *)
(* others changed.                                                         *)
DoneIsTrue ==
  /\ screen = "editor" =>
       /\ Editor!TypeOK /\ Editor!TypedIsSaved
       /\ Editor!UntouchedStays /\ Editor!ScheduleIsReleased
  /\ screen = "email" => Wizard!TypeOK /\ Wizard!DoneIsTrue
  /\ screen = "sign-in" =>
       /\ SigningIn!TypeOK /\ SigningIn!NonceIsOwn
       /\ SigningIn!LockIsOwn /\ SigningIn!OfferedOnceLoaded
  /\ screen = "market" =>
       /\ Market!TypeOK /\ Market!OneOfEach /\ Market!ParentsFirst
       /\ Market!SnapshotIsWhole /\ Market!MadeIsFound
  /\ screen = "parties" =>
       /\ Registering!TypeOK /\ Registering!DuplicatesWereLost
       /\ Registering!CompletedIsWhole /\ Registering!OthersAreLeftAlone

(* Whoever goes on gets there: through codes that expire, tokens that were *)
(* spent by a completion whose answer was lost and changes of mind, a      *)
(* password is set or an account made; the page does not stay at its       *)
(* question whether sign-up is open, nor the sign-in form locked, and a    *)
(* run of the script ends, however long the projection takes.              *)
FormsComeThrough ==
  /\ <>(screen = "email" => Wizard!Arrived)
  /\ (\/ screen = "email" /\ Wizard!FormIsOwed
      \/ screen = "sign-in" /\ SigningIn!Locked
      \/ screen = "parties" /\ Registering!Running)
     ~> (/\ screen = "email" => ~Wizard!FormIsOwed
         /\ screen = "sign-in" => ~SigningIn!Locked
         /\ screen = "parties" => ~Registering!Running)
=============================================================================
