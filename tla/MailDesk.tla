------------------------------ MODULE MailDesk ------------------------------
(***************************************************************************)
(* The mail console as its operator meets it in the compact layout, one    *)
(* pane at a time: which is shown, where the keyboard focus goes, and the  *)
(* composer (ComposeDialog) over the mail that is open, with its editor, a *)
(* chunk that is loaded on demand and can be retried                       *)
(* (RetryableLazyComponent).                                               *)
(*                                                                         *)
(* Mails, addresses and attachments are values; what the cache holds of a  *)
(* mail is MailConsole's.  Every mail here was received: from an outsider, *)
(* or from one of the mailbox's own addresses; to one of these.            *)
(***************************************************************************)
EXTENDS Integers, FiniteSets

CONSTANTS Received,   \* received mails, by id
          FromOf,     \* the addresses each was sent from
          ToOf,       \* the addresses each was sent to
          Own,        \* addresses the mailbox may send from
          Mailbox,    \* its own address
          SENT,       \* the id of the mail a send leaves behind
          MaxRecipients, \* the limit of recipients (50 in the code)
          MaxTyped,   \* bound: recipients that are typed
          MaxFaults,  \* bound: failures and changes of the senders
          NULL

VARIABLES
  folder, selectedId, mobilePane, \* the console
  loaded,      \* mails whose detail is cached
  pendingFocus, focus, \* the wish of an operation, and where the focus is
  senders,     \* the addresses the last answer of the mailbox allows
  composer,    \* the composer, or NULL
  editor,      \* the lazy payload of its editor
  moves,       \* moves under way
  sends,       \* forms under way
  posted,      \* the last form posted
  faults

console == <<folder, selectedId, mobilePane, loaded, pendingFocus, focus>>
composing == <<composer, editor>>
vars == <<folder, selectedId, mobilePane, loaded, pendingFocus, focus, senders,
          composer, editor, moves, sends, posted, faults>>

Mails == Received \cup {SENT}
Modes == {"new", "reply", "forward", "attach"}

(* What the editor holds: nothing, the forwarded mail, the operator's text *)
Bodies == {"", "forwarded", "typed"}

Form == [from : Own \cup {Mailbox}, recipients : Nat, html : Bodies, text : Bodies,
         mode : Modes, about : Mails \cup {NULL},  \* about: the mail it was opened on
         replyTo : Mails \cup {NULL}, forwardOf : Mails \cup {NULL},
         attached : SUBSET Mails, valid : SUBSET Own]  \* valid: the senders then

TypeOK ==
  /\ folder \in {"INBOX", "SENT"} /\ selectedId \in Mails \cup {NULL}
  /\ mobilePane \in {"folders", "list", "detail"} /\ loaded \subseteq Mails
  /\ pendingFocus \in {NULL, "current-folder", "list-heading", "selected-message", "detail-heading"}
  /\ focus \in {"elsewhere", "folders", "list", "detail"}
  /\ senders \subseteq Own
  /\ editor \in {NULL, "loading", "rejected", "ready"}
  /\ (composer = NULL) = (editor = NULL)
  /\ sends \subseteq Form /\ posted \in Form \cup {NULL}
  /\ posted # NULL => posted.recipients \in 1..MaxRecipients /\ posted.text # ""

-----------------------------------------------------------------------------
(* Panes and focus.                                                        *)

(* detail.data: the mail shown, when it is loaded.                         *)
DetailOf(id, cached) == IF id \in cached THEN id ELSE NULL
detail == DetailOf(selectedId, loaded)

(* Where the wish leads in a given state, or nowhere yet.                  *)
Anchor(wish, pane, data) ==
  CASE wish = "current-folder" /\ pane = "folders" -> "folders"
    [] wish \in {"list-heading", "selected-message"} /\ pane = "list" -> "list"
    [] wish = "detail-heading" /\ pane = "detail" /\ data # NULL -> "detail"
    [] OTHER -> NULL

(* Mutant: the effect does not wait for the detail. *)
FocusEffectOnce(wish) ==
  LET anchor == Anchor(wish, mobilePane', DetailOf(selectedId', loaded'))
  IN  IF mobilePane' # mobilePane /\ anchor # NULL
      THEN focus' = anchor /\ pendingFocus' = NULL
      ELSE pendingFocus' = wish /\ focus' = "elsewhere"

(* The effect runs when detail.data, the folder, the pane or the selection *)
(* has changed.                                                            *)
FocusEffect(wish) ==
  LET before == <<detail, folder, mobilePane, selectedId>>
      after == <<DetailOf(selectedId', loaded'), folder', mobilePane', selectedId'>>
      anchor == Anchor(wish, mobilePane', DetailOf(selectedId', loaded'))
  IN  IF before # after /\ anchor # NULL
      THEN focus' = anchor /\ pendingFocus' = NULL
      ELSE /\ pendingFocus' = wish
           /\ focus' = IF mobilePane' # mobilePane THEN "elsewhere" ELSE focus

ConsoleFree == composer = NULL \* the dialog is modal

selectMessage(m) ==
  /\ ConsoleFree /\ mobilePane = "list" /\ m \in Received
  /\ selectedId' = m /\ mobilePane' = "detail"
  /\ UNCHANGED <<folder, loaded, senders, composing, moves, sends, posted, faults>>
  /\ FocusEffect("detail-heading")

DetailLoads ==
  /\ selectedId # NULL /\ selectedId \notin loaded
  /\ loaded' = loaded \cup {selectedId}
  /\ UNCHANGED <<folder, selectedId, mobilePane, senders, composing, moves, sends,
       posted, faults>>
  /\ FocusEffect(pendingFocus)

Back ==
  /\ ConsoleFree /\ mobilePane = "detail" /\ detail # NULL
  /\ mobilePane' = "list"
  /\ UNCHANGED <<folder, selectedId, loaded, senders, composing, moves, sends,
       posted, faults>>
  /\ FocusEffect("selected-message")

OpenFolders ==
  /\ ConsoleFree /\ mobilePane = "list" /\ mobilePane' = "folders"
  /\ UNCHANGED <<folder, selectedId, loaded, senders, composing, moves, sends,
       posted, faults>>
  /\ FocusEffect("current-folder")

selectFolder(f) ==
  /\ ConsoleFree /\ mobilePane = "folders"
  /\ folder' = f /\ selectedId' = NULL /\ mobilePane' = "list"
  /\ UNCHANGED <<loaded, senders, composing, moves, sends, posted, faults>>
  /\ FocusEffect("list-heading")

submitSearch ==
  /\ ConsoleFree /\ mobilePane = "list" /\ selectedId' = NULL
  /\ UNCHANGED <<folder, mobilePane, loaded, senders, composing, moves, sends,
       posted, faults>>
  /\ FocusEffect(pendingFocus)

(* Archive, trash, not spam: sent at once, answered later.                 *)
Move ==
  /\ ConsoleFree /\ mobilePane = "detail" /\ detail # NULL
  /\ moves' = moves \cup {detail}
  /\ UNCHANGED <<console, senders, composing, sends, posted, faults>>

(* The answer closes what is open, whichever mail it was about.            *)
MoveAnswered(m) ==
  /\ m \in moves /\ moves' = moves \ {m}
  /\ selectedId' = NULL /\ mobilePane' = "list"
  /\ UNCHANGED <<folder, loaded, senders, composing, sends, posted, faults>>
  /\ FocusEffect("list-heading")

MoveFails(m) ==
  /\ faults < MaxFaults /\ faults' = faults + 1
  /\ m \in moves /\ moves' = moves \ {m}
  /\ UNCHANGED <<console, senders, composing, sends, posted>>

-----------------------------------------------------------------------------
(* The composer.                                                           *)

replySenderAddress(mode, m) ==
  IF mode # "reply" \/ ToOf[m] \cap senders = {} THEN {Mailbox} ELSE ToOf[m] \cap senders

(* A reply goes to the first address the mail came from that is not ours.  *)
replyTarget(mode, m) ==
  IF mode # "reply" \/ FromOf[m] \subseteq senders THEN {NULL} ELSE FromOf[m] \ senders

openComposer(mode) ==
  /\ ConsoleFree
  /\ IF mode = "new" THEN mobilePane = "folders" /\ senders # {}
     ELSE mobilePane = "detail" /\ detail \in Received
  /\ \E from \in replySenderAddress(mode, detail), to \in replyTarget(mode, detail) :
       composer' = [mode |-> mode, about |-> detail, from |-> from,
                    recipients |-> IF to = NULL THEN 0 ELSE 1,
                    html |-> IF mode = "forward" THEN "forwarded" ELSE "", text |-> "",
                    attached |-> IF mode = "attach" THEN {detail} ELSE {}]
  /\ editor' = "loading"
  /\ UNCHANGED <<console, senders, moves, sends, posted, faults>>

(* The editor reports its content when it is created.                      *)
EditorLoads ==
  /\ editor = "loading" /\ editor' = "ready"
  /\ composer' = [composer EXCEPT !.text = composer.html]
  /\ UNCHANGED <<console, senders, moves, sends, posted, faults>>

EditorFails ==
  /\ faults < MaxFaults /\ faults' = faults + 1
  /\ editor = "loading" /\ editor' = "rejected"
  /\ UNCHANGED <<console, senders, composer, moves, sends, posted>>

(* Mutant: only the boundary is reset; the rejected payload is used again. *)
RetryBoundary ==
  /\ editor = "rejected"
  /\ UNCHANGED vars

(* A retry makes a new payload; a rejected one is never used again.        *)
RetryEditor ==
  /\ editor = "rejected" /\ editor' = "loading"
  /\ UNCHANGED <<console, senders, composer, moves, sends, posted, faults>>

(* The fields, the editor and the attachments.                             *)
Type ==
  /\ composer # NULL
  /\ \/ \E n \in 0..MaxTyped : composer' = [composer EXCEPT !.recipients = n]
     \/ \E a \in senders : composer' = [composer EXCEPT !.from = a]
     \/ /\ editor = "ready"
        /\ composer' = [composer EXCEPT !.html = "typed", !.text = "typed"]
     \/ composer' = [composer EXCEPT !.attached = {}]
  /\ UNCHANGED <<console, senders, editor, moves, sends, posted, faults>>

(* Mutant: the address chosen at first, whatever may be sent from now. *)
chosenFromAddress == {composer.from}

(* The address the select shows and the form posts; the default is the     *)
(* mailbox itself when there are no senders (replySenderAddress).          *)
effectiveFromAddress ==
  IF composer.from \in senders THEN {composer.from}
  ELSE IF senders # {} THEN senders
  ELSE {Mailbox}

(* Mutant: the text is taken from the mail without its editor. *)
SubmitBlind == composer # NULL /\ composer.recipients > 0

CanSubmit ==
  /\ composer # NULL /\ composer.recipients \in 1..MaxRecipients
  /\ composer.text # ""

onSubmit ==
  /\ CanSubmit /\ sends = {} \* isPending disables the button
  /\ \E from \in effectiveFromAddress :
       LET form == [from |-> from, recipients |-> composer.recipients,
                    html |-> composer.html, text |-> composer.text,
                    mode |-> composer.mode, about |-> composer.about,
                    replyTo |-> IF composer.mode = "reply" THEN detail ELSE NULL,
                    forwardOf |-> IF composer.mode = "forward" THEN detail ELSE NULL,
                    attached |-> composer.attached, valid |-> senders]
       IN  posted' = form /\ sends' = sends \cup {form}
  /\ UNCHANGED <<console, senders, composing, moves, faults>>

Cancel ==
  /\ composer # NULL /\ composer' = NULL /\ editor' = NULL
  /\ UNCHANGED <<console, senders, moves, sends, posted, faults>>

(* onSent: the sent mail is opened, and the composer that is open closes,  *)
(* the one that sent it or another.                                        *)
SendAnswered(form) ==
  /\ form \in sends /\ sends' = sends \ {form}
  /\ composer' = NULL /\ editor' = NULL
  /\ \/ folder' = "SENT" /\ selectedId' = SENT /\ mobilePane' = "detail"
     \/ UNCHANGED <<folder, selectedId, mobilePane>> \* queued without a mail
  /\ UNCHANGED <<loaded, senders, moves, posted, faults>>
  /\ FocusEffect(pendingFocus)

SendFails(form) ==
  /\ faults < MaxFaults /\ faults' = faults + 1
  /\ form \in sends /\ sends' = sends \ {form}
  /\ UNCHANGED <<console, senders, composing, moves, posted>>

(* The mailbox is polled: an address may be gone, or the list missing.     *)
SendersChange ==
  /\ faults < MaxFaults /\ faults' = faults + 1
  /\ senders' \in SUBSET Own
  /\ UNCHANGED <<console, composing, moves, sends, posted>>

-----------------------------------------------------------------------------
Init ==
  /\ folder = "INBOX" /\ selectedId = NULL /\ mobilePane = "list" /\ loaded = {}
  /\ pendingFocus = NULL /\ focus = "elsewhere"
  /\ senders = Own /\ composer = NULL /\ editor = NULL
  /\ moves = {} /\ sends = {} /\ posted = NULL /\ faults = 0

Operator ==
  \/ (\E m \in Mails : selectMessage(m)) \/ Back \/ OpenFolders
  \/ (\E f \in {"INBOX", "SENT"} : selectFolder(f)) \/ submitSearch \/ Move
  \/ (\E mode \in Modes : openComposer(mode)) \/ Type \/ onSubmit \/ Cancel
Answers ==
  \/ \E m \in moves : MoveAnswered(m) \/ MoveFails(m)
  \/ \E form \in sends : SendAnswered(form) \/ SendFails(form)

Next == Operator \/ Answers \/ DetailLoads \/ EditorLoads \/ EditorFails
        \/ RetryEditor \/ SendersChange

Spec == Init /\ [][Next]_vars

-----------------------------------------------------------------------------
(* Properties.                                                             *)

(* A form is never posted from an address the mailbox no longer offers, as *)
(* long as it offers any: the select would show another or none.           *)
PostsWhatIsShown == posted # NULL => (posted.valid = {} \/ posted.from \in posted.valid)

(* The text and the HTML of a form are two versions of one body: nothing   *)
(* is sent before the editor has said what it holds.                       *)
BodyAgrees == posted # NULL => posted.text = posted.html

(* Opening a mail in the compact layout takes the focus to its heading, as *)
(* soon as the mail is there.                                              *)
FocusOwed == pendingFocus = "detail-heading" /\ mobilePane = "detail"
FocusArrives == focus = "detail" \/ pendingFocus # "detail-heading"

(* An editor whose chunk could not be loaded comes back in the same        *)
(* composer: a rejected import is not the last word.                       *)
EditorLost == editor = "rejected"
EditorComesBack == editor \in {"ready", NULL}

(* What they rest on: the text of a composer is that of its HTML once the  *)
(* editor is there, and empty before.                                      *)
Composers ==
  [mode : Modes, about : Mails \cup {NULL}, from : Own \cup {Mailbox}, recipients : Nat,
   html : Bodies, text : Bodies, attached : SUBSET Mails]
DeskInv ==
  /\ TypeOK /\ PostsWhatIsShown /\ BodyAgrees
  /\ composer \in Composers \cup {NULL} /\ moves \subseteq Mails
  /\ composer # NULL => composer.text = IF editor = "ready" THEN composer.html ELSE ""
=============================================================================
