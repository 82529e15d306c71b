------------------------- MODULE MCMessages_proofs -------------------------
(***************************************************************************)
(* What is proved of the places messages are read and written in, for any  *)
(* mails, folders, addresses and bounds: no list shows a mail that does    *)
(* not belong to it, a mail is posted as the composer shows it, and a      *)
(* reply goes to others.                                                   *)
(*                                                                         *)
(* A mail enters a list in two ways: with a page that was read, which held *)
(* what belonged there when it was read, and keeps it until it is          *)
(* answered; or patched over a mail that was there, and then it is dropped *)
(* where it no longer belongs.  A form is posted with the text of its      *)
(* composer, which is empty until the editor has reported what its HTML    *)
(* holds, and follows it from then on.                                     *)
(***************************************************************************)
EXTENDS MCMessages, TLAPS

-----------------------------------------------------------------------------
(* The console, for any folders, filters and bounds.                       *)

(* It starts with nothing cached.                                          *)
LEMMA ConsoleInit ==
  ASSUME NEW W, NEW B, NEW o \in Nat, NEW e \in Nat, INBOX \in W, FALSE \in B,
         Console(W, B, o, e)!Init
  PROVE  Console(W, B, o, e)!ConsoleInv
<1>1. x1 \in [Received -> Console(W, B, o, e)!Mail]
  <2>1. [folder : {INBOX}, isRead : BOOLEAN] \subseteq Console(W, B, o, e)!Mail
    BY DEF Console!Mail
  <2> QED BY <2>1 DEF Console!Init
<1>2. /\ x7 \in [Console(W, B, o, e)!Listing -> {NULL, "asked"}]
      /\ x7 \in [Console(W, B, o, e)!Listing -> {NULL, "asked", "read"}]
      /\ x14 \in 0..o /\ x15 \in 0..e
  BY DEF Console!Init
<1>3. Console(W, B, o, e)!TypeOK
  BY <1>1, <1>2 DEF Console!Init, Console!TypeOK
<1>4. \A l \in Console(W, B, o, e)!Listing : x5[l] = NULL /\ x7[l] # "read"
  BY <1>2, NullAssumption DEF Console!Init
<1>5. /\ x13 \subseteq Console(W, B, o, e)!Mutations /\ DOMAIN x8 = Console(W, B, o, e)!Listing
      /\ x5 \in [Console(W, B, o, e)!Listing -> Console(W, B, o, e)!Lists \cup {NULL}]
      /\ x9 \in [Received -> Console(W, B, o, e)!Mail \cup {NULL}] /\ x3 = "asked"
  BY DEF Console!Init
<1> QED BY <1>3, <1>4, <1>5 DEF Console!ConsoleInv, Console!ListsMatch

(* What is patched is a mail again.                                        *)
LEMMA PatchedIsMail ==
  ASSUME NEW W, NEW B, NEW o, NEW e, NEW m \in Console(W, B, o, e)!Mail,
         NEW p \in Console(W, B, o, e)!Patches
  PROVE  Console(W, B, o, e)!Patched(m, p) \in Console(W, B, o, e)!Mail
BY DEF Console!Mail, Console!Patches, Console!Patched

(* A page holds the mails that match.                                      *)
LEMMA PageBelongs ==
  ASSUME NEW W, NEW B, NEW o, NEW e, NEW l,
         NEW of \in [Received -> Console(W, B, o, e)!Mail]
  PROVE  Console(W, B, o, e)!Belongs(Console(W, B, o, e)!Page(of, l), l)
BY DEF Console!Belongs, Console!Page, Console!Lists

(* A patch drops the mail from the lists it no longer belongs in.          *)
LEMMA PatchKeepsLists ==
  ASSUME NEW W, NEW B, NEW o, NEW e, Console(W, B, o, e)!ConsoleInv, NEW m \in Received,
         NEW mail \in Console(W, B, o, e)!Mail, NEW L,
         L = Console(W, B, o, e)!updateCachedMailLists(m, mail)
  PROVE  /\ L \in [Console(W, B, o, e)!Listing -> Console(W, B, o, e)!Lists \cup {NULL}]
         /\ \A l \in Console(W, B, o, e)!Listing : L[l] # NULL =>
              \A n \in Received : L[l][n] # NULL => Console(W, B, o, e)!messageMatchesList(L[l][n], l)
<1> DEFINE New(l) == IF x5[l] = NULL \/ x5[l][m] = NULL THEN x5[l]
                     ELSE [x5[l] EXCEPT ![m] =
                             IF Console(W, B, o, e)!messageMatchesList(mail, l) THEN mail ELSE NULL]
<1>1. ASSUME NEW l \in Console(W, B, o, e)!Listing
      PROVE  /\ New(l) \in Console(W, B, o, e)!Lists \cup {NULL}
             /\ New(l) # NULL => \A n \in Received :
                  New(l)[n] # NULL => Console(W, B, o, e)!messageMatchesList(New(l)[n], l)
  <2>1. x5[l] \in Console(W, B, o, e)!Lists \cup {NULL}
    BY DEF Console!ConsoleInv
  <2>2. x5[l] # NULL => \A n \in Received :
          x5[l][n] # NULL => Console(W, B, o, e)!messageMatchesList(x5[l][n], l)
    BY DEF Console!ConsoleInv, Console!ListsMatch
  <2>3. CASE x5[l] = NULL \/ x5[l][m] = NULL
    BY <2>1, <2>2, <2>3
  <2>4. CASE ~(x5[l] = NULL \/ x5[l][m] = NULL)
    <3>1. x5[l] \in [Received -> Console(W, B, o, e)!Mail \cup {NULL}]
      BY <2>1, <2>4 DEF Console!Lists
    <3> QED BY <2>2, <2>4, <3>1 DEF Console!Lists
  <2> QED BY <2>3, <2>4
<1>2. L = [l \in Console(W, B, o, e)!Listing |-> New(l)]
  BY DEF Console!updateCachedMailLists
<1> HIDE DEF New
<1> QED BY <1>1, <1>2

(* The mailbox and the lists are read and answered, or a reading fails.    *)
LEMMA ReadingKeeps ==
  ASSUME NEW W, NEW B, NEW o \in Nat, NEW e \in Nat, Console(W, B, o, e)!ConsoleInv,
         Console(W, B, o, e)!Cache \/ Console(W, B, o, e)!ReadFails \/ Console(W, B, o, e)!RefetchList
  PROVE  Console(W, B, o, e)!ConsoleInv'
<1>1. CASE \/ Console(W, B, o, e)!MailboxReads \/ Console(W, B, o, e)!MailboxAnswered
           \/ Console(W, B, o, e)!MailboxInterval
  BY <1>1, NullAssumption DEF Console!ConsoleInv, Console!TypeOK, Console!ListsMatch,
     Console!MailboxReads, Console!MailboxAnswered, Console!MailboxInterval, Console!Summary,
     Console!remote, Console!listing, Console!console, Console!Belongs
<1>2. ASSUME NEW l \in Console(W, B, o, e)!Listing, Console(W, B, o, e)!ListReads(l)
      PROVE  Console(W, B, o, e)!ConsoleInv'
  <2>1. Console(W, B, o, e)!Belongs(Console(W, B, o, e)!Page(x1, l), l)
    BY PageBelongs DEF Console!ConsoleInv, Console!TypeOK
  <2>2. \A k \in Console(W, B, o, e)!Listing :
         x7'[k] = "read" => Console(W, B, o, e)!Belongs(x8'[k], k)
    BY <1>2, <2>1 DEF Console!ConsoleInv, Console!TypeOK, Console!ListReads
  <2>3. x7' \in [Console(W, B, o, e)!Listing -> {NULL, "asked", "read"}]
        /\ DOMAIN x8' = Console(W, B, o, e)!Listing
    BY <1>2 DEF Console!ConsoleInv, Console!TypeOK, Console!ListReads
  <2> QED
    BY <1>2, <2>2, <2>3 DEF Console!ConsoleInv, Console!TypeOK, Console!ListsMatch,
       Console!ListReads, Console!remote, Console!counters, Console!console
<1>3. ASSUME NEW l \in Console(W, B, o, e)!Listing, Console(W, B, o, e)!ListAnswered(l)
      PROVE  Console(W, B, o, e)!ConsoleInv'
  <2>1. Console(W, B, o, e)!Belongs(x8[l], l)
    BY <1>3 DEF Console!ConsoleInv, Console!ListAnswered
  <2>2. \A k \in Console(W, B, o, e)!Listing :
         x7'[k] = "read" => Console(W, B, o, e)!Belongs(x8'[k], k)
    BY <1>3, NullAssumption DEF Console!ConsoleInv, Console!TypeOK, Console!ListAnswered
  <2>3. x7' \in [Console(W, B, o, e)!Listing -> {NULL, "asked", "read"}]
        /\ DOMAIN x8' = Console(W, B, o, e)!Listing
    BY <1>3 DEF Console!ConsoleInv, Console!TypeOK, Console!ListAnswered
  <2>4. x5' \in [Console(W, B, o, e)!Listing -> Console(W, B, o, e)!Lists \cup {NULL}]
    BY <1>3, <2>1 DEF Console!ConsoleInv, Console!ListAnswered, Console!Belongs
  <2>5. Console(W, B, o, e)!ListsMatch'
    BY <1>3, <2>1 DEF Console!ConsoleInv, Console!ListAnswered, Console!Belongs, Console!ListsMatch
  <2>6. Console(W, B, o, e)!TypeOK'
    BY <1>3, <2>3, <2>4 DEF Console!ConsoleInv, Console!TypeOK,
       Console!ListAnswered, Console!remote, Console!counters, Console!console
  <2> QED
    BY <1>3, <2>2, <2>3, <2>4, <2>5, <2>6 DEF Console!ConsoleInv, Console!ListAnswered,
       Console!counters
<1>4. CASE Console(W, B, o, e)!ReadFails
  <2>1. \A k \in Console(W, B, o, e)!Listing :
         x7'[k] = "read" => Console(W, B, o, e)!Belongs(x8'[k], k)
    BY <1>4, NullAssumption DEF Console!ConsoleInv, Console!TypeOK, Console!ReadFails
  <2>2. x7' \in [Console(W, B, o, e)!Listing -> {NULL, "asked", "read"}]
        /\ DOMAIN x8' = Console(W, B, o, e)!Listing
        /\ x3' \in {NULL, "asked", "read"}
        /\ (x3' = "read" => DOMAIN x4' = W) /\ x15' \in 0..e
    BY <1>4, NullAssumption DEF Console!ConsoleInv, Console!TypeOK, Console!ReadFails
  <2> QED
    BY <1>4, <2>1, <2>2 DEF Console!ConsoleInv, Console!TypeOK, Console!ListsMatch,
       Console!ReadFails, Console!console
<1>5. CASE Console(W, B, o, e)!RefetchList
  <2>1. \A k \in Console(W, B, o, e)!Listing :
         x7'[k] = "read" => Console(W, B, o, e)!Belongs(x8'[k], k)
    BY <1>5 DEF Console!ConsoleInv, Console!TypeOK, Console!RefetchList
  <2>2. x7' \in [Console(W, B, o, e)!Listing -> {NULL, "asked", "read"}]
        /\ DOMAIN x8' = Console(W, B, o, e)!Listing
    BY <1>5 DEF Console!ConsoleInv, Console!TypeOK, Console!RefetchList
  <2> QED
    BY <1>5, <2>1, <2>2 DEF Console!ConsoleInv, Console!TypeOK, Console!ListsMatch,
       Console!RefetchList, Console!remote, Console!counters, Console!console
<1> QED BY <1>1, <1>2, <1>3, <1>4, <1>5 DEF Console!Cache

(* A mutation is sent, applied, answered or lost; other sessions change    *)
(* what they like.                                                         *)
LEMMA MutationsKeep ==
  ASSUME NEW W, NEW B, NEW o \in Nat, NEW e \in Nat, Console(W, B, o, e)!ConsoleInv,
         \/ Console(W, B, o, e)!Server \/ Console(W, B, o, e)!ChangesElsewhere
         \/ \E mu \in x13 : Console(W, B, o, e)!onError(mu)
  PROVE  Console(W, B, o, e)!ConsoleInv'
<1>1. ASSUME NEW mu \in x13, Console(W, B, o, e)!ServerPatches(mu)
      PROVE  Console(W, B, o, e)!ConsoleInv'
  <2> DEFINE next == Console(W, B, o, e)!Patched(x1[mu.id], mu.patch)
  <2>1. mu \in Console(W, B, o, e)!Mutations
    BY DEF Console!ConsoleInv
  <2>2. mu.id \in Received /\ next \in Console(W, B, o, e)!Mail
    <3>1. mu.id \in Received /\ mu.patch \in Console(W, B, o, e)!Patches
      BY <2>1 DEF Console!Mutations
    <3>2. x1[mu.id] \in Console(W, B, o, e)!Mail
      BY <3>1 DEF Console!ConsoleInv, Console!TypeOK
    <3> QED BY <3>1, <3>2, PatchedIsMail
  <2>3. [mu EXCEPT !.result = next] \in Console(W, B, o, e)!Mutations
    <3> HIDE DEF next
    <3> QED BY <2>1, <2>2 DEF Console!Mutations
  <2>4. x1' = [x1 EXCEPT ![mu.id] = next] /\ x13' = (x13 \ {mu}) \cup {[mu EXCEPT !.result = next]}
    BY <1>1 DEF Console!ServerPatches
  <2> HIDE DEF next
  <2>5. x1' \in [Received -> Console(W, B, o, e)!Mail]
        /\ x13' \subseteq Console(W, B, o, e)!Mutations
    BY <2>2, <2>3, <2>4 DEF Console!ConsoleInv, Console!TypeOK
  <2> QED
    BY <1>1, <2>5 DEF Console!ConsoleInv, Console!TypeOK, Console!ListsMatch,
       Console!ServerPatches, Console!counters, Console!listing, Console!console
<1>2. ASSUME NEW mu \in x13, Console(W, B, o, e)!onSuccess(mu)
      PROVE  Console(W, B, o, e)!ConsoleInv'
  <2>1. mu.id \in Received /\ mu.result \in Console(W, B, o, e)!Mail
    <3>1. mu \in Console(W, B, o, e)!Mutations /\ mu.result # NULL
      BY <1>2 DEF Console!ConsoleInv, Console!onSuccess
    <3> QED BY <3>1 DEF Console!Mutations
  <2>2. x5' = Console(W, B, o, e)!updateCachedMailLists(mu.id, mu.result)
    BY <1>2 DEF Console!onSuccess
  <2>3. x5' \in [Console(W, B, o, e)!Listing -> Console(W, B, o, e)!Lists \cup {NULL}]
        /\ Console(W, B, o, e)!ListsMatch'
    BY <2>1, <2>2, PatchKeepsLists DEF Console!ListsMatch
  <2>4. x9' \in [Received -> Console(W, B, o, e)!Mail \cup {NULL}]
    BY <1>2, <2>1 DEF Console!ConsoleInv, Console!onSuccess
  <2>5. x2' = NULL \/ DOMAIN x2' = W
    BY <1>2 DEF Console!ConsoleInv, Console!TypeOK, Console!onSuccess, Console!updateCachedMailbox
  <2>6. /\ x3' \in {NULL, "asked", "read"} /\ (x3' = "read" => DOMAIN x4' = W)
        /\ x6' \subseteq Console(W, B, o, e)!Listing
    BY <1>2 DEF Console!ConsoleInv, Console!TypeOK, Console!onSuccess,
       Console!reconcileMailboxAndStaleLists
  <2>7. x12' \in Received \cup {NULL}
    BY <1>2 DEF Console!ConsoleInv, Console!TypeOK, Console!onSuccess
  <2>8. UNCHANGED <<x1, x7, x8, x10, x11, x14, x15>> /\ x13' \subseteq x13
    BY <1>2 DEF Console!onSuccess, Console!remote
  <2> QED
    BY <2>3, <2>4, <2>5, <2>6, <2>7, <2>8 DEF Console!ConsoleInv, Console!TypeOK
<1>3. ASSUME NEW mu \in x13, Console(W, B, o, e)!onError(mu)
      PROVE  Console(W, B, o, e)!ConsoleInv'
  BY <1>3 DEF Console!ConsoleInv, Console!TypeOK, Console!ListsMatch, Console!onError,
     Console!counters, Console!listing, Console!console
<1>4. CASE Console(W, B, o, e)!ChangesElsewhere
  <2>1. PICK m \in Received, p \in Console(W, B, o, e)!Patches :
          x1' = [x1 EXCEPT ![m] = Console(W, B, o, e)!Patched(x1[m], p)]
    BY <1>4 DEF Console!ChangesElsewhere
  <2>2. Console(W, B, o, e)!Patched(x1[m], p) \in Console(W, B, o, e)!Mail
    BY PatchedIsMail DEF Console!ConsoleInv, Console!TypeOK
  <2>3. x1' \in [Received -> Console(W, B, o, e)!Mail]
    BY <2>1, <2>2 DEF Console!ConsoleInv, Console!TypeOK
  <2> QED
    BY <1>4, <2>3 DEF Console!ConsoleInv, Console!TypeOK, Console!ListsMatch,
       Console!ChangesElsewhere, Console!counters, Console!listing, Console!console
<1> QED BY <1>1, <1>2, <1>3, <1>4 DEF Console!Server

(* Starting a mutation.                                                    *)
LEMMA StartIsSent ==
  ASSUME NEW W, NEW B, NEW o \in Nat, NEW e, Console(W, B, o, e)!ConsoleInv,
         NEW m \in Received, NEW p \in Console(W, B, o, e)!Patches,
         Console(W, B, o, e)!Start(m, p)
  PROVE  x13' \subseteq Console(W, B, o, e)!Mutations /\ x14' \in 0..o
<1>1. PICK q \in Console(W, B, o, e)!findCachedMailMessage(m) :
        x13' = x13 \cup {[serial |-> x14 + 1, id |-> m, patch |-> p, previous |-> q,
                          result |-> NULL]}
  BY DEF Console!Start
<1>2. q \in Console(W, B, o, e)!Mail \cup {NULL}
  BY DEF Console!findCachedMailMessage, Console!ConsoleInv, Console!TypeOK, Console!Lists
<1>3. x14 + 1 \in Nat /\ x14' \in 0..o
  BY DEF Console!Start, Console!ConsoleInv, Console!TypeOK
<1> QED BY <1>1, <1>2, <1>3 DEF Console!Mutations, Console!ConsoleInv

(* The operator selects, changes, and goes to another list.                *)
LEMMA OperatorKeeps ==
  ASSUME NEW W, NEW B, NEW o \in Nat, NEW e \in Nat, Console(W, B, o, e)!ConsoleInv,
         Console(W, B, o, e)!Operator, ~Console(W, B, o, e)!RefetchList
  PROVE  Console(W, B, o, e)!ConsoleInv'
<1>1. ASSUME NEW m \in Received, Console(W, B, o, e)!selectMessage(m)
      PROVE  Console(W, B, o, e)!ConsoleInv'
  <2>1. [isRead |-> TRUE] \in Console(W, B, o, e)!Patches
    BY DEF Console!Patches
  <2>2. x13' \subseteq Console(W, B, o, e)!Mutations /\ x14' \in 0..o
    BY <1>1, <2>1, StartIsSent DEF Console!selectMessage, Console!ConsoleInv, Console!TypeOK
  <2> QED
    BY <1>1, <2>2 DEF Console!ConsoleInv, Console!TypeOK, Console!ListsMatch,
       Console!selectMessage, Console!remote, Console!counters, Console!listing
<1>2. CASE Console(W, B, o, e)!DetailAnswered
  BY <1>2 DEF Console!ConsoleInv, Console!TypeOK, Console!ListsMatch, Console!DetailAnswered,
     Console!DetailView, Console!remote, Console!counters, Console!listing, Console!console
<1>3. CASE Console(W, B, o, e)!Change
  <2>1. x12 \in Received
    BY <1>3 DEF Console!Change, Console!DetailView, Console!ConsoleInv, Console!TypeOK
  <2>2. x13' \subseteq Console(W, B, o, e)!Mutations /\ x14' \in 0..o
    <3>1. CASE Console(W, B, o, e)!Start(x12, [isRead |-> ~x9[x12].isRead])
      <4>1. x9[x12] \in Console(W, B, o, e)!Mail
        BY <1>3, <2>1 DEF Console!Change, Console!DetailView, Console!ConsoleInv
      <4>2. [isRead |-> ~x9[x12].isRead] \in Console(W, B, o, e)!Patches
        BY <4>1 DEF Console!Patches, Console!Mail
      <4> QED BY <2>1, <3>1, <4>2, StartIsSent
    <3>2. ASSUME NEW f \in W, Console(W, B, o, e)!Start(x12, [folder |-> f])
          PROVE  x13' \subseteq Console(W, B, o, e)!Mutations /\ x14' \in 0..o
      <4>1. [folder |-> f] \in Console(W, B, o, e)!Patches
        BY DEF Console!Patches
      <4> QED BY <2>1, <3>2, <4>1, StartIsSent
    <3> QED BY <1>3, <3>1, <3>2 DEF Console!Change
  <2> QED
    BY <1>3, <2>2 DEF Console!ConsoleInv, Console!TypeOK, Console!ListsMatch,
       Console!Change, Console!remote, Console!counters, Console!listing, Console!console
<1>4. ASSUME NEW l \in Console(W, B, o, e)!Listing, Console(W, B, o, e)!Observe(l)
      PROVE  /\ x7' \in [Console(W, B, o, e)!Listing -> {NULL, "asked", "read"}]
             /\ \A k \in Console(W, B, o, e)!Listing : x7'[k] = "read" => x7[k] = "read"
  BY <1>4 DEF Console!Observe, Console!ConsoleInv, Console!TypeOK
<1>5. ASSUME NEW f \in W, Console(W, B, o, e)!selectFolder(f)
      PROVE  Console(W, B, o, e)!ConsoleInv'
  <2>1. [folder |-> f, unread |-> x11] \in Console(W, B, o, e)!Listing
    BY DEF Console!Listing, Console!ConsoleInv, Console!TypeOK
  <2>2. /\ x7' \in [Console(W, B, o, e)!Listing -> {NULL, "asked", "read"}]
        /\ \A k \in Console(W, B, o, e)!Listing : x7'[k] = "read" => x7[k] = "read"
    BY <1>4, <1>5, <2>1 DEF Console!selectFolder
  <2> QED
    BY <1>5, <2>2 DEF Console!ConsoleInv, Console!TypeOK, Console!ListsMatch,
       Console!selectFolder, Console!remote, Console!counters
<1>6. CASE Console(W, B, o, e)!ToggleUnread
  <2>1. [folder |-> x10, unread |-> ~x11] \in Console(W, B, o, e)!Listing
    BY <1>6 DEF Console!Listing, Console!ConsoleInv, Console!TypeOK, Console!ToggleUnread
  <2>2. /\ x7' \in [Console(W, B, o, e)!Listing -> {NULL, "asked", "read"}]
        /\ \A k \in Console(W, B, o, e)!Listing : x7'[k] = "read" => x7[k] = "read"
    BY <1>4, <1>6, <2>1 DEF Console!ToggleUnread
  <2> QED
    BY <1>6, <2>2 DEF Console!ConsoleInv, Console!TypeOK, Console!ListsMatch,
       Console!ToggleUnread, Console!remote, Console!counters
<1> QED BY <1>1, <1>2, <1>3, <1>5, <1>6 DEF Console!Operator

(* Every step of the console.                                              *)
LEMMA ConsoleKeeps ==
  ASSUME NEW W, NEW B, NEW o \in Nat, NEW e \in Nat, Console(W, B, o, e)!ConsoleInv,
         Console(W, B, o, e)!Next
  PROVE  Console(W, B, o, e)!ConsoleInv'
BY ReadingKeeps, MutationsKeep, OperatorKeeps DEF Console!Next, Console!Faulty

-----------------------------------------------------------------------------
(* The composer, for any number of typed recipients and failures.          *)

(* The bounds a composer is opened with, and that none is no composer.     *)
Bounded(t, f) ==
  /\ t \in Nat /\ f \in Nat /\ NULL \notin Composer(t, f)!Composers

(* It starts closed.                                                       *)
LEMMA DeskInit ==
  ASSUME NEW t, NEW f, Bounded(t, f), Composer(t, f)!Init
  PROVE  Composer(t, f)!DeskInv
BY DEF Composer!Init, Composer!DeskInv, Composer!TypeOK, Composer!Mails,
   Composer!PostsWhatIsShown, Composer!BodyAgrees

(* The effect of focus puts it where the panes are, and may keep the wish. *)
LEMMA FocusIsTyped ==
  ASSUME NEW t, NEW f, Composer(t, f)!TypeOK,
         NEW wish \in {NULL, "current-folder", "list-heading", "selected-message",
                       "detail-heading"},
         Composer(t, f)!FocusEffect(wish)
  PROVE  /\ x5' \in {NULL, "current-folder", "list-heading", "selected-message", "detail-heading"}
         /\ x6' \in {"elsewhere", "folders", "list", "detail"}
BY DEF Composer!TypeOK, Composer!FocusEffect, Composer!Anchor

(* The panes: what is selected, moved and focused.                         *)
LEMMA PanesKeep ==
  ASSUME NEW t, NEW f, Bounded(t, f), Composer(t, f)!DeskInv,
         \/ \E m \in Received \cup {SENT} : Composer(t, f)!selectMessage(m)
         \/ Composer(t, f)!Back \/ Composer(t, f)!OpenFolders
         \/ \E d \in {"INBOX", "SENT"} : Composer(t, f)!selectFolder(d)
         \/ Composer(t, f)!submitSearch \/ Composer(t, f)!DetailLoads
         \/ \E m \in x10 : Composer(t, f)!MoveAnswered(m)
  PROVE  Composer(t, f)!DeskInv'
<1>1. /\ x1' \in {"INBOX", "SENT"} /\ x2' \in Received \cup {SENT, NULL}
      /\ x3' \in {"folders", "list", "detail"} /\ x4' \subseteq Received \cup {SENT}
  BY DEF Composer!DeskInv, Composer!TypeOK, Composer!Mails, Composer!selectMessage,
     Composer!Back, Composer!OpenFolders, Composer!selectFolder, Composer!submitSearch,
     Composer!DetailLoads, Composer!MoveAnswered
<1>2. /\ x5' \in {NULL, "current-folder", "list-heading", "selected-message", "detail-heading"}
      /\ x6' \in {"elsewhere", "folders", "list", "detail"}
  <2>1. Composer(t, f)!TypeOK
        /\ x5 \in {NULL, "current-folder", "list-heading", "selected-message", "detail-heading"}
    BY DEF Composer!DeskInv, Composer!TypeOK
  <2> QED
    BY <2>1, FocusIsTyped DEF Composer!selectMessage, Composer!Back, Composer!OpenFolders,
       Composer!selectFolder, Composer!submitSearch, Composer!DetailLoads, Composer!MoveAnswered
<1>3. UNCHANGED <<x7, x8, x9, x11, x12, x13>> /\ x10' \subseteq x10
  BY DEF Composer!selectMessage, Composer!Back, Composer!OpenFolders, Composer!selectFolder,
     Composer!submitSearch, Composer!DetailLoads, Composer!MoveAnswered, Composer!composing
<1> QED
  BY <1>1, <1>2, <1>3 DEF Composer!DeskInv, Composer!TypeOK, Composer!Mails,
     Composer!PostsWhatIsShown, Composer!BodyAgrees

(* What the panes do not change.                                           *)
LEMMA PanesStay ==
  ASSUME NEW t, NEW f, Composer(t, f)!DeskInv, UNCHANGED <<x1, x2, x3, x4, x5, x6>>,
         x7' \subseteq Own, x9' \in {NULL, "loading", "rejected", "ready"},
         (x8' = NULL) = (x9' = NULL), x8' \in Composer(t, f)!Composers \cup {NULL},
         x8' # NULL => x8'.text = IF x9' = "ready" THEN x8'.html ELSE "",
         x10' \subseteq Received \cup {SENT}, x11' \subseteq x11, x12' = x12
  PROVE  Composer(t, f)!DeskInv'
BY DEF Composer!DeskInv, Composer!TypeOK, Composer!Mails, Composer!PostsWhatIsShown,
   Composer!BodyAgrees

(* A composer that is opened says what it is about, and that it is open.   *)
LEMMA OpenIsTyped ==
  ASSUME NEW t, NEW f, Bounded(t, f), Composer(t, f)!DeskInv,
         NEW mode \in Composer(t, f)!Modes, Composer(t, f)!openComposer(mode)
  PROVE  /\ x8' \in Composer(t, f)!Composers /\ x8'.text = "" /\ x9' = "loading"
<1> DEFINE d == Composer(t, f)!detail
<1>1. d \in Received \cup {SENT, NULL} /\ (mode # "new" => d \in Received)
  BY DEF Composer!openComposer, Composer!detail, Composer!DetailOf, Composer!DeskInv,
     Composer!TypeOK, Composer!Mails
<1>2. PICK from \in Composer(t, f)!replySenderAddress(mode, d),
           to \in Composer(t, f)!replyTarget(mode, d) :
        x8' = [mode |-> mode, about |-> d, from |-> from,
               recipients |-> IF to = NULL THEN 0 ELSE 1,
               html |-> IF mode = "forward" THEN "forwarded" ELSE "", text |-> "",
               attached |-> IF mode = "attach" THEN {d} ELSE {}]
  BY DEF Composer!openComposer
<1>3. from \in Own \cup {Mailbox}
  <2>1. x7 \subseteq Own
    BY DEF Composer!DeskInv, Composer!TypeOK
  <2> QED BY <1>2, <2>1 DEF Composer!replySenderAddress
<1>4. x9' = "loading"
  BY DEF Composer!openComposer
<1> HIDE DEF d
<1>5. x8' \in Composer(t, f)!Composers
  BY <1>1, <1>2, <1>3 DEF Composer!Composers, Composer!Modes, Composer!Bodies, Composer!Mails
<1> QED BY <1>2, <1>4, <1>5

(* The composer and what it has sent.                                      *)
LEMMA ComposingKeeps ==
  ASSUME NEW t, NEW f, Bounded(t, f), Composer(t, f)!DeskInv,
         \/ Composer(t, f)!Move \/ \E m \in x10 : Composer(t, f)!MoveFails(m)
         \/ \E mode \in Composer(t, f)!Modes : Composer(t, f)!openComposer(mode)
         \/ Composer(t, f)!EditorLoads \/ Composer(t, f)!EditorFails
         \/ Composer(t, f)!RetryEditor \/ Composer(t, f)!Type \/ Composer(t, f)!Cancel
         \/ \E form \in x11 : Composer(t, f)!SendFails(form)
         \/ Composer(t, f)!SendersChange
  PROVE  Composer(t, f)!DeskInv'
<1> USE DEF Composer!console, Composer!composing
<1>1. /\ x7 \subseteq Own /\ x9 \in {NULL, "loading", "rejected", "ready"}
      /\ (x8 = NULL) = (x9 = NULL) /\ x8 \in Composer(t, f)!Composers \cup {NULL}
      /\ x8 # NULL => x8.text = IF x9 = "ready" THEN x8.html ELSE ""
      /\ x10 \subseteq Received \cup {SENT}
  BY DEF Composer!DeskInv, Composer!TypeOK, Composer!Mails
<1>2. CASE Composer(t, f)!Move
  <2>1. Composer(t, f)!detail \in Received \cup {SENT}
    BY <1>2 DEF Composer!Move, Composer!detail, Composer!DetailOf, Composer!DeskInv,
       Composer!TypeOK, Composer!Mails
  <2> QED BY <1>1, <1>2, <2>1, PanesStay DEF Composer!Move
<1>3. CASE \E m \in x10 : Composer(t, f)!MoveFails(m)
  BY <1>1, <1>3, PanesStay DEF Composer!MoveFails
<1>4. ASSUME NEW mode \in Composer(t, f)!Modes, Composer(t, f)!openComposer(mode)
      PROVE  Composer(t, f)!DeskInv'
  <2>1. x8' \in Composer(t, f)!Composers /\ x8'.text = "" /\ x9' = "loading"
    BY <1>4, OpenIsTyped
  <2>2. x8' # NULL
    BY <2>1 DEF Bounded
  <2> QED BY <1>1, <1>4, <2>1, <2>2, NullAssumption, PanesStay DEF Composer!openComposer
<1>5. CASE Composer(t, f)!EditorLoads
  <2>1. x8 \in Composer(t, f)!Composers /\ x8 # NULL
    BY <1>1, <1>5, NullAssumption DEF Composer!EditorLoads
  <2>2. x8' \in Composer(t, f)!Composers /\ x8'.text = x8'.html
    BY <1>5, <2>1 DEF Composer!EditorLoads, Composer!Composers
  <2>3. x8' # NULL
    BY <2>2 DEF Bounded
  <2>4. x9' = "ready" /\ UNCHANGED <<x1, x2, x3, x4, x5, x6, x7, x10, x11, x12>>
    BY <1>5 DEF Composer!EditorLoads
  <2>5. (x8' = NULL) = (x9' = NULL)
    BY <2>3, <2>4, NullAssumption
  <2> QED BY <1>1, <2>1, <2>2, <2>4, <2>5, PanesStay
<1>6. CASE Composer(t, f)!EditorFails \/ Composer(t, f)!RetryEditor
  BY <1>1, <1>6, NullAssumption, PanesStay DEF Composer!EditorFails, Composer!RetryEditor
<1>7. CASE Composer(t, f)!Type
  <2>1. x8 \in Composer(t, f)!Composers /\ x8 # NULL
    BY <1>1, <1>7 DEF Composer!Type
  <2>2. /\ x8' \in Composer(t, f)!Composers
        /\ x8'.text = IF x9 = "ready" THEN x8'.html ELSE ""
    <3>1. ASSUME NEW n \in 0..t, x8' = [x8 EXCEPT !.recipients = n]
          PROVE  x8' \in Composer(t, f)!Composers /\ x8'.text = x8.text /\ x8'.html = x8.html
      BY <2>1, <3>1 DEF Composer!Composers, Bounded
    <3>2. ASSUME NEW a \in x7, x8' = [x8 EXCEPT !.from = a]
          PROVE  x8' \in Composer(t, f)!Composers /\ x8'.text = x8.text /\ x8'.html = x8.html
      BY <1>1, <2>1, <3>2 DEF Composer!Composers
    <3>3. ASSUME x9 = "ready", x8' = [x8 EXCEPT !.html = "typed", !.text = "typed"]
          PROVE  x8' \in Composer(t, f)!Composers /\ x8'.text = x8'.html
      BY <2>1, <3>3 DEF Composer!Composers, Composer!Bodies
    <3>4. ASSUME x8' = [x8 EXCEPT !.attached = {}]
          PROVE  x8' \in Composer(t, f)!Composers /\ x8'.text = x8.text /\ x8'.html = x8.html
      BY <2>1, <3>4 DEF Composer!Composers
    <3> QED BY <1>1, <1>7, <2>1, <3>1, <3>2, <3>3, <3>4 DEF Composer!Type
  <2>3. x8' # NULL
    BY <2>2 DEF Bounded
  <2> QED BY <1>1, <1>7, <2>1, <2>2, <2>3, PanesStay DEF Composer!Type
<1>8. CASE Composer(t, f)!Cancel
  BY <1>1, <1>8, PanesStay DEF Composer!Cancel
<1>9. CASE (\E form \in x11 : Composer(t, f)!SendFails(form)) \/ Composer(t, f)!SendersChange
  BY <1>1, <1>9, PanesStay DEF Composer!SendFails, Composer!SendersChange
<1>10. CASE \E mode \in Composer(t, f)!Modes : Composer(t, f)!openComposer(mode)
  BY <1>4, <1>10
<1> QED
  BY <1>2, <1>3, <1>5, <1>6, <1>7, <1>8, <1>9, <1>10 DEF Composer!Move, Composer!MoveFails,
     Composer!EditorLoads, Composer!EditorFails, Composer!RetryEditor, Composer!Type,
     Composer!Cancel, Composer!SendFails, Composer!SendersChange

(* A form takes its sender from those that are offered, and its text from  *)
(* the editor that has reported it.                                        *)
LEMMA SubmitKeeps ==
  ASSUME NEW t, NEW f, Bounded(t, f), Composer(t, f)!DeskInv, Composer(t, f)!onSubmit
  PROVE  Composer(t, f)!DeskInv'
<1> DEFINE d == Composer(t, f)!detail
<1>1. d \in Received \cup {SENT, NULL}
  BY DEF Composer!detail, Composer!DetailOf, Composer!DeskInv, Composer!TypeOK, Composer!Mails
<1>2. PICK from \in Composer(t, f)!effectiveFromAddress :
        x12' = [from |-> from, recipients |-> x8.recipients, html |-> x8.html, text |-> x8.text,
                mode |-> x8.mode, about |-> x8.about,
                replyTo |-> IF x8.mode = "reply" THEN d ELSE NULL,
                forwardOf |-> IF x8.mode = "forward" THEN d ELSE NULL,
                attached |-> x8.attached, valid |-> x7]
  BY DEF Composer!onSubmit
<1>3. /\ x8 \in Composer(t, f)!Composers /\ x8.recipients \in 1..MaxRecipients /\ x8.text # ""
      /\ x7 \subseteq Own /\ x8.text = x8.html
  BY DEF Composer!onSubmit, Composer!CanSubmit, Composer!DeskInv, Composer!TypeOK
<1>4. from \in Own \cup {Mailbox} /\ (x7 = {} \/ from \in x7)
  <2>1. x8.from \in Own \cup {Mailbox}
    BY <1>3 DEF Composer!Composers
  <2> QED BY <1>2, <1>3, <2>1 DEF Composer!effectiveFromAddress
<1> HIDE DEF d
<1>5. x12' \in Composer(t, f)!Form
  BY <1>1, <1>2, <1>3, <1>4 DEF Composer!Composers, Composer!Form, Composer!Mails
<1>6. x12'.recipients \in 1..MaxRecipients /\ x12'.text # "" /\ x12'.text = x12'.html
      /\ (x12'.valid = {} \/ x12'.from \in x12'.valid)
  BY <1>2, <1>3, <1>4
<1>7. UNCHANGED <<x1, x2, x3, x4, x5, x6, x7, x8, x9, x10>> /\ x11' = x11 \cup {x12'}
  BY DEF Composer!onSubmit, Composer!console, Composer!composing
<1> QED
  BY <1>5, <1>6, <1>7 DEF Composer!DeskInv, Composer!TypeOK, Composer!PostsWhatIsShown,
     Composer!BodyAgrees

(* The answer closes the composer that is open and may open the mail.      *)
LEMMA AnswerKeeps ==
  ASSUME NEW t, NEW f, Bounded(t, f), Composer(t, f)!DeskInv,
         NEW form \in x11, Composer(t, f)!SendAnswered(form)
  PROVE  Composer(t, f)!DeskInv'
<1>1. /\ x5' \in {NULL, "current-folder", "list-heading", "selected-message", "detail-heading"}
      /\ x6' \in {"elsewhere", "folders", "list", "detail"}
  BY FocusIsTyped DEF Composer!SendAnswered, Composer!DeskInv, Composer!TypeOK
<1> QED
  BY <1>1 DEF Composer!SendAnswered, Composer!DeskInv, Composer!TypeOK, Composer!Mails,
     Composer!PostsWhatIsShown, Composer!BodyAgrees

(* Every step of the composer and its panes.                               *)
LEMMA DeskKeeps ==
  ASSUME NEW t, NEW f, Bounded(t, f), Composer(t, f)!DeskInv, Composer(t, f)!Next
  PROVE  Composer(t, f)!DeskInv'
<1>1. Composer(t, f)!Mails = Received \cup {SENT}
  BY DEF Composer!Mails
<1> QED
  BY <1>1, PanesKeep, ComposingKeeps, SubmitKeeps, AnswerKeeps
  DEF Composer!Next, Composer!Operator, Composer!Answers

-----------------------------------------------------------------------------
(* All of them together.                                                   *)

(* The invariant: each place keeps its own while it is on the screen.      *)
MessagesInv ==
  /\ screen = "unread" => Console({INBOX}, BOOLEAN, UnreadOps, 0)!ConsoleInv
  /\ screen = "folders" => Console(Folders, {FALSE}, FoldersOps, 0)!ConsoleInv
  /\ screen = "clicks" => Console({INBOX}, {FALSE}, ClicksOps, 0)!ConsoleInv
  /\ screen = "elsewhere" => Console({INBOX}, {FALSE}, ElsewhereOps, MaxElse)!ConsoleInv
  /\ screen = "desk" => Composer(MaxTyped, 0)!DeskInv
  /\ screen = "chunk" => Composer(0, MaxFaults)!DeskInv

(* The bounds the places are opened with.                                  *)
LEMMA BoundsAre ==
  /\ {UnreadOps, FoldersOps, ClicksOps, ElsewhereOps, MaxElse} \subseteq Nat /\ 0 \in Nat
  /\ INBOX \in {INBOX} /\ INBOX \in Folders /\ FALSE \in {FALSE} /\ FALSE \in BOOLEAN
  /\ Bounded(MaxTyped, 0) /\ Bounded(0, MaxFaults)
BY MailsAssumption, BoundsAssumption, ComposerAssumption DEF Bounded

(* It holds at the start.                                                  *)
LEMMA MessagesInit == Init => MessagesInv
<1>1. Console({INBOX}, BOOLEAN, UnreadOps, 0)!Init
      => Console({INBOX}, BOOLEAN, UnreadOps, 0)!ConsoleInv
  BY BoundsAre, ConsoleInit
<1>2. Console(Folders, {FALSE}, FoldersOps, 0)!Init
      => Console(Folders, {FALSE}, FoldersOps, 0)!ConsoleInv
  BY BoundsAre, ConsoleInit
<1>3. Console({INBOX}, {FALSE}, ClicksOps, 0)!Init
      => Console({INBOX}, {FALSE}, ClicksOps, 0)!ConsoleInv
  BY BoundsAre, ConsoleInit
<1>4. Console({INBOX}, {FALSE}, ElsewhereOps, MaxElse)!Init
        => Console({INBOX}, {FALSE}, ElsewhereOps, MaxElse)!ConsoleInv
  BY BoundsAre, ConsoleInit
<1>5. Composer(MaxTyped, 0)!Init => Composer(MaxTyped, 0)!DeskInv
  BY BoundsAre, DeskInit
<1>6. Composer(0, MaxFaults)!Init => Composer(0, MaxFaults)!DeskInv
  BY BoundsAre, DeskInit
<1> QED BY <1>1, <1>2, <1>3, <1>4, <1>5, <1>6 DEF Init, MessagesInv

(* A step belongs to the place on the screen, which keeps its own.         *)
LEMMA MessagesKeep == MessagesInv /\ Next => MessagesInv'
<1> SUFFICES ASSUME MessagesInv, Next PROVE MessagesInv'
  OBVIOUS
<1>1. CASE OnUnread(Console({INBOX}, BOOLEAN, UnreadOps, 0)!Next)
  <2>1. Console({INBOX}, BOOLEAN, UnreadOps, 0)!ConsoleInv'
    BY <1>1, BoundsAre, ConsoleKeeps DEF OnUnread, MessagesInv
  <2> QED BY <1>1, <2>1 DEF OnUnread, MessagesInv
<1>2. CASE OnTwoFolders(Console(Folders, {FALSE}, FoldersOps, 0)!Next)
  <2>1. Console(Folders, {FALSE}, FoldersOps, 0)!ConsoleInv'
    BY <1>2, BoundsAre, ConsoleKeeps DEF OnTwoFolders, MessagesInv
  <2> QED BY <1>2, <2>1 DEF OnTwoFolders, MessagesInv
<1>3. CASE OnClicks(Console({INBOX}, {FALSE}, ClicksOps, 0)!Next)
  <2>1. Console({INBOX}, {FALSE}, ClicksOps, 0)!ConsoleInv'
    BY <1>3, BoundsAre, ConsoleKeeps DEF OnClicks, MessagesInv
  <2> QED BY <1>3, <2>1 DEF OnClicks, MessagesInv
<1>4. CASE OnElsewhere(Console({INBOX}, {FALSE}, ElsewhereOps, MaxElse)!Next)
  <2>1. Console({INBOX}, {FALSE}, ElsewhereOps, MaxElse)!ConsoleInv'
    BY <1>4, BoundsAre, ConsoleKeeps DEF OnElsewhere, MessagesInv
  <2> QED BY <1>4, <2>1 DEF OnElsewhere, MessagesInv
<1>5. CASE OnDesk(Composer(MaxTyped, 0)!Next)
  <2>1. Composer(MaxTyped, 0)!DeskInv'
    BY <1>5, BoundsAre, DeskKeeps DEF OnDesk, MessagesInv
  <2> QED BY <1>5, <2>1 DEF OnDesk, MessagesInv
<1>6. CASE OnChunk(Composer(0, MaxFaults)!Next)
  <2>1. Composer(0, MaxFaults)!DeskInv'
    BY <1>6, BoundsAre, DeskKeeps DEF OnChunk, MessagesInv
  <2> QED BY <1>6, <2>1 DEF OnChunk, MessagesInv
<1>7. CASE OnChat(Chat!Next)
  BY <1>7 DEF OnChat, MessagesInv
<1> QED BY <1>1, <1>2, <1>3, <1>4, <1>5, <1>6, <1>7 DEF Next

(* A step that changes nothing keeps it too.                               *)
LEMMA MessagesStay == MessagesInv /\ UNCHANGED vars => MessagesInv'
<1> SUFFICES ASSUME MessagesInv, UNCHANGED vars PROVE MessagesInv'
  OBVIOUS
<1> USE DEF vars
<1>1. ASSUME NEW W, NEW B, NEW o, NEW e
      PROVE  Console(W, B, o, e)!ConsoleInv => Console(W, B, o, e)!ConsoleInv'
  BY DEF Console!ConsoleInv, Console!TypeOK, Console!ListsMatch
<1>2. ASSUME NEW t, NEW f
      PROVE  Composer(t, f)!DeskInv => Composer(t, f)!DeskInv'
  <2>1. Composer(t, f)!TypeOK => Composer(t, f)!TypeOK'
    BY DEF Composer!TypeOK
  <2> QED BY <2>1 DEF Composer!DeskInv, Composer!PostsWhatIsShown, Composer!BodyAgrees
<1> QED BY <1>1, <1>2 DEF MessagesInv

(* Every place keeps its invariant, whichever is on the screen.            *)
THEOREM Invariance == Spec => []MessagesInv
<1>1. MessagesInv /\ [Next]_vars => MessagesInv'
  BY MessagesKeep, MessagesStay
<1> QED BY <1>1, MessagesInit, PTL DEF Spec

(* No cached list shows a mail that does not belong to it, whatever was    *)
(* read, moved, changed elsewhere or patched meanwhile                     *)
(* (updateCachedMailLists, messageMatchesList of MailConsole.tsx).         *)
THEOREM NothingMisplaced == Spec => []ListsMatch
<1>1. MessagesInv => ListsMatch
  BY DEF MessagesInv, ListsMatch, Console!ConsoleInv
<1> QED BY <1>1, Invariance, PTL

(* A mail is posted from an address the mailbox offers, and with a text    *)
(* that is its HTML's (onSubmit, effectiveFromAddress of MailConsole.tsx). *)
THEOREM PostsWhatIsThere == Spec => []PostedAsShown
<1>1. MessagesInv => PostedAsShown
  BY DEF MessagesInv, PostedAsShown, Composer!DeskInv
<1> QED BY <1>1, Invariance, PTL
=============================================================================
