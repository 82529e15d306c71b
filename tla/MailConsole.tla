---------------------------- MODULE MailConsole ----------------------------
(***************************************************************************)
(* The mail console (src/src/components/mail/MailConsole.tsx) over the     *)
(* query cache it edits: the folder counters of the mailbox, the lists,    *)
(* the opened mail, and the mutations that patch all three when they are   *)
(* answered.  The server's mails change elsewhere too.  The panes, the     *)
(* focus and the composer are in MailDesk.                                 *)
(*                                                                         *)
(* The cache is TanStack's (external): one fetch per key at a time; an     *)
(* answer replaces the data; an invalidation starts a fetch over, unless   *)
(* there is no data yet, when it joins the one under way.                  *)
(***************************************************************************)
EXTENDS Integers, FiniteSets

CONSTANTS Mails,
          Folders,   \* INBOX, ARCHIVE, ... : those a mail can be moved to
          INBOX,
          Filters,   \* of {FALSE, TRUE}: the lists of all mails, and of the unread
          MaxOps,    \* bound: mutations of this tab
          MaxElse,   \* bound: changes elsewhere and failed requests
          NULL

VARIABLES
  mails,    \* the server's mails
  mailbox,  \* the cached counters, or NULL
  mailboxFetch, \* the fetch of the counters under way: "asked", "read" or NULL
  mailboxRead,  \* what that fetch has read
  lists,    \* the cached lists: what each shows of its mails, or NULL
  stale,    \* lists invalidated without a refetch
  listFetch, listRead, \* the fetch of each list and what it has read
  detail,   \* the cached details
  folder, unreadOnly, selectedId, \* the console
  mutations, \* mutations under way
  ops, elsewhere \* bounds

remote == <<mails, elsewhere>>
counters == <<mailbox, mailboxFetch, mailboxRead>>
listing == <<lists, stale, listFetch, listRead>>
console == <<folder, unreadOnly, selectedId>>
vars == <<mails, mailbox, mailboxFetch, mailboxRead, lists, stale, listFetch,
          listRead, detail, folder, unreadOnly, selectedId, mutations, ops,
          elsewhere>>

Mail == [folder : Folders, isRead : BOOLEAN]
Listing == [folder : Folders, unread : Filters]
Patches == [isRead : BOOLEAN] \cup [folder : Folders]

(* What a list holds of a mail: its folder and read state when it was put  *)
(* there, or NULL.                                                         *)
Lists == [Mails -> Mail \cup {NULL}]
NoFetch == [phase |-> NULL]

TypeOK ==
  /\ mails \in [Mails -> Mail]
  /\ mailbox = NULL \/ DOMAIN mailbox = Folders
  /\ mailboxFetch \in {NULL, "asked", "read"}
  /\ \A l \in Listing : lists[l] = NULL \/ lists[l] \in Lists
  /\ stale \subseteq Listing
  /\ listFetch \in [Listing -> {NULL, "asked", "read"}]
  /\ \A m \in Mails : detail[m] \in Mail \cup {NULL}
  /\ folder \in Folders /\ unreadOnly \in Filters
  /\ selectedId \in Mails \cup {NULL}
  /\ ops \in 0..MaxOps /\ elsewhere \in 0..MaxElse

-----------------------------------------------------------------------------
(* Counting and listing.                                                   *)

Summary(of) ==
  [f \in Folders |->
     [total |-> Cardinality({m \in Mails : of[m].folder = f}),
      unread |-> Cardinality({m \in Mails : of[m].folder = f /\ ~of[m].isRead})]]

messageMatchesList(mail, l) == mail.folder = l.folder /\ (l.unread => ~mail.isRead)

Page(of, l) == [m \in Mails |-> IF messageMatchesList(of[m], l) THEN of[m] ELSE NULL]

(* The first cached list that holds the mail, if any does.                 *)
findCachedMailMessage(m) ==
  LET found == {l \in Listing : lists[l] # NULL /\ lists[l][m] # NULL}
  IN  IF found = {} THEN {NULL} ELSE {lists[l][m] : l \in found}

(* Mutant: a mail is updated where it is, also where it no longer belongs. *)
updateInPlace(m, mail) ==
  [l \in Listing |->
     IF lists[l] = NULL \/ lists[l][m] = NULL THEN lists[l]
     ELSE [lists[l] EXCEPT ![m] = mail]]

(* Every list that holds the mail shows its new state, or drops it.        *)
updateCachedMailLists(m, mail) ==
  [l \in Listing |->
     IF lists[l] = NULL \/ lists[l][m] = NULL THEN lists[l]
     ELSE [lists[l] EXCEPT ![m] = IF messageMatchesList(mail, l) THEN mail ELSE NULL]]

Positive(n) == IF n < 0 THEN 0 ELSE n
One(b) == IF b THEN 1 ELSE 0

updateCachedMailbox(previous, next) ==
  IF mailbox = NULL \/ previous = NULL THEN mailbox
  ELSE [f \in Folders |->
          LET left == One(f = previous.folder)
              came == One(f = next.folder)
          IN  [total |-> Positive(mailbox[f].total - left + came),
               unread |-> Positive(mailbox[f].unread - left * One(~previous.isRead)
                                     + came * One(~next.isRead))]]

-----------------------------------------------------------------------------
(* The query cache.                                                        *)

listParams == [folder |-> folder, unread |-> unreadOnly]

(* A fetch reads the server at some moment, and is answered later.         *)
MailboxReads ==
  /\ mailboxFetch = "asked"
  /\ mailboxFetch' = "read" /\ mailboxRead' = Summary(mails)
  /\ UNCHANGED <<remote, mailbox, listing, detail, console, mutations, ops>>

MailboxAnswered ==
  /\ mailboxFetch = "read"
  /\ mailbox' = mailboxRead
  /\ mailboxFetch' = NULL /\ mailboxRead' = NULL
  /\ UNCHANGED <<remote, listing, detail, console, mutations, ops>>

(* Mutant: the counters are fetched once and then only edited. *)
NoInterval == mailbox = NULL /\ mailboxFetch = NULL /\ mailboxFetch' = "asked"
  /\ UNCHANGED <<remote, mailbox, mailboxRead, listing, detail, console,
       mutations, ops>>

(* refetchInterval: every 30 seconds, if no fetch is under way.            *)
MailboxInterval ==
  /\ mailboxFetch = NULL /\ mailboxFetch' = "asked"
  /\ UNCHANGED <<remote, mailbox, mailboxRead, listing, detail, console,
       mutations, ops>>

ListReads(l) ==
  /\ listFetch[l] = "asked"
  /\ listFetch' = [listFetch EXCEPT ![l] = "read"]
  /\ listRead' = [listRead EXCEPT ![l] = Page(mails, l)]
  /\ UNCHANGED <<remote, counters, lists, stale, detail, console, mutations, ops>>

ListAnswered(l) ==
  /\ listFetch[l] = "read"
  /\ lists' = [lists EXCEPT ![l] = listRead[l]]
  /\ stale' = stale \ {l}
  /\ listFetch' = [listFetch EXCEPT ![l] = NULL]
  /\ listRead' = [listRead EXCEPT ![l] = NULL]
  /\ UNCHANGED <<remote, counters, detail, console, mutations, ops>>

(* A read fails; what is cached stays, an error with a retry is shown.     *)
ReadFails ==
  /\ elsewhere < MaxElse /\ elsewhere' = elsewhere + 1
  /\ \/ /\ mailboxFetch # NULL /\ mailboxFetch' = NULL /\ mailboxRead' = NULL
        /\ UNCHANGED <<listFetch, listRead>>
     \/ \E l \in Listing :
          /\ listFetch[l] # NULL
          /\ listFetch' = [listFetch EXCEPT ![l] = NULL]
          /\ listRead' = [listRead EXCEPT ![l] = NULL]
          /\ UNCHANGED <<mailboxFetch, mailboxRead>>
  /\ UNCHANGED <<mails, mailbox, lists, stale, detail, console, mutations, ops>>

(* refetch: the list on the screen, which replaces the fetch under way.    *)
RefetchList ==
  /\ ~(lists[listParams] = NULL /\ listFetch[listParams] # NULL)
  /\ listFetch[listParams] # "asked"
  /\ listFetch' = [listFetch EXCEPT ![listParams] = "asked"]
  /\ listRead' = [listRead EXCEPT ![listParams] = NULL]
  /\ UNCHANGED <<remote, counters, lists, stale, detail, console, mutations, ops>>

(* A list that comes on the screen is fetched if it is missing or stale,   *)
(* and if it is older than staleTime.                                      *)
Observe(l) ==
  LET asked == [listFetch EXCEPT ![l] = IF @ = NULL THEN "asked" ELSE @]
  IN  IF lists[l] = NULL \/ l \in stale THEN listFetch' = asked
      ELSE listFetch' \in {listFetch, asked}

(* The counters are fetched again, the lists when they are next opened.    *)
(* Mutant: the fetch of the counters is asked for without its key. *)
reconcileWrongly == mailboxFetch' = "again" /\ UNCHANGED <<mailboxRead, stale>>

reconcileMailboxAndStaleLists ==
  /\ IF mailbox' = NULL /\ mailboxFetch # NULL
     THEN UNCHANGED <<mailboxFetch, mailboxRead>>
     ELSE mailboxFetch' = "asked" /\ mailboxRead' = NULL
  /\ stale' = {l \in Listing : lists[l] # NULL}

-----------------------------------------------------------------------------
(* Mutations: sent, applied by the server, answered.                       *)

Start(m, patch) ==
  /\ ops < MaxOps /\ ops' = ops + 1
  /\ \E previous \in findCachedMailMessage(m) :
       mutations' = mutations \cup
         {[serial |-> ops + 1, id |-> m, patch |-> patch, previous |-> previous,
           result |-> NULL]}

Patched(mail, patch) ==
  IF "isRead" \in DOMAIN patch THEN [mail EXCEPT !.isRead = patch.isRead]
  ELSE [mail EXCEPT !.folder = patch.folder]

ServerPatches(mu) ==
  /\ mu \in mutations /\ mu.result = NULL
  /\ LET next == Patched(mails[mu.id], mu.patch)
     IN  /\ mails' = [mails EXCEPT ![mu.id] = next]
         /\ mutations' = (mutations \ {mu}) \cup {[mu EXCEPT !.result = next]}
  /\ UNCHANGED <<counters, listing, detail, console, ops, elsewhere>>

onSuccess(mu) ==
  /\ mu \in mutations /\ mu.result # NULL
  /\ detail' = [detail EXCEPT ![mu.id] = IF @ = NULL THEN NULL ELSE mu.result]
  /\ lists' = updateCachedMailLists(mu.id, mu.result)
  /\ mailbox' = updateCachedMailbox(mu.previous, mu.result)
  /\ reconcileMailboxAndStaleLists
  /\ IF "folder" \in DOMAIN mu.patch /\ mu.patch.folder # folder
     THEN selectedId' = NULL ELSE UNCHANGED selectedId
  /\ mutations' = mutations \ {mu}
  /\ UNCHANGED <<remote, listFetch, listRead, folder, unreadOnly, ops>>

onError(mu) ==
  /\ elsewhere < MaxElse /\ elsewhere' = elsewhere + 1
  /\ mu \in mutations
  /\ mutations' = mutations \ {mu}
  /\ UNCHANGED <<mails, counters, listing, detail, console, ops>>

(* Another session reads or moves a mail.                                  *)
ChangesElsewhere ==
  /\ elsewhere < MaxElse /\ elsewhere' = elsewhere + 1
  /\ \E m \in Mails, patch \in Patches :
       mails' = [mails EXCEPT ![m] = Patched(@, patch)]
  /\ UNCHANGED <<counters, listing, detail, console, mutations, ops>>

-----------------------------------------------------------------------------
(* The operator.                                                           *)

(* What the list and the detail pane show.                                 *)
ListView ==
  IF lists[listParams] = NULL
  THEN IF listFetch[listParams] # NULL THEN "pending" ELSE "error"
  ELSE IF \A m \in Mails : lists[listParams][m] = NULL THEN "empty" ELSE "items"

DetailView == IF selectedId = NULL THEN "none"
              ELSE IF detail[selectedId] = NULL THEN "pending" ELSE "mail"

(* Selecting opens the mail and marks it read.  Its detail is fetched; the *)
(* thread below it selects the same way.                                   *)
selectMessage(m) ==
  /\ ListView = "items" /\ lists[listParams][m] # NULL
  /\ selectedId' = m
  /\ IF ~lists[listParams][m].isRead THEN Start(m, [isRead |-> TRUE])
     ELSE UNCHANGED <<mutations, ops>>
  /\ UNCHANGED <<remote, counters, listing, detail, folder, unreadOnly>>

DetailAnswered ==
  /\ DetailView = "pending"
  /\ detail' = [detail EXCEPT ![selectedId] = mails[selectedId]]
  /\ UNCHANGED <<remote, counters, listing, console, mutations, ops>>

(* The buttons over an opened mail: read or unread, archive, not spam,     *)
(* trash.                                                                  *)
Change ==
  /\ DetailView = "mail"
  /\ \/ Start(selectedId, [isRead |-> ~detail[selectedId].isRead])
     \/ \E f \in Folders : Start(selectedId, [folder |-> f])
  /\ UNCHANGED <<remote, counters, listing, detail, console>>

selectFolder(f) ==
  /\ folder' = f /\ selectedId' = NULL
  /\ Observe([folder |-> f, unread |-> unreadOnly])
  /\ UNCHANGED <<remote, counters, lists, stale, listRead, detail, unreadOnly,
       mutations, ops>>

ToggleUnread ==
  /\ (~unreadOnly) \in Filters /\ unreadOnly' = ~unreadOnly
  /\ Observe([folder |-> folder, unread |-> ~unreadOnly])
  /\ UNCHANGED <<remote, counters, lists, stale, listRead, detail, folder,
       selectedId, mutations, ops>>

-----------------------------------------------------------------------------
Init ==
  /\ mails \in [Mails -> [folder : {INBOX}, isRead : BOOLEAN]]
  /\ mailbox = NULL /\ mailboxFetch = "asked" /\ mailboxRead = NULL
  /\ folder = INBOX /\ unreadOnly = FALSE
  /\ lists = [l \in Listing |-> NULL] /\ stale = {}
  /\ listFetch = [l \in Listing |-> IF l = listParams THEN "asked" ELSE NULL]
  /\ listRead = [l \in Listing |-> NULL]
  /\ detail = [m \in Mails |-> NULL]
  /\ selectedId = NULL
  /\ mutations = {} /\ ops = 0 /\ elsewhere = 0

Cache == \/ MailboxReads \/ MailboxAnswered \/ MailboxInterval
         \/ \E l \in Listing : ListReads(l) \/ ListAnswered(l)
Server == \E mu \in mutations : ServerPatches(mu) \/ onSuccess(mu)
Operator == \/ (\E m \in Mails : selectMessage(m)) \/ DetailAnswered \/ Change
            \/ (\E f \in Folders : selectFolder(f))
            \/ ToggleUnread \/ RefetchList
Faulty == ReadFails \/ ChangesElsewhere \/ \E mu \in mutations : onError(mu)

Next == Cache \/ Server \/ Operator \/ Faulty

Spec == Init /\ [][Next]_vars

-----------------------------------------------------------------------------
(* Properties.                                                             *)

(* The counters come back to the truth: whatever was clicked twice, was    *)
(* changed elsewhere or failed, and whichever fetch raced it, they agree   *)
(* with the server again and again.                                        *)
CountersAgree == mailbox = Summary(mails)

(* No list shows a mail that does not belong to it.                        *)
ListsMatch ==
  \A l \in Listing : lists[l] # NULL =>
    \A m \in Mails : lists[l][m] # NULL => messageMatchesList(lists[l][m], l)

(* What it rests on: a page that was read holds what belongs to its list,  *)
(* a reading of the mailbox has a counter for every folder, and the answer *)
(* to a mutation is a mail.                                                *)
Belongs(page, l) ==
  page \in Lists /\ \A m \in Mails : page[m] # NULL => messageMatchesList(page[m], l)
Mutations == [serial : Nat, id : Mails, patch : Patches, previous : Mail \cup {NULL},
              result : Mail \cup {NULL}]
ConsoleInv ==
  /\ TypeOK /\ ListsMatch /\ mutations \subseteq Mutations
  /\ lists \in [Listing -> Lists \cup {NULL}] /\ detail \in [Mails -> Mail \cup {NULL}]
  /\ DOMAIN listRead = Listing
  /\ mailboxFetch = "read" => DOMAIN mailboxRead = Folders
  /\ \A l \in Listing : listFetch[l] = "read" => Belongs(listRead[l], l)
=============================================================================
