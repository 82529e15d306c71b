---------------------------- MODULE InvitationDesk ----------------------------
(***************************************************************************)
(* The invitations of one business                                         *)
(* (src/src/app/(auth-v2)/app/businesses/[businessId]/invitations/page.tsx *)
(* with src/src/auth/api/admin-invite.api.ts and admin-mail-outbox.api.ts) *)
(* : a list of them, and the newest mails of all businesses from which the *)
(* page takes the last one of each.  How many mails are asked for is the   *)
(* number of invitations, so each number is a query of its own.            *)
(*                                                                         *)
(* The server is external: it mails an invitation when it is made and when *)
(* it is sent again, which cancels the mails before; a worker sends the    *)
(* mails or gives them up.  Mails are numbered, the newest comes first.    *)
(***************************************************************************)
EXTENDS Integers, Sequences, FiniteSets, FiniteSetsExt

CONSTANTS Invitations, \* numbers, in the order in which they are made
          MAX_TAKE,    \* the most mails that are asked for
          MaxMoves,    \* bound: what operators, the worker and the invited do
          MaxFaults,   \* bound: requests that fail
          NULL

InvitationStatus == {"PENDING", "ACCEPTED", "EXPIRED", "REVOKED"}
AuthMailOutboxStatus == {"PENDING", "SENT", "CANCELLED", "DEAD"}

(* What a read of the list finds.                                          *)
Listed == [status : [Invitations -> InvitationStatus \cup {NULL}], changed : [Invitations -> Nat]]

VARIABLES
  server,   \* the state of each invitation, when it last changed, and the mails
  invQuery, \* the list: what is known, the read under way, the last one's error
  outboxQueries, \* the same for each number of mails
  mount,    \* which time the rows have been put on screen
  requests, \* what was asked of rows, and of the card for a new one
  told,     \* of each invitation: its last change the operator was told of, and its
            \* last mail, when the mails were to be read again
  moves, faults

vars == <<server, invQuery, outboxQueries, mount, requests, told, moves, faults>>

Made(d) == {i \in Invitations : d.status[i] # NULL}
invitations(q) == IF q.data = NULL THEN {} ELSE Made(q.data)
rowsShown(q) == q.data # NULL /\ ~q.error
take(q) ==
  LET n == Cardinality(invitations(q)) IN IF n > MAX_TAKE THEN MAX_TAKE ELSE IF n = 0 THEN 1 ELSE n
enabled(q) == invitations(q) # {}
outboxQuery == outboxQueries[take(invQuery)]

(* Mutant: the last row of an invitation is kept. *)
oldestInviteDelivery(i, rows) ==
  LET own == {k \in DOMAIN rows : rows[k].of = i} IN IF own = {} THEN NULL ELSE rows[Max(own)]

latestInviteDeliveryByInvitationId(i, rows) ==
  LET own == {k \in DOMAIN rows : rows[k].of = i} IN IF own = {} THEN NULL ELSE rows[Min(own)]

delivery(i) ==
  IF outboxQuery.data = NULL THEN NULL ELSE latestInviteDeliveryByInvitationId(i, outboxQuery.data)

(* Mutant: a row is free before everything has been read again. *)
busySent(i) == \E r \in requests : r.of = i /\ r.kind # "create" /\ r.mount = mount /\ r.state = "sent"

busy(i) == \E r \in requests : r.of = i /\ r.kind # "create" /\ r.mount = mount

creating == \E r \in requests : r.kind = "create"

TypeOK ==
  /\ [status |-> server.status, changed |-> server.changed] \in Listed
  /\ \A k \in DOMAIN server.mails :
       /\ server.mails[k].status \in AuthMailOutboxStatus
       /\ server.mails[k].id = Len(server.mails) - k + 1
  /\ invitations(invQuery) \subseteq Made(server)
  /\ \A t \in 1..MAX_TAKE : outboxQueries[t].data # NULL => Len(outboxQueries[t].data) <= t
  /\ \A i \in Invitations : Cardinality({r \in requests : r.of = i /\ r.kind # "create" /\ r.mount = mount}) <= 1

-----------------------------------------------------------------------------
Moves == moves < MaxMoves /\ moves' = moves + 1 /\ UNCHANGED faults
Steady == UNCHANGED <<moves, faults>>
Fault == faults < MaxFaults /\ faults' = faults + 1 /\ UNCHANGED moves
Ask(q) == [q EXCEPT !.fetch = "asked", !.read = NULL, !.error = q.error /\ q.data # NULL]
Answer(q) == [data |-> q.read, fetch |-> NULL, read |-> NULL, error |-> FALSE, invalidated |-> FALSE]
Fail(q) == [q EXCEPT !.fetch = NULL, !.read = NULL, !.error = TRUE, !.invalidated = TRUE]

(* The list is another one: perhaps other mails are asked for.             *)
Render(list) ==
  /\ invQuery' = list
  /\ mount' = IF rowsShown(invQuery) /\ ~rowsShown(list) THEN mount + 1 ELSE mount
  /\ outboxQueries' =
       IF enabled(list) /\ (~enabled(invQuery) \/ take(list) # take(invQuery))
          /\ outboxQueries[take(list)].fetch = NULL
          /\ (outboxQueries[take(list)].data = NULL \/ outboxQueries[take(list)].invalidated)
       THEN [outboxQueries EXCEPT ![take(list)] = Ask(@)] ELSE outboxQueries

listInvitations ==
  /\ invQuery.fetch = "asked" /\ Steady
  /\ invQuery' = [invQuery EXCEPT !.fetch = "read",
                    !.read = [status |-> server.status, changed |-> server.changed]]
  /\ UNCHANGED <<server, outboxQueries, mount, requests, told>>

ListAnswered ==
  invQuery.fetch = "read" /\ Steady /\ Render(Answer(invQuery)) /\ UNCHANGED <<server, requests, told>>
ListFails ==
  invQuery.fetch # NULL /\ Fault /\ Render(Fail(invQuery)) /\ UNCHANGED <<server, requests, told>>

listMailOutbox(t) ==
  /\ outboxQueries[t].fetch = "asked" /\ Steady
  /\ outboxQueries' = [outboxQueries EXCEPT ![t].fetch = "read",
       ![t].read = SubSeq(server.mails, 1, IF Len(server.mails) < t THEN Len(server.mails) ELSE t)]
  /\ UNCHANGED <<server, invQuery, mount, requests, told>>

OutboxEnds(t, q) ==
  outboxQueries' = [outboxQueries EXCEPT ![t] = q] /\ UNCHANGED <<server, invQuery, mount, requests, told>>
OutboxAnswered(t) ==
  outboxQueries[t].fetch = "read" /\ Steady /\ OutboxEnds(t, Answer(outboxQueries[t]))
OutboxFails(t) ==
  outboxQueries[t].fetch # NULL /\ Fault /\ OutboxEnds(t, Fail(outboxQueries[t]))

(* Mutant: the mails are read again, the list is not. *)
invalidateMails ==
  /\ UNCHANGED invQuery
  /\ outboxQueries' = [t \in 1..MAX_TAKE |->
       IF enabled(invQuery) /\ t = take(invQuery) THEN Ask(outboxQueries[t])
       ELSE [outboxQueries[t] EXCEPT !.invalidated = TRUE]]

(* The list and, of the mails, those on screen are read again.             *)
invalidate ==
  /\ invQuery' = IF invQuery.data = NULL /\ invQuery.fetch # NULL THEN invQuery ELSE Ask(invQuery)
  /\ outboxQueries' = [t \in 1..MAX_TAKE |-> LET q == outboxQueries[t] IN
       IF enabled(invQuery) /\ t = take(invQuery)
       THEN IF q.data = NULL /\ q.fetch # NULL THEN q ELSE Ask(q)
       ELSE [q EXCEPT !.invalidated = TRUE]]

refresh ==
  /\ invQuery.fetch = NULL /\ Moves /\ invalidate
  /\ UNCHANGED <<server, mount, requests, told>>

-----------------------------------------------------------------------------
Request(kind, i, mail) ==
  /\ requests' = requests \cup {[kind |-> kind, of |-> i, mail |-> mail, mount |-> mount,
                                 state |-> "sent", changed |-> 0, mailed |-> 0, id |-> moves]}
  /\ UNCHANGED <<server, invQuery, outboxQueries, mount, told>>

(* Bound: there are no more invitations than numbers for them.              *)
createInvitation == Made(server) # Invitations /\ ~creating /\ Moves /\ Request("create", NULL, NULL)

InviteRow(i) == rowsShown(invQuery) /\ i \in invitations(invQuery) /\ ~busy(i) /\ Moves
statusOf(i) == invQuery.data.status[i]
reprocessOffered(i) == delivery(i) # NULL /\ delivery(i).status = "DEAD"

cancelInvitation(i) == InviteRow(i) /\ statusOf(i) = "PENDING" /\ Request("cancel", i, NULL)
resendInvitation(i) == InviteRow(i) /\ statusOf(i) # "ACCEPTED" /\ Request("resend", i, NULL)
reprocessMailOutbox(i) == InviteRow(i) /\ reprocessOffered(i) /\ Request("reprocess", i, delivery(i).id)

Cancelled(mails, i) == [k \in DOMAIN mails |->
  IF mails[k].of = i /\ mails[k].status # "SENT" THEN [mails[k] EXCEPT !.status = "CANCELLED"] ELSE mails[k]]
Mailed(mails, i) == <<[of |-> i, status |-> "PENDING", id |-> Len(mails) + 1]>> \o mails
Set(s, i, status) == [s EXCEPT !.status[i] = status, !.changed[i] = @ + 1]

(* The invitation r is about, and what the server makes of it; NULL when   *)
(* it refuses.                                                             *)
Subject(r) == IF r.kind = "create" THEN CHOOSE i \in Invitations \ Made(server) :
                                          \A j \in Invitations \ Made(server) : i <= j
              ELSE r.of
Result(r, i) ==
  CASE r.kind = "create" -> [Set(server, i, "PENDING") EXCEPT !.mails = Mailed(@, i)]
    [] r.kind = "resend" /\ server.status[i] # "ACCEPTED" ->
         [Set(server, i, "PENDING") EXCEPT !.mails = Mailed(Cancelled(@, i), i)]
    [] r.kind = "cancel" /\ server.status[i] = "PENDING" ->
         [Set(server, i, "REVOKED") EXCEPT !.mails = Cancelled(@, i)]
    [] r.kind = "reprocess" /\ (\E k \in DOMAIN server.mails :
           server.mails[k].id = r.mail /\ server.mails[k].status = "DEAD") ->
         [server EXCEPT !.mails = [k \in DOMAIN @ |->
           IF @[k].id = r.mail THEN [@[k] EXCEPT !.status = "PENDING"] ELSE @[k]]]
    [] OTHER -> NULL

Serve(r) ==
  /\ r.state = "sent" /\ Steady
  /\ LET i == Subject(r)
         s == Result(r, i)
     IN IF s = NULL
        THEN requests' = (requests \ {r}) \cup {[r EXCEPT !.state = "refused"]} /\ UNCHANGED server
        ELSE /\ server' = s
             /\ requests' = (requests \ {r}) \cup
                  {[r EXCEPT !.state = "ok", !.of = i, !.changed = s.changed[i],
                             !.mailed = IF r.kind \in {"create", "resend"} THEN Len(s.mails) ELSE 0]}
  /\ UNCHANGED <<invQuery, outboxQueries, mount, told>>

(* run, and the card: told, and everything is read again; but the first    *)
(* read of the mails goes on when it is under way.                         *)
Done(r) ==
  /\ r.state = "ok" /\ Steady /\ invalidate
  /\ requests' = (requests \ {r}) \cup {[r EXCEPT !.state = "refreshing"]}
  /\ told' = [told EXCEPT ![r.of] =
       [changed |-> IF r.changed > @.changed THEN r.changed ELSE @.changed,
        mail |-> IF r.mailed > @.mail /\ (outboxQuery.data # NULL \/ outboxQuery.fetch = NULL)
                 THEN r.mailed ELSE @.mail]]
  /\ UNCHANGED <<server, mount>>

Idle == invQuery.fetch = NULL /\ outboxQuery.fetch = NULL

(* Mutant: an action that was refused leaves its row as it is. *)
EndedWell(r) ==
  /\ r.state = "refreshing" /\ Idle
  /\ requests' = requests \ {r} /\ Steady
  /\ UNCHANGED <<server, invQuery, outboxQueries, mount, told>>

(* finally: refused, or what was invalidated has been read.                *)
Ended(r) ==
  /\ r.state = "refused" \/ (r.state = "refreshing" /\ Idle)
  /\ requests' = requests \ {r} /\ Steady
  /\ UNCHANGED <<server, invQuery, outboxQueries, mount, told>>

Lost(r) ==
  /\ r.state \in {"sent", "ok"} /\ Fault /\ requests' = requests \ {r}
  /\ UNCHANGED <<server, invQuery, outboxQueries, mount, told>>

-----------------------------------------------------------------------------
(* The worker, the other businesses, the invited and the days.             *)
OthersAct ==
  /\ Moves
  /\ \/ \E k \in DOMAIN server.mails, s \in {"SENT", "DEAD"} :
          /\ server.mails[k].status = "PENDING"
          /\ server' = [server EXCEPT !.mails[k].status = s]
     \/ server' = [server EXCEPT !.mails = Mailed(@, NULL)]
     \/ \E i \in Invitations, s \in {"ACCEPTED", "EXPIRED"} :
          server.status[i] = "PENDING" /\ server' = Set(server, i, s)
  /\ UNCHANGED <<invQuery, outboxQueries, mount, requests, told>>

Query(fetch) == [data |-> NULL, fetch |-> fetch, read |-> NULL, error |-> FALSE, invalidated |-> FALSE]

Init ==
  /\ \E n \in 0..Cardinality(Invitations) - 1 :
       server = [status |-> [i \in Invitations |-> IF i <= n THEN "PENDING" ELSE NULL],
                 changed |-> [i \in Invitations |-> 0],
                 mails |-> [k \in 1..n |-> [of |-> n - k + 1, status |-> "SENT", id |-> n - k + 1]]]
  /\ invQuery = Query("asked") /\ outboxQueries = [t \in 1..MAX_TAKE |-> Query(NULL)]
  /\ mount = 0 /\ requests = {} /\ told = [i \in Invitations |-> [changed |-> 0, mail |-> 0]]
  /\ moves = 0 /\ faults = 0

Next ==
  \/ listInvitations \/ ListAnswered \/ ListFails \/ refresh
  \/ \E t \in 1..MAX_TAKE : listMailOutbox(t) \/ OutboxAnswered(t) \/ OutboxFails(t)
  \/ createInvitation
  \/ \E i \in Invitations : cancelInvitation(i) \/ resendInvitation(i) \/ reprocessMailOutbox(i)
  \/ \E r \in requests : Serve(r) \/ Done(r) \/ Ended(r) \/ Lost(r)
  \/ OthersAct

Spec == Init /\ [][Next]_vars

(* What the server does without an operator.                               *)
Server == \E r \in requests : Serve(r) \/ Done(r) \/ Ended(r)

-----------------------------------------------------------------------------
(* A row that can be acted on shows its invitation as it is after every    *)
(* action on it that the operator was told of, or is being read again:     *)
(* whatever other rows, or the card, were doing at the same time.          *)
OwnActionIsSeen ==
  rowsShown(invQuery) => \A i \in invitations(invQuery) :
    (~busy(i) /\ invQuery.fetch = NULL) => invQuery.data.changed[i] >= told[i].changed

(* "sending again renews the same invitation, and the mails before are     *)
(* cancelled" (page.tsx:137): once the mails have been read, the one of a  *)
(* row is none from before the sending that its operator was told of; what *)
(* other businesses mail may push it out of what was read, but never lets  *)
(* an older one through.                                                   *)
NoOlderMail ==
  (Idle /\ ~outboxQuery.error) => \A i \in invitations(invQuery) :
    (~busy(i) /\ delivery(i) # NULL) => delivery(i).id >= told[i].mail

(* No row, and not the card, stays locked.                                 *)
ButtonsLocked(i) == busy(i) \/ creating
=============================================================================
