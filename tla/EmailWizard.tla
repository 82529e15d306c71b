----------------------------- MODULE EmailWizard -----------------------------
(***************************************************************************)
(* An account by e-mail and code (src/src/components/auth/EmailCodeWizard  *)
(* .tsx): a super administrator signs up (src/src/app/(auth)/signup) or a  *)
(* password is set anew (src/src/app/(auth)/reset-password).  The steps    *)
(* are email, code, password and, for a new password, done.                *)
(*                                                                         *)
(* The server is external: the newest code of an address is good until it  *)
(* has been used, has expired or was guessed at too often; a setup token   *)
(* is good once; an address with an account gets no code to sign up.       *)
(* Whoever uses the wizard reads the code in the mail.                     *)
(***************************************************************************)
EXTENDS Integers

CONSTANTS Emails,
          Internal,  \* those of the domain of the house
          Passwords,
          MaxMoves,  \* bound: steps off the straight way
          MaxFaults, \* bound: lost requests, and codes and tokens that expire
          NULL

VARIABLES
  flow,     \* "signup" or "reset"
  session,  \* the status of the session of this page
  ready,    \* of signup: has the state of the sign-up been asked for
  step, email, setupToken,
  expiresHint, \* is what it says true of the newest code, or of one before
  typed,    \* the password that was last sent
  request,  \* what is under way (busy), or NULL
  code,     \* at the server: is the newest code of an address good
  token,    \* is its setup token good
  account,  \* the password of its account, or NULL
  moves, faults

vars == <<flow, session, ready, step, email, setupToken, expiresHint, typed, request,
          code, token, account, moves, faults>>
server == <<code, token, account>>
page == <<flow, session, ready>>
wizard == <<step, email, setupToken, expiresHint, typed>>

busy == request # NULL
shown == session = "anonymous" /\ (flow = "signup" => ready)
Steady == UNCHANGED <<moves, faults>>

TypeOK ==
  /\ flow \in {"signup", "reset"} /\ session \in {"booting", "anonymous", "authenticated"}
  /\ step \in {"email", "code", "password"} \cup (IF flow = "reset" THEN {"done"} ELSE {})
  /\ email \in Emails \cup {NULL} /\ setupToken \in Emails \cup {NULL}
  /\ (step = "code" => email # NULL) /\ (step = "password" => setupToken = email)
  /\ code \in [Emails -> BOOLEAN] /\ token \in [Emails -> BOOLEAN]
  /\ account \in [Emails -> Passwords \cup {NULL}]

-----------------------------------------------------------------------------
(* The pages around the wizard.                                            *)
Boot ==
  /\ session = "booting" /\ session' \in {"anonymous", "authenticated"} /\ Steady
  /\ UNCHANGED <<flow, ready, wizard, request, server>>

(* Mutant: the question is asked while the session is not known only. *)
statusReadEarly ==
  /\ flow = "signup" /\ session = "booting" /\ ~ready /\ ready' = TRUE /\ Steady
  /\ UNCHANGED <<flow, session, wizard, request, server>>

(* The state of the sign-up has been read, or has not: the wizard is shown *)
(* also when sign-up is closed.                                            *)
fetchBootstrapStatus ==
  /\ flow = "signup" /\ session = "anonymous" /\ ~ready /\ ready' = TRUE /\ Steady
  /\ UNCHANGED <<flow, session, wizard, request, server>>

-----------------------------------------------------------------------------
Send(r) ==
  /\ shown /\ ~busy /\ request' = r
  /\ UNCHANGED <<page, server>>

onEmail(e) ==
  /\ step = "email" /\ (flow = "signup" => e \in Internal)
  /\ Send([kind |-> "request", state |-> "sent", email |-> e]) /\ UNCHANGED wizard

onCode(good) ==
  /\ step = "code" /\ UNCHANGED wizard
  /\ Send([kind |-> "verify", state |-> "sent", email |-> email, good |-> good])

onPassword(p) ==
  /\ step = "password"
  /\ Send([kind |-> "complete", state |-> "sent", token |-> setupToken, password |-> p])
  /\ typed' = p /\ UNCHANGED <<step, email, setupToken, expiresHint>>

resendCode ==
  step = "code" /\ Send([kind |-> "resend", state |-> "sent", email |-> email]) /\ UNCHANGED wizard

changeEmail ==
  /\ step = "code" /\ shown /\ ~busy /\ step' = "email"
  /\ UNCHANGED <<page, email, setupToken, expiresHint, typed, request, server>>

-----------------------------------------------------------------------------
(* The server does what it was sent.  A new code makes the hint about the  *)
(* one before untrue.                                                      *)
Serve ==
  /\ busy /\ request.state = "sent" /\ Steady
  /\ CASE request.kind \in {"request", "resend"} ->
            LET e == request.email
                ok == flow = "signup" => account[e] = NULL IN
            /\ request' = [request EXCEPT !.state = IF ok THEN "ok" ELSE "ADMIN_ACCOUNT_EXISTS"]
            /\ code' = IF ok THEN [code EXCEPT ![e] = TRUE] ELSE code
            /\ expiresHint' = IF ok /\ e = email THEN FALSE ELSE expiresHint
            /\ UNCHANGED <<token, account>>
       [] request.kind = "verify" ->
            LET ok == request.good /\ code[request.email] IN
            /\ request' = [request EXCEPT !.state = IF ok THEN "ok" ELSE "INVALID_OR_EXPIRED_CODE"]
            /\ code' = IF ok THEN [code EXCEPT ![request.email] = FALSE] ELSE code
            /\ token' = IF ok THEN [token EXCEPT ![request.email] = TRUE] ELSE token
            /\ UNCHANGED <<account, expiresHint>>
       [] request.kind = "complete" ->
            LET e == request.token
                ok == token[e] /\ (flow = "signup" => account[e] = NULL) IN
            /\ request' = [request EXCEPT !.state =
                 IF ok THEN "ok" ELSE "INVALID_OR_EXPIRED_SETUP_TOKEN"]
            /\ account' = IF ok THEN [account EXCEPT ![e] = request.password] ELSE account
            /\ token' = [token EXCEPT ![e] = FALSE]
            /\ UNCHANGED <<code, expiresHint>>
  /\ UNCHANGED <<page, step, email, setupToken, typed>>

Expire ==
  /\ faults < MaxFaults /\ faults' = faults + 1 /\ UNCHANGED <<moves, page, wizard, request, account>>
  /\ \E e \in Emails : \/ code[e] /\ code' = [code EXCEPT ![e] = FALSE] /\ UNCHANGED token
                       \/ token[e] /\ token' = [token EXCEPT ![e] = FALSE] /\ UNCHANGED code

Answered(kind, state) ==
  busy /\ request.kind = kind /\ request.state = state /\ request' = NULL /\ UNCHANGED server

EmailDone ==
  /\ Answered("request", "ok") /\ Steady
  /\ email' = request.email /\ step' = "code" /\ expiresHint' = TRUE
  /\ UNCHANGED <<page, setupToken, typed>>

ResendDone == Answered("resend", "ok") /\ Steady /\ UNCHANGED <<page, wizard>>

CodeDone ==
  /\ Answered("verify", "ok") /\ Steady
  /\ setupToken' = request.email /\ step' = "password"
  /\ UNCHANGED <<page, email, expiresHint, typed>>

(* A new account is signed in at once; a new password is not.              *)
PasswordDone ==
  /\ Answered("complete", "ok") /\ Steady
  /\ IF flow = "signup" THEN session' = "authenticated" /\ UNCHANGED step
     ELSE step' = "done" /\ UNCHANGED session
  /\ UNCHANGED <<flow, ready, email, setupToken, expiresHint, typed>>

(* Mutant: a token that is no longer good is kept. *)
RestartNever ==
  /\ Answered("complete", "INVALID_OR_EXPIRED_SETUP_TOKEN") /\ Steady
  /\ UNCHANGED <<page, wizard>>

(* Mutant: the token is given up, the step is not. *)
RestartHere ==
  /\ Answered("complete", "INVALID_OR_EXPIRED_SETUP_TOKEN") /\ Steady
  /\ setupToken' = NULL /\ UNCHANGED <<page, step, email, expiresHint, typed>>

(* The setup token is no longer good: from the beginning.                  *)
Restart ==
  /\ Answered("complete", "INVALID_OR_EXPIRED_SETUP_TOKEN") /\ Steady
  /\ setupToken' = NULL /\ step' = "email" /\ UNCHANGED <<page, email, expiresHint, typed>>

Refused ==
  /\ \/ \E kind \in {"request", "resend"} : Answered(kind, "ADMIN_ACCOUNT_EXISTS")
     \/ Answered("verify", "INVALID_OR_EXPIRED_CODE")
  /\ Steady /\ UNCHANGED <<page, wizard>>

(* Mutant: a completion that was lost is taken for done. *)
LostIsDone ==
  /\ busy /\ faults < MaxFaults /\ faults' = faults + 1 /\ request' = NULL
  /\ step' = IF flow = "reset" /\ request.kind = "complete" THEN "done" ELSE step
  /\ UNCHANGED <<moves, page, email, setupToken, expiresHint, typed, server>>

(* A request, or its answer, is lost: the step stays.                      *)
Lost ==
  /\ busy /\ faults < MaxFaults /\ faults' = faults + 1 /\ request' = NULL
  /\ UNCHANGED <<moves, page, wizard, server>>

-----------------------------------------------------------------------------
Init ==
  /\ flow \in {"signup", "reset"} /\ session = "booting" /\ ready = FALSE
  /\ step = "email" /\ email = NULL /\ setupToken = NULL /\ expiresHint = FALSE
  /\ typed = NULL /\ request = NULL
  /\ code = [e \in Emails |-> FALSE] /\ token = [e \in Emails |-> FALSE]
  /\ IF flow = "reset" THEN account \in [Emails -> Passwords]
     ELSE account = [e \in Emails |-> NULL]
  /\ moves = 0 /\ faults = 0

(* The straight way: the address that was last used, the newest code or    *)
(* another one, a password.                                                *)
Persist ==
  /\ Steady
  /\ \/ \E e \in Internal : (email \in Internal => e = email) /\ onEmail(e)
     \/ (step = "code" /\ code[email] /\ onCode(TRUE))
     \/ (step = "code" /\ ~code[email] /\ resendCode)
     \/ \E p \in Passwords : onPassword(p)

Stray ==
  /\ moves < MaxMoves /\ moves' = moves + 1 /\ UNCHANGED faults
  /\ \/ \E e \in Emails : onEmail(e)
     \/ \E good \in BOOLEAN : onCode(good)
     \/ resendCode \/ changeEmail

Next ==
  \/ Boot \/ fetchBootstrapStatus \/ Persist \/ Stray \/ Serve \/ Expire
  \/ EmailDone \/ ResendDone \/ CodeDone \/ PasswordDone \/ Restart \/ Refused \/ Lost

Spec == Init /\ [][Next]_vars
-----------------------------------------------------------------------------
(* What is said to be done is done: the password that was last sent is the *)
(* one of the account whose address is on screen, and the session that a   *)
(* sign-up ends in is of an account that exists.                           *)
DoneIsTrue ==
  /\ step = "done" => account[email] = typed
  /\ (session = "authenticated" /\ email # NULL) => account[email] = typed

(* Where whoever goes on gets: a password is set anew or an account made.  *)
Arrived ==
  session = "authenticated" \/ step = "done"
    \/ (flow = "signup" /\ \E e \in Emails : account[e] # NULL)

(* The page asks whether sign-up is open.                                  *)
FormIsOwed == session = "anonymous" /\ ~shown

-----------------------------------------------------------------------------
States == {"sent", "ok", "ADMIN_ACCOUNT_EXISTS", "INVALID_OR_EXPIRED_CODE",
           "INVALID_OR_EXPIRED_SETUP_TOKEN"}
Sent ==
  [kind : {"request", "resend"}, state : States, email : Emails]
    \cup [kind : {"verify"}, state : States, email : Emails, good : BOOLEAN]
    \cup [kind : {"complete"}, state : States, token : Emails, password : Passwords]

(* What is under way was sent from the step that is shown, for the address *)
(* on screen; nothing is while no wizard is shown.                         *)
RequestFits ==
  /\ request \in Sent
  /\ request.kind = "request" => step = "email"
  /\ request.kind \in {"verify", "resend"} => step = "code" /\ request.email = email
  /\ request.kind = "complete" =>
       /\ step = "password" /\ request.token = email /\ request.password = typed
       /\ request.state = "ok" => account[email] = typed

(* Inductive.                                                              *)
WizardInv ==
  /\ TypeOK /\ DoneIsTrue /\ (busy => session = "anonymous" /\ RequestFits)
  /\ session = "booting" => step = "email" /\ email = NULL
  /\ step \in {"password", "done"} => email # NULL
=============================================================================
