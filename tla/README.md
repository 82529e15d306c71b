# Verification of spot-admin

`spot-admin` is the administration web client of a party-booking service: a
Next.js application, nearly all of it in the browser.  Two kinds of
administrators sign in: super administrators, and the administrators of one
business.  The server is not part of the repository.  This directory holds TLA+
models of the client, the TLC runs that check them, and proofs checked by TLAPS.

Paths below are relative to the repository's own `src/` directory (in
PROJECT.json the same file is `src/src/...`; the scripts are `src/scripts/...`).

## 1. The system

### Components, their state and operations

| Component | State | Operations | Correct when |
|---|---|---|---|
| **Session core** `auth/store`, `auth/refresh`, `auth/api/admin-http.ts`, `auth/provider` | token, principal, generation, one shared refresh, per call a tag and a retry; status and administrator of the provider; the query cache | set, refresh, clear, send, 401 → refresh → one retry, boot, login, logout, follow the store | screen = store; an answer for a replaced session changes nothing; nobody inherits data; the spinner ends |
| **API origin failover** `auth/api/admin-api-origin.ts` | remembered host (localStorage), health cache of 30 s | probe, select, remember | credentials go to a recently healthy host of the site; a dead primary does not lock sign-in |
| **Middleware, guards, redirects** `middleware.ts`, `auth/guards` | cookie, `signedOut` marker, status, role | redirects | no redirect loop; the tab rests on a usable screen |
| **Sign-in** `app/(auth)/login`, `auth/oidc` | script loaders, popups, nonces, the lock of the form | load, render, answer, adopt | a sign-in uses its own nonce; the form is unlocked in the end |
| **E-mail wizard** `components/auth/EmailCodeWizard.tsx` | step, code and setup token, hint of expiry | ask, resend, verify, complete | the password is that of the account on screen; who goes on gets there |
| **Chat room** `components/business-mobile/BusinessMobileChatRoom.tsx` | window, read cursor, socket, catch-up, sends with timers | history, frames, catch-up, reconnect, send, retry, mark read | one copy of a message; the read mark passes no gap; sends settle |
| **Mail console** `components/mail` | lists, details and counters in the cache, panes, focus, composer and its lazy editor | read, star, move, fetch, compose, reply, send | lists and counters agree with the server; what is posted is what is shown |
| **Businesses** `app/(auth-v2)/app/businesses` | queries of business, payments, invitations and mails; drafts; locked buttons | lifecycle, payments, invite, resend, revoke, requeue | what the operator was told is not contradicted by the screen |
| **Assignment of administrators** `components/admin/BusinessAdminPicker.tsx` | picker per business, searches page by page | search, more, assign | as above; an old picker locks nothing |
| **Parties** `app/(auth-v2)/app/parties`, `app/_components` | list per lifecycle, party with version, history, applicants, participants, scanner | page, move, review, check in, scan | nothing is moved blindly, no page skipped, nobody is named who is not in |
| **Party form, images** `BusinessMobilePartyForm.tsx`, `party-image-uploader.tsx` | fields, places, uploads | edit, search, save, upload, remove | what is sent is what was typed; stored images stay |
| **Resource console** `components/admin/AdminResourceConsole.tsx` | lists per filter, dialogs, one mutation, forms | page, act, edit, save | rows acted on are read again; a dialog is closed by its own request |
| **Report queue** `app/(super-admin)/super-admin/reports` | list per status, polled counters, dialog | page, decide | no waiting report is passed over |
| **User detail, timeline, behaviour** `features/users`, `features/analytics` | detail and summary queries, timeline per filter, flow per user | act, page, group, request | no hole in the timeline; a flow is of its own user |
| **Analytics** `features/analytics` | grant of Google bound to the session, chosen report, quota, retries, shaping | connect, choose, request, retry, abort, shape | a report is of what was chosen, whole, and its figures mean what they say |
| **Market seed** `scripts/seed-parties.mjs`, `scripts/seed-d1-market.mjs` | ledger file, the run; four databases | create, open, note; insert, rebuild, publish | nothing is made twice but what was lost; one of each name, with its parents, in a whole list |

PROJECT.json lists these and the parts without a model (section 6).

### How they interact

Every call to the server goes through the authenticated fetch, which reads the
store, may wait for the shared refresh, and compares the generation when it goes
on.  The store calls its listeners in the same turn; the provider listens, empties
the query cache and leaves the signed-in screens.  The refresh cookie is shared
by all tabs.  Screens stand behind the middleware and the guards, and keep what
they read in the query cache (TanStack Query, external).  Analytics binds its
grant to the generation of the session.  Two screens of this client meet only
through the session, the cache and the server, so the composition that matters is
a screen with the cache, the answers under way and other operators, and that is
what each screen's module holds.

### What is hard

JavaScript runs to completion, so all interleaving is at the awaits, in timers,
popups and socket frames.  What crosses there is what tests hardly reach: the
session is replaced under a call; a list that was read before an action arrives
after it; an answer closes the dialog that was opened since; a page is awaited
while another list is looked at; an action is done and its answer is lost; the
rows of a report come in another order or not at all.  The list, at its lines, is
under `hazards` in PROJECT.json.

## 2. The modules

### How the modules are put together

One module per component.  `SessionScope` and `ReadCursor` are abstract
specifications, implemented by `AdminSession` (property `ImplementsScope`) and
`ChatRoom` (property `ReadsAsPromised`).  `AdminSession`, `ApiOrigin`
and `ChatRoom` are checked as they are; their cfgs give the constants.

The screens are checked in four *suites*: `MCMessages`, `MCDesks`, `MCPages`,
`MCAnalytics`.  A suite is a sum of components that never act on each
other: `screen` is chosen in `Init`, names the component that takes every step,
and never changes; the variables `x1`, `x2`, ... hold the state of that
component (each is INSTANCEd with its own variables substituted), the rest are
`NULL`.  So the states of a suite are the union of the states of its parts, not
their product, and a property of the suite is the conjunction of the statements
of its parts, each under `screen = "..." =>`.  A module that appears twice in a
suite is instantiated with two sets of constants, each where another case
happens; where the suite is proved about, such a module is one instance with
parameters (`Console(Where, Kinds, Ops, Changes)`, `Form(...)`, `Queue(c)`,
`PartyPage(c)`), so that a lemma about it is stated once.  The same holds of fairness: since one screen alone is
ever enabled, `WF(A \/ B)` over actions of different screens is the weak
fairness of each.

Proofs are in modules of their own, named after the module they extend:
`AdminSession_proofs`, `ChatRoom_proofs` (with the promise of `ReadCursor`),
`MCMessages_proofs`, `MCDesks_proofs`, `MCPages_proofs`, `MCAnalytics_proofs`;
those of `ApiOrigin`, and the lemmas about `Navigation`, which are short, follow the
specification.

The following holds of all screens.  A request is sent, takes effect at the
server, and is answered in three steps, so the answer may be older than what is
known; it may be lost before or after it took effect.  The cache follows what the
code uses of TanStack Query: one fetch per key at a time; a fetch that was not
cancelled writes its answer over whatever is there; an invalidation starts an
active query over, joins its very first read, and marks the others; a mutation
runs the handlers of the render that observed it.  The session is taken as given
(`AdminSession` shows that a replaced session empties the cache).

### SessionScope

Says what the generation counter is *for*, without mentioning it: work is begun
under a scope (`Begin`), may deliver data of that scope (`Deliver`), be dropped
(`Drop`), and is revoked in the very step that replaces the scope (`Replace`).
The code cannot do this, since it cannot recall a request; it tags requests and
compares.

### AdminSession

State and code:

| Variable | Code |
|---|---|
| `app.token`, `.principal`, `.generation` | the three module variables of `admin-auth.store.ts` |
| `app.status`, `.admin` | the provider's React state |
| `app.cache` | the query cache, abstracted to the owners of the data in it |
| `flight` | `refreshPromise`: whether it is probing the origin or sent, the generation it captured, the cookie the browser attached |
| `http[f]` | one `adminFetchJson` call per flow: application requests, the boot's `/me`, the login, the logout; its phase (sent, refreshing, resent, body), its tag, its token |
| `boot` | where `boot()` awaits and the token it captured (`existing`) |
| `cookie` | the owner of the HttpOnly refresh cookie, shared by the tabs |
| `issued` | tokens issued so far (makes tokens distinct) |

An action is everything between two awaits.  `SettleRefresh` is the largest: the
answer is compared with the captured generation, the store is written or cleared,
its listener commits the unauthenticated state, and all waiters (boot and
requests) go on in the same turn.  `Headers`, `NoResponse`, `Body` and
`BodyBroken` are the four ways an `adminFetchJson` call goes on;
`AfterSuccess` and `AfterFailure` are what its caller then does, so that boot's
catch block and logout's `finally` are part of the action.  `Remount` is the reset
of the root error boundary (`global-error.tsx`), after which the module-level
store and the requests under way survive a new provider and query client.

Abstractions, and why they are sound:

- A principal stands for the triple (id, role, businessId) the store compares.
  `Outsiders` are accounts with a role the web does not support.
- Failures are grouped by how the code tells them apart: for the refresh, by
  `assertRefreshFailedUnauthorized`, `isNetworkError` and `isServerError`; for
  other calls, 403 and other 4xx are one group ("refused"), since each of them
  leads boot to the unauthenticated state.
- The headers and body of the refresh answer are one step: nothing in the tab is
  read or written between them, and the generation is compared after the body.
- React renders right after a state change.  (In the browser a render may lag by a
  task; a screen then issues requests that carry the tag current at that moment,
  which is what the fetch compares.)
- Screens that call the fetch are behind `AuthGuard`, so `IssueRequest` needs the
  authenticated status.  Login and logout buttons exist only on their screens.
- The server may answer anything at any time, except that a refresh succeeds only
  with a cookie and that `/me` answers for the owner of the token it was sent.
- `Remount` is taken when the old provider has no boot, login or logout under way.

Bounds: `MaxTokens` caps the tokens the server issues; everything else (retries,
remounts, other tabs) is unbounded, and the generation stays finite because it
only grows with a token or when one is cleared.

### Properties and what could break them

| Property | Hazard |
|---|---|
| `ProviderMatchesStore` | a clear that the provider does not follow, or a state set without the store |
| `TokenMatchesPrincipal` | clearing or rotating one without the other |
| `NoInheritedData` | a cache that survives a change of administrator, or is written by an old request |
| `WaitersHaveAFlight` | a boot or a request waiting for a refresh nobody runs |
| `ImplementsScope` | an answer of a replaced session that is delivered; a replacement the tags do not show |
| `OldRefreshIsInert` | a refresh of the previous session that overwrites or ends the new one |
| `BootEnds`, `RequestsSettle`, `LogoutSignsOut` | a lost continuation; a retry loop; a logout that depends on the server |

### ApiOrigin

`call[c]` is one `selectReachableAdminApiBaseUrl()`; `health` is `healthCache`,
`store` is localStorage (which may be unusable, and may hold a host of an earlier
deployment); `up`, `darkFor` and `steady` are what is true of the hosts and not
known to the code.  An action is the loop from one await to the next: `Start`
reads the remembered host and the clock, `ProbeOk`, `ProbeNotOk` and
`ProbeFails` are the ends of a probe, and `Visit` is the turn of the loop that
follows.  `Tick` lets time pass for entries, probes and hosts alike; it waits for
probes whose timer is due and for callers that have their answer.  Instants are
kept as ages, which are bounded because no call outlasts two probes.

What it takes for granted: a host that is up during a whole probe answers it with
an ok status in time; storage that throws behaves as if it were empty; the names
of the hosts are compared as `registrableSite` does, abstracted to `SameSite`.

| Property | Hazard |
|---|---|
| `ChoosesRecentlyHealthy` | one clock reading per call, entries shared by calls: how stale may trust become? (30 s and one probe; the bound is exact) |
| `FailsOnlyWithoutOrigin` | a dead primary that locks administrators out |
| `SelectionEnds` | a boot or a login that waits on probes forever |
| `CredentialsStayOnSite` | a remembered or configured host that cannot carry the session cookie |

### Navigation

A screen of the suite `MCPages`.  `target` is a navigation on its way to the
middleware (`Edge`), `shown` the page on the screen, and `due` whether its redirecting effect has to run: it is set when the
page is mounted and when the provider's state changes, and not when a navigation
ends on the page that is already shown (`Mounts`).  `AuthGuardEffect`,
`RoleGuardEffect`, `RootEffect` and `HomeEffect` are the four effects.  The
provider is reduced to its verdict, which `AdminSession` models.  One guarded page
stands for all with the same guard; `resetPassword` and `invite` are entry pages
the middleware always lets pass.  Links are followed only from a screen that shows
them.

| Property | Hazard |
|---|---|
| `FewRedirects` | a cookie that is refused, revoked or exchanged makes middleware and pages redirect to each other; at most 5 redirects follow any event |
| `RestsOnUsableScreen` | the tab ends on a spinner or on "moving" |

Two things the code does that the properties leave out, since the repository says
nothing of them.  If another tab logs out while this one still has its token, the
next link leads to `/login` (middleware), the login page replaces it with the home
once, and the middleware answers `/login` again: the page is already mounted, its
effect does not run again, and the screen says "moving" until a reload.  And
while a refused cookie lingers, the link to `/signup`, which has no marker, leads
over `/app` back to the login form.

### ChatRoom and ReadCursor

`ChatRoom` is a window over a log the server orders.  `log`, `floor`
(`clearedBeforeSeq`), `sent`, `frames`, `joined` and `readMark` are the server and
the gateway; `shown` and `locals` the committed and optimistic messages of the
window, `contiguous` and `observed` the cursor refs, `pendingRead`, `readTimer`
and `sendTimers` the timers, `history`, `catchUp`, `older` and `newer` the requests
under way.  A page is read between its request and its answer.  A React commit and
its layout effect are one step with their cause; `near` and `visible` are
`isNearBottom` and `visibilityState`.

| Property | Says | Hazard |
|---|---|---|
| `OneCopy` | a message is never shown both as committed and as a draft | retry of a commit that was late |
| `ReadsAsPromised` | the room implements `ReadCursor`: the cursor passes only messages that were handed to the room or cleared, and nothing beyond it is reported as read | frames, catch-up and history in any order, empty pages |

Two more statements, `ReadOnlyWhenSeen` and `LiveTailIsShown` (what the cursor has
passed is in the window once the window says it is at the live tail), are violated:
see the findings.  `ReadsOnlyReceived` proves of the room what `ReadCursor` promises
of such a reader: nothing is reported as read that it did not get
(`NothingUnreadIsRead`).

### The suite MCMessages

| Module | Its state in the code |
|---|---|
| `MailConsole` (`MailConsole.tsx`, the cache) | `mailbox` the folder counters, `lists`, `detail` the cached mails, a fetch that reads at one moment and is answered at another, mutations that patch all three |
| `MailDesk` (`MailConsole.tsx`, the screen; `RetryableLazyComponent.tsx`) | the pane, `pendingFocus` the wish of an operation and the focus effect over what it depends on, the composer whose senders and original are those of the moment it posts, the lazy editor |
| `ChatRoom` | as above, for its liveness |

| Property | Part | Says |
|---|---|---|
| `ListsMatch` | lists by folder and by the unread filter, two clicks, changes elsewhere | no cached list shows a mail that does not belong to it |
| `PostedAsShown` | composer | no form goes out from an address no longer offered, or with a text and an HTML of different bodies |
| `CatchesUp` | counters | they agree with the server again and again, whatever raced them |
| | focus, editor | the focus reaches the mail that was opened; an editor whose chunk was lost comes back |
| | room | it catches up after every reconnect; a sent message is committed or offered for retry |

### The suite MCDesks

| Module | Its state in the code |
|---|---|
| `BusinessDesk` (`BusinessLifecycleActions.tsx`, `BusinessCommerceConsole.tsx`) | two queries over one business, actions under way with the mount they were made in, the uncontrolled draft with its key |
| `InvitationDesk` (`invitations/page.tsx`) | the list, a query of mails per number of invitations, what was asked of rows and of the card |
| `BusinessAssignment` (`BusinessAdminAssignmentConsole.tsx`, `BusinessAdminPicker.tsx`) | a query per search, the picker of a business, the page whose answer is awaited |
| `UserDetail` (`UserDetailPage.tsx`) | detail with or without summary, the summary's own route, the action under way |
| `ResourceConsole` (`AdminResourceConsole.tsx`, `resource-console`) | a list per filter, the page chosen, who awaits the next page, the dialog, the one mutation |
| `ReportQueue` (`reports/page.tsx`) | a list per tab, polled counters, a dialog that reads one report |
| `PartyDesk` (`parties/[partyId]/page.tsx`, `PartyOperationsPanel.tsx`) | the cached party with its version, its history, moves of several visits; a panel that gives way to the page's error starts anew |

| Property | Part | Says |
|---|---|---|
| `OwnActionIsSeen` | business, invitation, assignment, user, resource, reports | once a desk is at rest it shows nothing from before an action its operator was told of, nor the mail before the last one |
| `ActsOnWhatIsShown` | party | a move is made only from the status that was seen: the version guards it |
| | resource | a dialog waits for its own request and shows its own error |
| | reports | paging through a queue that shrinks passes over no waiting report |
| `NothingElseMoves` | business | what was not typed follows the server, and a draft changes only by typing |
| | user | a profile is not lost to a read in vain; no summary is asked for that came with the detail |
| | resource | a page arrives in the list it was asked for |
| `DesksComeBack` | all | buttons, pickers, skeletons and dialogs are freed; counters, panel and history come to show what is so |

### The suite MCPages

| Module | Its state in the code |
|---|---|
| `CheckIn` (`check-in/page.tsx`) | the cached participants and their fetch, two mutations, the notice, the window extended for one filter |
| `QrScanner` (`CheckInQrScanner.tsx`) | one run per opening: what it waits for, whether it was stopped, whether it holds the camera; the check-in the page waits for |
| `Applications` (`applications/page.tsx`) | the list, the sheet, the dialog with its reason, the one mutation |
| `PartyForm` (`BusinessMobilePartyForm.tsx`) | the fields, filled once; ages on screen and birth years on the wire; places on offer and searches under way |
| `ImageUploader` (`party-image-uploader.tsx`) | choices under way with the value they began with, the frame that moves the focus |
| `PartyList` (`BusinessPartyListPanel.tsx`, `use-cursor-append-focus.ts`) | a list per lifecycle, pages of two tabs that share one, who awaits the next page, the focus |
| `ConsoleEditor` (`AdminResourceConsole.tsx`, `resource-configs`, `ResourceEditorDialog.tsx`) | one field of a form at a time: before, in the form, at the server, with the changes of another operator; the save that is under way, during which the fields can be edited and the buttons not pressed |
| `EmailWizard` (`EmailCodeWizard.tsx`, `signup`, `reset-password`) | the step, the request under way; code, token and account at the server |
| `SignIn` (`login/page.tsx`, `google-gis.tsx`, `apple-signin.ts`) | scripts and promises that outlive the page, sign-ins under way, the lock, the nonces |
| `Navigation` | as above |
| `SeedMarket` (`seed-d1-market.mjs`) | what each database has, the ledger, the run and the statement it is at |
| `SeedParties` (`seed-parties.mjs`) | the resources at the API, the ledger file, the run with the parties it is to open; the process may be killed at any step |

| Property | Part | Says |
|---|---|---|
| `FewRedirects`, `RestsOnUsableScreen` | navigation | as above |
| `DoorIsTrue` | check-in | the notice names nobody the server has not checked in, though dialogs change while it is asked |
| | scanner | a closed scanner holds no camera; one run checks in one scanned token at most |
| `FormIsKept` | form | ages and times go out in order, a party that was not edited goes out as it was, address and place are of one place |
| | list | it is called empty only when no unread page may hold a row |
| `NothingIsLost` | door to list | no answer takes away what it is not about: the sheet over another applicant, a stored image, a page between two others, the focus, the window of another filter |
| `DoneIsTrue` | editor | a saved row has what stood in the form at the press, typed or left alone, although saves fail, their answers are lost and others save the row; a schedule that is emptied is released |
| | wizard | the password that is said to be set is that of the account on screen |
| | sign-in | an identity token is used with the nonce it was asked for, a lock is of this form, a button is offered once its script is there |
| | parties seed | a resource is made twice only where an answer was lost or the process was killed before the ledger was written; a complete run has noted all its targets and opened or held back every party it made; what others changed is left alone |
| | market seed | one of each name, parents before children, the list is read only when whole, what a complete run made is found |
| `PagesCatchUp` | door to list | who was named is shown as in, who was decided leaves the list, an upload ends and hands the focus on, a live camera is scanned or says why not, a search ends |
| `FormsComeThrough` | wizard, sign-in, seeds | who goes on gets a password set, through expired codes and spent tokens; no form stays locked; a run ends although the projection never follows |

What is typed into the editor *after* the press is not claimed to be saved: nobody
sends it, the answer closes the editor over it and says that the save is done
(section 3, leads).

That no page between two others is passed over (`NothingSkipped` of `PartyList`) is
said of a filter whose page is among the pages of its list, or that has none noted.
The other case is the finding `PageIsRestored`: it came up when the proof of the
unrestricted statement failed, and TLC showed the steps to it.

### The suite MCAnalytics

| Module | Its state in the code |
|---|---|
| `AnalyticsToken` (`analytics-token-store.ts`, `use-analytics-connection.ts`, `google-analytics-oauth.ts`) | the store of the grant and its timers, the loader and the script, the calls of `connect` under way |
| `AnalyticsDashboard` (`AnalyticsDashboard.tsx`) | what is chosen, the cache by all the choices, the quota and the pools it closes |
| `AnalyticsRequest` (`analytics-data-api.ts`, `fetchRealtime`) | per part of a report: attempt, wait, answer that is being read; the signal |
| `BehaviorPanel` (`UserBehaviorPanel.tsx`) | the open user and choices, cache, grant |
| `UserTimeline` (`UserFlowTimeline.tsx`, `user-timeline-model.ts`) | pages and request per filter while new rows happen |
| `TrendSeries`, `RetentionCohorts`, `FunnelSteps`, `Insights`, `UserBehavior` (`analytics-reports.ts`, `-retention.ts`, `-funnel.ts`, `-insights.ts`, `user-behavior-report.ts`) | a *truth* that is chosen first, the rows Google makes of it (in any order, with gaps, padded), and the maps the code fills from them |

| Property | Part | Says |
|---|---|---|
| `ReportIsOwn` | token | a screen is connected only under a grant of its own session |
| | dashboard | the report, its quota and its closed tabs are of the property and choices on screen |
| | request | a report is whole: no part of it failed or was aborted |
| | panel | a flow is of the open user and grant |
| `HistoryIsWhole` | timeline | among the rows that were asked for it has no hole, no double and no day twice, and is empty only if there is none; what is not asked for is the finding `UnlistedKindIsShown` |
| `FiguresAreTrue` | trend | a day shows its own users, and a day Google has not closed is not drawn as a collapse |
| | retention | a week is shown only when it is over, final only when it is, with its own cohort's users |
| | funnel | a step shows its own users, bars do not rise, rates only where they mean something |
| | insights | no fall is left out for a rise, silence is told, counts need a base |
| | behaviour | events add up, sessions are apart by the gap, visits can be read, what was cut is told |
| `AsksWithCare` | request | nothing is sent after an abort, before the moment Google has named, or after a refusal |
| | token, timeline | a grant lasts its time; a warning of coverage stays |
| `WaitsEnd` | all | grants die, `connect` ends, requests and dashboards and panels end, a refused grant is given up |

## 3. The runs

| Run | Instance | Distinct states | Shows |
|---|---|---|---|
| `session` | `AdminSession`: 2 administrators, 1 outsider, 1 request, 2 tokens | 391 thousand | safety of the session core, that it implements `SessionScope`, and that boot ends, requests settle and logout signs out |
| `origin_failover` | `ApiOrigin`: 2 hosts of the site, 1 host of an earlier deployment, 2 selections, TTL 2 ticks, probe 1 tick | 575 thousand | safety and liveness of the selection |
| `chat_room` | `ChatRoom`: window of 2, pages of 1, 1 own message, 1 fault | 1.3 million | safety of the room and its refinement |
| `messages` | `MCMessages`: mail in 6 instances, and the room | 247 thousand | what is listed and posted is right, and all of it catches up |
| `desks` | `MCDesks`: 10 instances | 436 thousand | an operator's own action is seen, and only what is shown is acted on |
| `pages` | `MCPages`: 14 instances, one of them the navigation (2 roles, any address and cookie, 5 events) | 453 thousand | what is said is true, nothing is lost, forms come through; few redirects, a usable screen |
| `analytics` | `MCAnalytics`: 13 instances | 277 thousand | a report is of what was chosen, a history is whole, and the figures are true |
| `finding_*` | | counterexample | five statements of the repository the code does not keep |

### Bounds and why they are enough

- *Session*: two administrators are needed to inherit data and one outsider to be
  refused; two tokens allow a login and a login of somebody else, or a rotation.
  The safety results do not depend on the bounds: they are proved (section 4).
- *Origin*: two selections, because the hazard is an entry one writes and the
  other judges; two hosts, because the code knows no more; a time to live longer
  than a probe is all that matters of 30 s and 4 s.  Both hosts are of the site,
  which is where failover happens; that credentials also stay on the site when the
  fallback is off it is part of the theorem `OnSite`.
- *Navigation*: a redirect chain is at most five long; five events cut it short at
  every step that depends on the cookie.  The instance stops when they are used up.
- *Chat*: a window of two and pages of one give every overlap of window, page and
  gap with three messages.
- *Lists and pages* (`PAGE_SIZE`, `MAX_TAKE`, `WINDOW_SIZE`, `Limit` and the like
  are 1 or 2): a page with one row has a next page and an end with two rows;
  which rows share a page makes no difference to the code.
- *Operations* (`MaxMoves`, `MaxOps`, `MaxChoices`, ...): two to five, enough for
  an action that is started while another is answered; every mutant named in
  PROJECT.json is caught within them.  *Faults* (`MaxFaults`): one or two, so that
  each request may fail at each moment, once with the effect and once without.
- *Seeds*: a second run of each script after a first that broke anywhere; two
  faults of the market, so that a run may break between two databases twice.
- *Figures*: the truth ranges over all small histories, days around the turn of the
  week, counts at and around each threshold; `RANGE_DAYS` of 3 for 7 to
  90, two cohorts of two weeks for six, three steps for six.
- Instances stop when their bound is used up, so the suites and the chat room do
  not check for deadlock; that nothing hangs is what their liveness properties say.

### Fairness and why the code justifies it

- *Session* (`FairSpec`): the mount's timer fires; a call without headers times out
  after 12 s (the probe after 4 s), so `NoResponse` and `SettleRefresh("network")`
  are weakly fair; the same signal bounds the reading of a body.  Nothing is
  assumed of the server, the user or other tabs.
- *Origin*: a probe is answered or given up (`AbortSignal.timeout`).  *Navigation*:
  the middleware answers, React runs due effects, a boot ends (`BootEnds`).
- *Suites*: a request is answered or fails, since `adminFetchJson` bounds it in
  time and `RequestsSettle` shows that it settles; browser timers and intervals
  fire; animation frames come; a popup is answered or closed.  A gateway answers
  the join of an open socket and delivers its frames.
- An operator is assumed to act in three places only, where the statement is that
  going on helps: an offered retry is taken (editor chunk, business page), and
  whoever uses the wizard goes on (`Persist`).

### Findings

Five statements of the repository are violated in a run each, which yields a short
trace:

1. `RetryableRefreshKeepsSession`: a refresh answered by a 5xx without a JSON code
   (a proxy's 502 page) signs the administrator out, since `refreshSession` reports
   it as `UNAUTHORIZED` (`auth/api/admin-auth.api.ts:79`); the comment at
   `auth/refresh/refresh-single-flight.ts:48` says 5xx must not erase state.
2. `ReadOnlyWhenSeen`: leaving the chat room scrolled up reports the unseen
   messages as read, since the cleanup flushes when the container is gone and
   `isNearBottom(null)` is true (`BusinessMobileChatRoom.tsx:388`).
3. `LiveTailIsShown`: a live message that arrives out of order while the window is
   over older history is kept out of the window, and waits beyond the gap.  When the
   gap closes, `loadNewerMessages` takes the window to be at the live tail
   (`BusinessMobileChatRoom.tsx:510`), the cursor passes the message and it is
   reported as read, and it is not shown.
4. `PageIsRestored`: an operator presses another filter while the next page of the
   party list is awaited; the page is looked up in the list of the other filter and
   noted for the filter that was left (`BusinessPartyListPanel.tsx:116`), which is
   found on its first page again.  `PartyListPanel.test.tsx:239` says each filter
   restores its own.
5. `UnlistedKindIsShown`: a row of a kind this code does not list is missing while
   its category is chosen, since the category is sent to the server as the kinds
   listed under it (`user-timeline-model.ts:303`).  The comment at line 41 says the
   server's category decides what is shown, so that no such row vanishes, and
   `user-timeline-model.test.ts:100` that "an unlisted kind is never hidden".

More of what docs, comments and test names say turned out not to hold while the
modules were written.  These are read off the actions named; no run of the
project checks them, so they are leads and not results:

| Where | What the actions allow |
|---|---|
| `AdminAuthProvider.tsx:153` (`BrokenBootKeepsSession`, `OldRefreshSparesNewSession` in `AdminSession`) | a connection that breaks in the body of `/me` ends a valid session; so does, after a login, a boot that waited for an older refresh |
| `AdminAuthProvider.tsx:134` (`RotationKeepsBoundary`) | after a remount boot reinstalls the token it captured before `/me` rotated it |
| `BusinessMobileChatRoom.tsx:466` | loading older messages while live ones arrive leaves a hole in the window, and drops drafts with their retry button |
| `MailConsole.tsx:846`, `:475` | a list read before a mail was marked shows it unread again; archive, then reply: the reply loses its thread |
| `applications/page.tsx:76` | the answer to a review closes the rejection dialog of another applicant |
| `use-cursor-append-focus.ts:69` | after a failed next page the focus of "previous" stays on the retry button |
| `AnalyticsDashboard.tsx:412` | another range shows the skeleton, not the report before, as its comment says |
| `analytics-insights.ts:91` | the rate of engagement warns without any base |
| `user-behavior-report.ts:135` | of too many rows the latest are cut, and the notice says that only they are shown |
| `UserDetailPage.tsx:154` | a 404 of the detail and another failure of the summary read as "does not exist" |
| `AdminResourceConsole.tsx:189`, `:75`, `format-date.ts:91` | a next page cuts a re-read short and clears its mark; an emptied text is not sent; a schedule loses its seconds |
| `AdminResourceConsole.tsx:213`, `:217` (`onSuccess`, `onError` in `ConsoleEditor`) | what is typed while a save is under way is discarded under the toast of its success; a create whose answer was lost is offered again, and makes a second row |
| `reports/page.tsx:78`, `:99` | the browser's clock decides what is overdue; a polled count can exceed what the list can reach |
| `EmailCodeWizard.tsx:186` | after a resend the expiry shown is that of the old code |
| `BusinessCommerceConsole.tsx:67`, `invitations/page.tsx:84`, `:93` | an older read is written over the answer of an action; the newest mail of an invitation may be outside those read |
| `seed-d1-market.mjs:212`, `:362` | a party published while the rebuild runs leaves the list; after a broken run a title that is found is passed over without its catalogue |
| `seed-parties.mjs:447`, `:472` | a party that is in the ledger is never opened by a later run; what was served and not answered is created again |
| `google-gis.tsx:103` | a script that failed leaves an empty place and nothing to click |

Each property of a passing run has mutants in its modules (the definitions under
"Mutant:", named in PROJECT.json): a plausible bug of the code under which TLC
finds the property violated.  A property of a suite has one for each screen it
speaks about, as far as a plausible bug reaches that part.

## 4. The proofs

Every theorem holds for any values of the constants that satisfy the named
assumptions of its module.  Those only say what the code gives: identifiers are
distinct from `NULL` and from each other's kinds, sizes of pages are positive,
the bounds of the runs are natural numbers.  The bounds stay in the guards, so a
theorem is about every bound, however large.

All proofs have one shape: an invariant `IInv` that is inductive, since what the
run checks seldom is; one lemma per action (or per operation that several actions
use) that carries it; then the properties follow from it.

### Session (`AdminSession_proofs`)

For any sets of administrators, outsiders and requests and any number of tokens,
assuming that the names of requests are not those of the other flows, `NULL` is no
principal or token, no administrator is an outsider, `MaxTokens` is natural.  That
cached data belongs to the principal follows only if requests with the current
tag carry the current principal's token, so `IInv` adds:

- `LiveWork`: no tag is ahead of the generation, and whatever carries the current
  generation was started by the current principal, with its token;
- `Flow`: the login in its body phase has a token, login and logout never
  wait for a refresh, and a boot at `/me` captured the current principal's token
  unless its tag is old;
- `Coherent`: token, principal, cache and screen agree.

The step that carries the argument is `Advances`: every operation of the store
that changes the principal makes the generation grow *strictly*, so old tags stay
old.  One lemma per operation proves coherence, `Advances` and `Handover` (the
cache is emptied or stays with its owner).

| Theorem | States |
|---|---|
| `Invariance` | `Spec => []IInv` |
| `TypeCorrect`, `ScreenMatchesStore`, `TokenOwnership`, `NoInheritance`, `NoLostWaiter` | the invariants of `session` |
| `StaleRefreshInert` | the action property `OldRefreshIsInert` |
| `Refinement` | `Spec => Scope!Spec`: an unchanged generation maps to `Drop`, `Begin` or `Deliver`, a grown one to `Replace`; a remount maps to `Replace` by the same administrator |
| `ScopeIsolation` | `DataBelongsToScope` of `SessionScope`, from its own steps and carried over the refinement |

### Origin (in the module itself)

For any two hosts, any set of selections, and any positive time to live and probe
limit.  `IInv` adds three facts: an entry of the cache is never younger than the
last moment its host was up (its date was read before the probe was sent); a
selection's clock reading is older than its probe only at the second host, so it
is at most one probe old when an entry is judged; and a host that was up
throughout has not been passed over.  `VisitOneCandidate` is the lemma about one
turn of the loop, `NextCandidate` the step after a failed probe; that no third
host exists is used there.

| Theorem | States |
|---|---|
| `TypeCorrect`, `OnSite` | `TypeOK`, `CredentialsStayOnSite` |
| `RecentlyHealthy`, `FailoverWorks` | the action properties `ChoosesRecentlyHealthy`, `FailsOnlyWithoutOrigin` |

### Navigation (lemmas in the module, theorem in `MCPages_proofs`)

For any number of events.  `hops` counts the redirects since the last event and
does not bound itself.  `IInv` counts the redirects still *owed*: `EdgeHops` by
the navigation that is on its way to the middleware, `LandingHops` by the page it
ends on, `ShownHops` by the page on the screen.  What was done and what is owed
stay within five (`HopsInv`), which every redirect pays from.  The case that
takes all five is a cookie that is gone while the provider still has its verdict.
The module's lemmas (`InitIInv`, `NextKeepsIInv`, `HopsAreBounded`) ask only for its
`Parameters`, which `MCPages` meets; `Invariance` and `NoLoop` of the suite use them.

### Chat room (`ChatRoom_proofs`)

For any finite set of own messages, any window and page size, and any number of
messages of others.  `IInv` says that all numbers held, asked for or on the wire lie
within the log (`CountInv`, `WireInv`, `RequestInv`), that a request starts at or
before the cursor, that a client id is committed once (`LogInv`), and that the
window holds one copy and never more than its size (`WindowInv`).

The refinement maps the cursor refs to `ReadCursor`'s.  Its heart are the lemmas
about the loop that advances the cursor over what was observed, and about what a
page proves of the numbers it skips (they were cleared).  `CursorInv` is the invariant
of the reader itself: all numbers up to the cursor were handed over or cleared, and
the read mark is not beyond it.

| Theorem | States |
|---|---|
| `Invariance`, `TypeCorrect`, `NoDuplicate` | `IInv`, and the invariants `TypeOK`, `OneCopy` |
| `Refinement` | `Spec => Reader!Spec` (`ReadsAsPromised`) |
| `ReadsOnlyReceived` | what the room reports as read it was handed, or it was cleared: `NothingUnreadIsRead` of `ReadCursor`, from the reader's own steps and carried over the refinement |

### Mail (`MCMessages_proofs`)

For any mails, folders with an inbox, own and other addresses, and bounds.  The
lemmas are about `Console(W, B, o, e)` and `Composer(t, f)` for any parameters, and
each is used for every instance of the suite.

- `ConsoleInv`: a page that was read and is not answered yet holds only mails that
  belong to its list (they belonged when it was read, and it keeps them as they
  were); so does every list.  A patch drops the mail from the lists it leaves.
- `DeskInv`: the text of a composer is what its editor has reported, and empty
  until it has; so a form never pairs a text and an HTML of different bodies.

| Theorem | States |
|---|---|
| `Invariance` | the invariants of all places, whichever is on the screen |
| `NothingMisplaced`, `PostsWhatIsThere` | `ListsMatch`, `PostedAsShown` |

### Desks (`MCDesks_proofs`)

For any values and edits, rows and page size, tabs among the statuses of a report,
number of reports, versions and visits of a party, and any bounds.  `DesksInv` is
the invariant of the desk that is shown:

- `BusinessInv`: whatever is known of a business (on the server, in a query, in a
  read that is under way, in an answer) is what it has been at some time, so two
  profiles with one time of change are one (`KnownWell`); the form is made of a
  profile with the time of the one above it (`FormIsOfProfile`).  Therefore a field
  that was not typed goes out as it is on the screen.
- `UserInv`: its types; that no profile is lost holds step by step.
- `ResourceInv`: what is remembered of a next page is the number of pages there
  were (`Reads`), which a fetch of all pages from the start keeps or forgets; a
  dialog waits for a mutation that names it, and so for its own error.
- `QueueInv(c)`: the pages of a list are a chain (`Chain`): each begins where the
  one before ended, in the order of the queue, and a report that is waiting now and
  lies between two of them would have been waiting when they were read, since a decided report never waits again (`Onward`, `ChainMoves`).  That a
  page holds the first reports beyond its cursor (`PageRead`) is shown with ranks:
  each report is mapped to how many come before it, an injection into the numbers,
  so a finite set of reports has a first and a last (`Ranked`, `Greatest`), without
  induction over the queue.
- `PartyInv(c)`: a version and a status that the page knows together, cached, read or
  about to be sent, are what the server had at that version; so a move that the
  server accepts was decided on the status it has.

The cursor walk, the cut of a page at its size and the sequence of pages are not
unrolled; `PageRead` and `ChainAppend` are the two lemmas that know of them.

`OwnActionIsSeen` needs a second invariant, `OwnInv`, for none of the above says when a
read began.  Each desk says of what its administrator was told that the server has it
for good, that a read which ends from now on has it (telling gives up the reads that
are under way), and that what is shown without it is to be read again or has failed:

- `BusinessOwn`: a detail that is at rest is no older than what was told of it, and
  while a lifecycle run is under way there is a detail to invalidate (`Fresh`); a
  page has one run and one commerce mutation at most (`OneEach`), which is what the
  disabled buttons are for.
- `InvitationInv`: for each row, the changes and the mail that were told bound from
  below what is in the list, in the mails and in the reads of both (`ListOwn`,
  `OutboxOk`).  The mails are numbered from the oldest, so the first mail of a row is
  its latest, and a bound on the first is kept when a mail is put before it
  (`AtLeast`).  How many mails are read is the number of rows and part of the key of
  their query: the one of the rows that are shown is bounded, and one for more rows
  has not been read yet.
- `AssignmentInv`: of each search, what is valid is no older than what was told of
  the users on its pages (`SearchOwn`).  A next page joins pages of two times, so
  what is torn is excluded, as it is in the property.
- `UserOwn`, `QueueOwn(c)`: the account that is read since is no older than the last
  action; a decided report is final on the server, in what is read, and in the
  dialog unless it is invalidated.
- `ResourceOwn`: the rows done from here are done on the server; pages that are
  valid show them done or leave them out, unless a read of them was cut short
  (`RowsOwn`).

Invitations and candidates are two each here, as `MCDesks` has them; their proofs
count them (`TwoInvited`, `TwoPeople`).  Besides, the proofs use that the rows of the
console are a finite set of numbers (`RowsAssumption`) and that `NULL` is none of the
values it stands beside (`NullAssumption`).

| Theorem | States |
|---|---|
| `Invariance` | `DesksInv` |
| `NothingActedOnUnseen` | `ActsOnWhatIsShown` |
| `OnlyWhatIsMeant` | the action property `NothingElseMoves` |
| `OwnIsSeen` | `OwnActionIsSeen`, from `DesksInv` and `OwnInv` |

### Pages (`MCPages_proofs`)

For any finite sets of people and applicants, any places, tabs, e-mails, passwords,
bounds and page sizes, and any sequence of seed items (the assumptions say that the
category, the business, the parties of the seed and that of another business are
distinct, and that `NULL` is none of the values it stands beside).
Each part has an inductive invariant of its own, stated at the end of its module:

- `NoticeInv` (`CheckIn`): a check-in that was applied is in the server's list, and
  the handler of a manual check-in still sees the person it was asked for, or nobody;
- `RunInv` (`QrScanner`): a run that was not opened yet is untouched, and one that
  has scanned a token is done; the requests of check-in are counted by the runs
  that read a token;
- `FormInv` (`PartyForm`): while nothing was edited the form is what was loaded,
  whatever year it is by now, and what is sent patches to the party itself;
- `RoomInv` (`ImageUploader`): what a choice began with and what it adds fit the
  limit together, so no stored image is cut off when it ends;
- `ListInv` (`PartyList`): who awaits a next page asked from the page the filter is
  on, and the focus that is to be handed over belongs to the view on the screen;
- `EditorInv` (`ConsoleEditor`): until the first touch the value is the one the form
  was filled with, whoever has saved the row since; a save is of what stood in the
  form at the press, and what it sent is at the server, once applied, until somebody
  else saves (`SaveFits`), so an answer tells of that save and of no later form;
- `IInv` (`Navigation`), as above;
- `WizardInv` (`EmailWizard`): a request under way fits the step it was sent from
  (`RequestFits`), since every change of the step gives it up or waits for it, so the
  password that is set is that of the account on the screen;
- `SignInInv` (`SignIn`): the form is locked by a sign-in of its own that can still
  unlock it (`Unlocks`), each has the nonce of its own request (`Fits`), and the script
  and what waits for it agree (`LoaderFits`);
- `MarketInv` (`SeedMarket`): of each name there is one id at most, and a run has that
  one or is about to make it (`RunFits`: what is behind its step is there), so it does
  not matter at which statement it is ended.  The list that is read is whole, and the
  generation a run rebuilds is not the one that is read nor one the worker will take,
  with the run's rows only, unless the worker has gone past it (`RebuildFits`);
- `PartiesInv` (`SeedParties`): there are as many of an item as were lost and the one
  that is noted: by the run, once it has made it, and else by the ledger (`CountsFit`);
  a run has noted all targets behind its place, and whatever it made and has not opened
  is still on its list or held back (`RunFits`).  A party that somebody else has changed
  has a version other than 0, at which it was made (`ServerFits`), and a run tells 0.

The rows of a generation are counted by a bijection with their ids (`RowsCount`), the
resources of an item by what is added to them (`MadeIs`).  Both scripts are proved for
any number of runs, failures and moves of others; TLC has two runs of each.

| Theorem | States |
|---|---|
| `Invariance` | `PagesInv`: the invariants of all parts |
| `NoLoop` | `FewRedirects` |
| `AtTheDoor`, `FormsAreKept`, `WorkIsDone` | `DoorIsTrue`, `FormIsKept`, `DoneIsTrue` |
| `NothingGetsLost` | the action property `NothingIsLost` |

### Analytics (`MCAnalytics_proofs`)

For any values of the constants: of them the proofs use only that `NULL` is no number,
no error and no choice (`NullAssumption`).  The bounds are those of `MCAnalytics`, save
that a report on its way is proved for every set of requests, every set of waits Google
may name and every bound of time (`Asked`), and `Request` and `Realtime` are two cases
of it.  `Inv` is the invariant of the part that takes the steps:

- `TokenInv`: a grant is bound to the session it was asked in, and its timer is the only
  one (`TokenStore`); a screen is there only in a session, and its grant and its calls
  are of that session (`TokenAsks`), so an answer that is still wanted cannot be of
  another; the store counts its changes, and a report with its present count is of its
  present grant (`TokenReports`), so a refusal that is late ends no later grant;
- `AskedInv`: once the signal has gone no request waits or is still to be sent, so none
  is sent again; a wait is at least as long as Google wants it; what is done has an
  answer that fits, so a report with a result has all of its parts;
- `DashboardInv`: the banner is of the property and the pool on screen (`DashboardQuota`),
  a closed tab was refused for that property, filters are set only where they are
  registered (`DashboardFilters`);
- `PanelInv`: a screen without a grant keeps no flow and waits for none;
- `TimelineInv`: a refresh has read fewer pages than its list has, so what it replaces
  the list with is longer only if the list was empty, and pages that are added keep the
  coverage of those before.

| Theorem | States |
|---|---|
| `Invariance` | `Inv` |
| `ReportsAreOwn` | `ReportIsOwn` |
| `CareIsTaken` | the action property `AsksWithCare` |

### Left to TLC

- Liveness under fairness, and what is ENABLED: `BootEnds`, `RequestsSettle`,
  `LogoutSignsOut`, `SelectionEnds`, `CatchesUp`, `DesksComeBack`, `PagesCatchUp`,
  `FormsComeThrough`, `WaitsEnd`, `RestsOnUsableScreen`.
- What recursive definitions, folds and sorting compute, which takes an induction over
  the data: `FiguresAreTrue`, and `HistoryIsWhole`, whose rows are sorted into pages,
  flattened into a list and folded into days.
- The five statements that are violated, of which there is nothing to prove.

## 5. Plan

All modules above are written, and every invariant and action property of the passing
runs is proved but `FiguresAreTrue` and `HistoryIsWhole`, as section 4 says.  What
would come next, in this order: the merge of the quota readings and the URL filters of
the resource console, which have state of their own; then the chat list.

## 6. Not modelled

The server, and the libraries: TanStack Query, React, the sign-in scripts and the
browser are external and appear only as the code uses them.  Wording, layout,
styling, the UI kit, the charts.  Single calls without protocol state (the
`admin-*.api.ts` wrappers), which are instances of `IssueRequest`.  The chat list
(polling only), the error relay, the merge of quota readings, the URL filters of
the resource console, the append mode of the focus hook, the rows of inclusions
and questions of the party form, the form that creates a business, the downloads
and the search over words of the mail console, the calendar of the seeded
parties, and deployment.  PROJECT.json says of every part how far
it is modelled.
