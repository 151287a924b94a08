# A TLA+ model of autonex-crm-api

`autonex-crm-api` is a multi-tenant CRM back end: one Go gateway
(`cmd/gateway`) in front of PostgreSQL.  Every module under `internal/` has the
same three layers: a handler (HTTP in and out), a service (validation, state
machines) and a store (SQL).  The gateway keeps almost **no state in memory between
requests**: the pool of database connections, the hub of open notification streams and
the goroutines that outlive the move they tell of (`internal/notify`) are all of it.
Everything else two requests share is in the database, and what can go wrong between
them goes wrong in the order in which their SQL statements interleave.  The models
therefore have one shape:

* the **state** is the rows (one function per column that matters) plus the
  program counter and local variables of each request in flight;
* a **step** is one SQL statement, or the longest run of statements that no other
  transaction can observe or disturb;
* a row lock is a **guard** (`LockedFor`, `LockedQuote`, `Claimed`, ...): a
  statement that needs a row another open transaction has written waits for it.

PostgreSQL itself is assumed to do what its manual says of READ COMMITTED (the
level every transaction of the code runs at): a statement sees what was committed
when it began; an `UPDATE` or `SELECT FOR UPDATE` that has waited for a row looks at
*that row* again but not at the rest of its snapshot; a rolled-back transaction
leaves nothing.

## 1. Inventory

| Component | State it keeps | Operations | Hard behaviour | What makes it correct |
|---|---|---|---|---|
| **Sessions** `internal/auth` (refresh.go, store.go, handler.go) | `refresh_tokens`; the token each client holds | login, refresh with rotation, logout, expiry, revoke-all on reuse | concurrent refreshes, lost answers, stale copies, a revoke-all waiting for rows of open rotations | a login has one usable token; rotation hands over atomically; reuse and logout kill what they address; a client that follows docs/AUTH.md never locks itself out |
| **People** `internal/auth` (service.go, oidc.go), `internal/org` | `users`, `profiles`, `organizations`, `invitations` | register, SSO sign-in, invite, revoke, accept, change role | lookups outside the transaction that inserts; invitations racing with registrations; tokens that carry old roles; counting owners without a lock | an accepted invitation is one account; accounts never move; an organisation keeps an owner; ownership is handed down by owners |
| **Billing** `internal/quotes`, `internal/invoices` | `quotes` (+versions, items), `invoices` (+items), `payments`, `organizations.invoice_seq` | draft, edit, send, approve, bill, pay, void, delete | an edit racing a send; a payment racing a void; two receipts at once; number sequence and its unique constraint | issued documents are not edited; money only on payable invoices; a covered invoice is settled; numbers are drawn once |
| **Pipeline** `internal/leads`, `internal/deals`, `internal/delivery` | `leads`, `deals`, `delivery_tracker` | capture, advance, convert a lead; create, edit, move, delete a deal; edit, link, import tracker rows | a deal and its tracker row are written by separate statements, each side pushing to the other; conversion claims a lead that an edit may un-convert | both sides agree at rest; a lead converts once |
| **Tracker import** `internal/delivery/importer.go`, `store.go` | none of its own | read a workbook, preview, commit | the preview is stale when it is confirmed; two lines of a sheet, two imports or an edit meet in one row; a sheet is imported again | a sheet lands whole; blanks have no opinion; importing again changes nothing; what cannot be read costs one cell |
| **Sites** `internal/accounts/locations.go`, `setLocations` of deals | `account_locations`, `deal_locations`, `deals.location` | add, rename, archive a site; choose the sites of a deal | links and the joined text are written after the deal, in another transaction; renames in between | text and links say the same unless saves overlapped |
| **Companies and contacts** `internal/accounts`, `internal/contacts` | `accounts`, `contacts`, and `account_id` of five tables | create, rename, delete with everything filed under it; save and read a profile; find or make one for a lead | deletion goes table by table while records are filed; a save is two statements; twins of one name | a deletion takes everything; twins come from races only; a saved profile is one save's |
| **Follow-ups and deal tasks** `internal/followups`, `internal/dealtasks` | `follow_ups`, `deal_tasks` | create, edit, complete, delete, list | what a form refers to is checked query by query | an action agrees with its lead; the closer is who ticked |
| **Timeline** `internal/activities` | `activities` | log (best effort), list, edit, delete | a pair of type and id stands for a record of any table | an entry is on one page; system rows are immutable |
| **Notifications** `internal/notify` | `notifications`; the hub of streams in memory | tell of a deal's move, stream, mark read | a detached goroutine outlives the request; streams open and close while it sends | every colleague but the mover is told once; an open tab shows it; no send on a closed stream |
| **Integrations** `internal/integrations` | `integration_connections`, `calendar_events` | connect (consent screen and callback), book a call, disconnect | a token is renewed over a reconnect or a disconnect | a call lands where the user was connected; a disconnect stands |
| **Connection pool** `pkg/database` | at most 8 connections | acquire, release, health check | handlers that take a second connection inside a transaction; a proxy that drops idle ones | nobody is given a dead connection; who can stop everything is known |
| **Dashboard, PDF** | - | read-only sums and prints | four copies of "overdue", two of "open", three ways to add up a document | the views agree |
| **Worker** `cmd/worker` | - | consume events, post to Slack/Google | acknowledges what failed; nothing publishes to it | - |
| **Shared packages, gateway** `pkg/*`, `cmd/gateway` | - | configuration, JSON, CORS, JWT, paging | - | - |

Interactions: handlers call services call stores; `invoices.FromQuote` reads and
locks quotes; `org.acceptInvitation` creates users and ends in `auth.IssueSession`;
`leads.convert` finds or makes the company, writes a deal and calls
`delivery.EnsureRowForDeal`, and the deal store marks the lead of a deal it saves
(`markLeadConverted`); `leads.Handler.advance` calls `integrations.BookCall`; the deal
store and the tracker store call each other's synchronisation (`delivery/link.go`);
deleting a company or a deal reaches into the tracker; `activities.Log` and
`notify.DealMoved` run after the answer is decided, and their failure changes nothing
else, which is why `Timeline` and `Notices` share no state with the rest.

## 2. Plan

Done, in this order:

1. `Sessions`, `SessionLedger` and their proofs.
2. `Billing`, `BillingBook` and their proofs.
3. `Directory` (sign-up and invitations), `Roles`, and the proofs of both.
4. `Stages`, `Pipeline`: deals and tracker rows, statement by statement.
5. `Leads` and its proofs: the life of a lead and its conversion.
6. `ConnPool` and its proofs: the bounded pool, and the handlers that ask it for a second
   connection while their transaction holds one.
7. `Sheet`, `SheetReader`, `TrackerImport`: from an uploaded workbook to rows.
8. `Companies`, `Sites`, `Tasks`; `Notices` and `Calendar` with their proofs.
9. `Lifecycle` (the two state machines, shared by `Billing` and `Money`), `Money`
   (the figures), `Timeline`.
10. `TrackerProofs` for deals with their rows, for sites and for imports;
    `CustomersProofs` for companies, tasks and timeline; the figures in
    `BillingProofs`; careful clients in `SessionsProofs`, the last notice in
    `NoticesProofs`.
11. Repeated imports in `TrackerProofs`, the reading of sheets in `ReaderProofs`, the
    sums and roundings of every view of the figures in `BillingProofs`.

Left, in order of worth:

1. An abstract specification of `Pipeline`, one opportunity with one stage and one site,
   refined while no two calls overlap.
2. The order of rows, actions and cards (positions computed from a maximum, which two
   creators may both draw), and the counts of the deal funnel.

## 3. Modules

| Module | Models | Checked by |
|---|---|---|
| `Sessions` | refresh tokens, the requests that use them, the clients that hold them | `MCSessions` |
| `SessionLedger` | what a login is to its user: opened, handed over, closed | refined by `Sessions` |
| `Lifecycle` | the states of quotes and invoices and the moves between them | with `Billing`, `Money` |
| `Billing` | quotes, invoices, payments, number sequences under concurrent requests | `MCBilling`, `MCMoney` |
| `BillingBook` | documents written, turned, billed and paid one whole operation at a time | refined by `Billing` |
| `Money` | the figures of documents: columns that round, copies, receipts, lists and statistics | `MCMoney` |
| `Directory` | who has an account, in which organisation, by which invitation | `MCPeople` |
| `Roles` | the role changes of one organisation, with tokens that carry stale roles | `MCRoles`, `MCPeople` |
| `Notices` | moves of a deal, the goroutine that tells of each, the hub of streams | `MCPeople` |
| `Calendar` | a user's connection to Google and the calls booked through it | `MCPeople` |
| `Stages` | the two stage vocabularies and the tables between them | with `Pipeline` |
| `Pipeline` | deals and tracker rows and the statements that keep them in step | `MCPipeline`, `MCTracker` |
| `Sites` | the sites of a company, their links to deals and the joined text | `MCTracker` |
| `Sheet` | reading an uploaded sheet: headings, lines, tabs | with `TrackerImport`, `SheetReader` |
| `SheetReader` | what reading promises of any upload; dates | `MCTracker` |
| `TrackerImport` | preview and commit of a sheet against the tracker | `MCTracker` |
| `Leads` | leads, the meetings booked with them, the deals that convert them | `MCLeads` |
| `Companies` | companies and the records filed under them | `MCLeads` |
| `Tasks` | actions of the dashboard, checklists of cards | `MCLeads` |
| `Timeline` | the entries of the timeline and whom they are shown to | `MCLeads` |
| `ConnPool` | the pool of connections, the health check, the proxy in between | `MCLeads` |
| `SessionsProofs`, `NoticesProofs`, `LeadsProofs` | theorems about the module they name | tlapm |
| `BillingProofs` | theorems about `Billing` and `Money` | tlapm |
| `PeopleProofs` | theorems about `Roles`, `Directory` and `Calendar` | tlapm |
| `TrackerProofs` | theorems about `Pipeline`, `Sites` and `TrackerImport` | tlapm |
| `ReaderProofs` | theorems about `Sheet` and `SheetReader` | tlapm |
| `CustomersProofs` | theorems about `Companies`, `Tasks`, `Timeline` and `ConnPool` | tlapm |

The MC modules instantiate what shares an area, not what shares state.  `MCMoney`,
`MCPeople`, `MCTracker` and `MCLeads` hold several components in one behaviour each; a
variable `focus`, chosen at the start, says whose steps the behaviour takes, and the
others rest in their initial state.  As those components share no variable and each
property reads the variables of one, nothing is lost by it.

Operators whose name ends in `_Something` and that carry the comment `mutation` are
the ways a plausible change of the code would break a property; nothing in the
specifications uses them.

### How state and actions correspond to the code

`PROJECT.json` ("map") names the lines behind every definition. In outline:

* **`Sessions`.** `state`, `user`, `replacedBy` and `expired` are the columns of
  `refresh_tokens`; `jar` is the cookie or the native client's keychain, `received` every
  copy of a token that ever reached the client. A refresh is `SendRefresh`, `Lookup`
  (`Service.Refresh`), then in one transaction `InsertSuccessor`, `SpendPresented` or
  `SpendRefused`, `CommitRotation`. Reuse detection is a snapshot (`RevokeAllScan`) and
  the writes that follow it (`RevokeAllApply`), which wait for rows of open rotations.
  Logout is `SendLogout`, `RevokePresented`. Answers arrive (`ReplySession`, ...) or are
  lost (`LoseReply`); any transaction may fail (`Fail`); a token may lapse (`Expire`).
* **`Billing`.** `quote` and `invoice` are the status columns, `content` and `quoted` the
  revision of header and items, `source` is `quote_id`, `seq` the organisation's counter.
  An edit claims its draft (`ClaimQuote`) and commits (`SaveQuote`); a transition reads
  the status (`ReadQuote`) and writes it only if it still is what was read (`MoveQuote`);
  billing locks the quote (`BillQuote`), draws a number (`NumberBill`), inserts
  (`CopyQuote`) or is refused by the unique index (`RefuseNumber`, `AnswerConflict`); a
  payment locks the invoice (`LockPayable`) and adds itself and the settlement
  (`RecordPayment`). A line between two of these steps writes only what its own
  transaction can see.
* **`Directory`.** `org`, `provider`, `identity` are columns of `users`, `invite`,
  `host`, `invitee` of `invitations`; `seat` is history, the invitation an account came
  in by. `Register` and `CompleteSSO` look an email up, `Provision` inserts later in
  another transaction. `ClaimInvitation` locks the invitation, `Join` seats its email.
* **`Roles`.** `role` is `profiles.role`, `tokens` the roles in a member's unexpired
  access tokens. `UpdateMemberRole` passes the middleware and the service, `LockMember`
  reads the role and locks the `users` row, `CountOwners` counts without a lock,
  `WriteRole` writes. `overlapped` is history: two changes have been open at once.
* **`Stages` and `Pipeline`.** `deal`, `stage`, `site`, `account` are a deal, `link`,
  `label`, `place` a tracker row. A write of a deal is its statement, `setLocations`,
  `GetDeal`, `EnsureScan` then one of `EnsureAdopt`, `EnsureInsert`, `EnsureRefused`,
  then `SyncFromDeal`; a write of a row is `WriteRow`, then `PushRow`, then
  `SyncStageToDeal`. Every one commits by itself. The three shared columns are pushed
  alike, so one of them (`site`, `place`) stands for all.
* **`Leads`.** `lead` and `status` are a lead, `deal` and `pointer` (`lead_id`) a deal,
  `diary` the meetings in Google's calendar. An advance is `BeginAdvance`, perhaps
  `BookCall` or `BookingRefused`, then `AdvanceStage` or `AdvanceRefused`. A conversion
  is one transaction: `ClaimLead` keeps the row until `CommitConversion` or `Fail`;
  `MissLead` and `ExplainMiss` are its refusal, whose second look is not part of it. A
  deal saved from the board is `CreateDeal` or `UpdateDeal`, `GetDeal`, then `MarkLead`
  or `MarkFails`. `claims`, `linked`, `promised` and `touched` are history.
* **`Money`.** `offer` and `bill` are documents with their items as the columns keep them.
  `replaceItems` is the INSERT of items: `Item` rounds each figure to its column and
  computes the line's total from what was typed. `RaiseBill` copies the columns, totals
  included; `AsRead` is what a client reads and may send back. `listed`, `counted`,
  `OverdueSum` and `Attention` are the places that decide what is overdue; `rollUp`,
  `CalculateGST` and `PrintedRows` add up what is shown and printed.
* **`Notices`.** A move is its statement, with the snapshot (`SnapMove`) and the write that
  may wait (`WriteMove`), and the reading back of the deal (`LoadMoved`). The goroutine
  reads the audience (`ListColleagues`), inserts a row (`InsertNotice`), takes the hub's
  read lock (`LockHub`), sends to each open stream without blocking (`ShowNotice`), lets
  go (`UnlockHub`) and takes the next colleague; `OpenStream` and `CloseStream` need the
  write lock. `Restart` ends streams and goroutines and keeps the rows.
* **`Calendar`.** `conn` is the row of `integration_connections`, `cookie` the nonce of
  `googleConnect`. A callback checks the nonce, exchanges the code and looks up the
  account before one upsert stores them (`SaveConnection`). A booking reads the tokens
  (`ReadToken`), renews the access token if it is too old (`RenewToken`), stores it by an
  UPDATE (`refreshed`), creates the event and writes it down. Google's side (`AskGoogle`,
  `minted`, `events`) is what the code's calls assume of it.
* **`Sites`.** `plant` is a site, `job` a deal with its links and its text. A save is the
  deal's statement and then `setLocations`, whose snapshot and writes are two steps where
  they may wait.
* **`Sheet`, `SheetReader`, `TrackerImport`.** A cell is what the reader tells apart in
  it. `findHeader`, `rowFromCells`, `rowsFromGrid`, `parseSheet` and `parseSheetDate` are
  the functions of those names. An import is a preview (`Preview`), then one transaction
  that resolves each line again (`ResolveRow`, `ResolveDeal`) and writes it
  (`InsertRow` or `OverwriteRow`, `PushDeal`) until it commits or fails as a whole.
  `EditRow`, `DropRow`, `TrackDeal` and `RetireDeal` are the writes of other calls
  around it.
* **`Companies`.** A deletion claims the company (`BeginDelete`), takes its tracker lines
  (`SweepTracker`) and then five tables, one statement each (`SweepTable`), and commits or
  is rolled back. `File`, `Refile`, `DropContact`, `BeginRetire` and `CommitRetire` are
  the writes of the records' own components; none of them takes a lock on the company that a
  deletion would meet, which is why `late` marks what is filed meanwhile. A read is one query per table, of
  which only the invoices' may not fail quietly. `LookUp` and `CommitConvert` are the
  account of a converted lead.
* **`Tasks`.** A request checks its client, its lead and its deal in the order of the
  code, then writes; `unsure` and `ticked` are history.
* **`Timeline`.** One step per request. `entityOf` and `subjectOf` choose what an entry is
  about; `StoredKinds` is the CHECK of the column.
* **`ConnPool`.** `holder`, `idle` and `queue` are the pool. A request asks (`Ask`), takes
  a free connection or a new one (`Acquire`), may miss and ask for a second (`Miss`),
  returns what it holds (`Return`) or leaves (`GiveUp`); `Tick` and `HealthCheck` are
  time, counted in periods of the check.

## 4. Runs

| Run | Question | Answer |
|---|---|---|
| `sessions` | rotation, reuse detection, logout and lost answers under three calls of two clients | holds; implements `SessionLedger` |
| `sessions_live` | is every call answered although transactions wait for rows? | yes, under `FairSpec` |
| `sessions_replay` | does reuse detection end every session, as docs/AUTH.md says? | no: a rotation that commits while it waits survives |
| `billing` | documents under two callers of two organisations; their figures | holds; implements `BillingBook` |
| `billing_twice` | is a quote billed once, as fromquote.go assumes of an index? | no: there is no such index |
| `billing_conflict` | does a conflict mean the quote was billed, as translate assumes? | no: numbers are unique over all organisations and counted in each |
| `people` | roles under stale tokens; sign-ups and invitations racing for three emails; notices of overlapping moves; calls booked while the calendar is reconnected | holds |
| `roles_last_owner` | does the transaction stop two demotions from racing, as its comment says? | no: both count two owners |
| `pipeline` | deals and tracker rows under two calls; sites; imports; reading sheets | holds |
| `pipeline_adoption` | does every created deal get its row? | no: two unlinked rows of its client make the create fail half done |
| `leads` | conversion of a lead under two calls; companies; tasks; timeline; the pool | holds |
| `followups_of_lead` | does asking for the actions of a lead list them? | no: the query compares the lead with `deal_id` as well |

The six runs that expect a violation are the findings of `PROJECT.json`; each quotes
the sentence of the repository that the code does not keep.

Properties that answer one question about a component are checked as one, a conjunction
of named parts that closes its module: `BooksStand` and `IssuedStands` of `Billing`,
`ConversionsHold` and `AnswersAreTrue` of `Leads`, `DeletionIsWhole` and
`ProfilesAreWhole` of `Companies`, `ReadAsMeant` of `SheetReader`, and so on. The comment
of a part says which statements of the code it is about; nearly every part has a mutant of
its own, of the code that it constrains, under which the conjunction fails. `MCTypeOK` of
an MC module conjoins the type invariants of the components it instantiates.

A run that instantiates several components (`MCMoney`, `MCPeople`, `MCTracker`,
`MCLeads`) chooses one of them at the start (`focus`): they share no variable, and each
property reads the variables of one, so that interleaving them would only repeat states.

### Bounds, and why they are enough

* **`sessions`.** Three tokens are a login and two rotations, or two logins and a
  rotation: every property relates at most a token, its successor and one more. Three
  calls are a refresh, a second refresh or a logout, and a revoke-all that waits. One
  native client and one browser of one user cover both transports; two users never
  share a row, because every statement is keyed by a token or by its user. `careful`
  is chosen at the start: clients that serialise refreshes and keep only the last
  token, for whom `SerialClientNeverReplays` is promised, or clients that do neither.
  `Budget` starts no call the finite pool of tokens cannot serve. `Expiring` limits the
  lapses in `sessions_live`, which searches without symmetry.
* **`billing`, documents.** Amounts 1 and 2 against totals 0 and 2 give an invoice settled
  at once, in two receipts, overpaid by the second of two concurrent receipts, and one
  that is free. `PaidCap` stops receipts of one invoice from adding up for ever, `SeqCap`
  ends the numbering. One quote and two invoices are what it takes to bill twice; two
  organisations are what it takes to collide on a number. `MCBound` lets one invoice at
  most be void or deleted, and one exist next to a quote that was rejected, expired or
  deleted: such a quote cannot be billed as it stands.
* **`billing`, figures.** `Grain` 10: a client may type one digit more than the column
  keeps. `MCEntered` has lines that the columns keep exactly, lines that round in each
  column, a discounted one, a free one, an empty one, and ones that `validate` refuses
  (a discount over 100 %, no line, too many lines); one passes it and does not fit `LineMax`. Of the receipts
  4 and 124 the column keeps nothing and twelve cents. `PaidMax` bounds
  their sum; `Terms` {0, 4} with `Soon` 3 and one day that passes (`LastDay`) put a due date on each side of the
  dashboard's horizon and of today. One invoice is a draft at a time; when two stand they
  have one line each.
* **`people`, directory.** The founder, one email inside the allowed domains, one outside;
  two invitations, hence two for one email; two provider identities, hence an identity
  that meets another's account; the default organisation configured or not (`default`).
* **`people`, roles.** Two owners and a third member to demote or promote them; two calls.
  `Asked` leaves out a role that no guard tells from `admin`.
* **`people`, notices.** Three members, two moves, two streams of one member with a
  buffer of one (`Room`; 10 in the code), so that a buffer is full after one notice. Two
  columns of the board; `MCBound` has the streams watch moves of others to one column
  while nobody leaves, and lets one member leave: who leaves and who watches are separate
  matters of the properties.
* **`people`, calendar.** Two consents (a reconnect), two accounts, two bookings, three
  renewals (`Renewals`): each booking may renew and the stored token once more.
* **`pipeline`, deals.** Each behaviour fixes one scenario (`MCAsked`): a deal over stages
  that have several labels, none, or that the database refuses; a deal with locations; two
  deals of one client and two rows, which is what adoption needs to go wrong. Two calls
  interleave at every statement.
* **`pipeline`, sites.** Two sites, one deal, two saves, choices of none, one and two
  sites; the company may be deleted and a site archived between saves.
* **`pipeline`, imports.** Four worlds (no row; an unlinked row; a linked row; two rows of
  one client spelled in two ways) times five workbooks (a line; two lines for one row; two
  clients; a named deal; two lines of a new client), two imports, two transactions that
  add rows (`Births`) and one write of another call (`Others`). `headerRows` 3 and
  `maxImportRows` 2 stand for 25 and 5000; `Words` is what the cells of these tables and
  workbooks say.
* **`pipeline`, reading.** Every grid of two lines from twenty, under four kinds of
  headings; sheets over the limit; a master sheet with two tabs whose names are or extend
  each other; every date of the parts `MCParts`.
* **`leads`.** One lead: every statement is keyed by one lead, and a deal that points at
  none stands for one that points at another. Two deals, so that a second deal can
  name the lead a first one converted. Two calls, beside which edits, deletions and
  retirements of deals happen at any moment, being single statements. `Chosen` is one
  open stage and one outcome, the two kinds the statements could tell apart (the
  mutation of `MarkLead` does); `MaxMeetings` lets one meeting be booked. The lead is
  deleted while one call at most goes on (`MCLeadsBound`).
* **`leads`, companies.** Two companies and two names make twins; a contact, a deal and an
  invoice are the three kinds of record (moved, tracked, neither). `MCCompaniesBound`
  keeps apart what does not touch: profiles are saved where nothing is filed, at most two
  records are filed at once (one where companies are twins), both companies are deleted
  only while nothing else goes on, and calls that overlap are a deletion with any other, two
  saves, or two conversions.
* **`leads`, tasks.** One action and one item, three forms (a client with its lead, a lead
  with a deal, a client with an assignee); one referent goes away at most.
* **`leads`, timeline.** One uuid is at once of a lead, a deal and a contact: the worst
  case for a pair of type and id. Two entries, of the app and of a person.
* **`leads`, pool.** Three connections and three requests are enough to hold all of them
  and to wait; `maxConnIdleTime` 2 and `DropAfter` 4 are the code's 30 s, 15 s and "a
  minute or so", in health checks.

Symmetry is declared on ids that no definition tells apart, and only in runs without
liveness. Deadlock is not checked where the system really may stop: the finite ids run
out in `billing`, `people`, `pipeline` and `leads`, two owners who unseat each other leave
nobody who may change anything, and the pool can come to a standstill (section 6).

### Fairness

Only `sessions_live` needs it. `FairSpec` has weak fairness of the steps a request takes
by itself (net/http runs each accepted request to its answer) and strong fairness of the
statements that wait for a row (PostgreSQL queues the transactions that wait for a row
and wakes them when it is released, while the row may be taken again in between). Nothing
is fair about clients, expiry, lost answers or failures.

## 5. Proofs

Each proof rests on the ASSUME of the component's module (distinct null values, the kinds
of the constants) and holds for any number of tokens, documents, members, leads, streams,
connections and calls in flight. The argument is the same in the eight modules: a
strengthening `IInv` of the properties is inductive, shown by a lemma per action (or per
kind of write, from which the actions follow), and the theorems follow from it.

* **`SessionsProofs`.** *Single use* is not inductive: it needs that an open rotation
  holds its row alone (`LockInv`), that what a request knows of its tokens stays so until
  it commits (`KnownInv`), that a minted token belongs to one request (`MintInv`), that a
  row and its successor share login and user (`RootInv`) and that spent tokens form
  chains with at most one live end (`SpineInv`). `RotationHandsOver` and `RevokedInv`
  (what a revoke-all has seen is dead once it answers) complete it. `Refinement` shows
  that every statement is a step of `SessionLedger` or a stutter. What is promised to
  careful clients needs an invariant of its own on top (`CarefulInv`): a client has one
  call at a time (`OneCallEach`), which therefore carries the token of its jar
  (`CarriesItsJar`); the tokens of different clients are different rows (`NothingShared`),
  so nobody else's request reaches it; and it is live but between a commit and its answer
  (`HoldsLive`).
* **`BillingProofs`.** Row locks are exclusive (`LockInv`), what a request checked under
  its lock is still true at its commit (`HoldInv`), rows that exist have content and
  only issued ones have money (`RowInv`), and a number once drawn is not above its counter
  (`NumberInv`). `Refinement` is step by step: a claim is a stutter, the commit is the
  operation of `BillingBook`. For `Money`, `MoneyInv` says that a bill copied from a quote
  has the lines of a quote that can no longer change, and that a document sent with its
  lines as the columns keep them comes out of the columns as it went in; `NoCentAstray`
  follows without looking into how a line is rounded. `FigureInv` says that the lines of a
  document fit their columns and add up to its total, that a draft has taken no money, and
  that an invoice which waits for money has not taken more than is due. With it the views
  agree: an invoice that is late but owes nothing adds nothing to a sum (`OverdueAgrees`);
  each quote is counted under the one status it has (`CountsAddUp`); an approved quote is
  never written again (`WonStays`). For the printed totals, of one line: its total is
  rounded once and its tax twice, each by half a cent at most, whatever the scale of the
  columns (`Rounded`, `RoundedFiner`, `ThreeRoundings`, `LineMeets`), and what is off by a
  bit in each line is off by all those bits in the sum (`SumNear`). The sums are those of
  the community module `Functions`: that such a sum does not depend on the order in which
  it is formed is proved here (`SumUnfolds`, `SumStep`, from `Smallest`: of the subsets of
  a finite set that lack something, one has no smaller subset that lacks it).
* **`PeopleProofs`.** Roles: the tokens in hand say only what was true (`TokenInv`), a call
  knows what it was admitted with (`CallInv`), and, while calls have not overlapped, what
  it counted is still so (`SerialInv`). `HandedDown` needs no such proviso. Directory: what
  a visit knows where it waits (`VisitInv`), that a claim is one visit's and its invitation
  still pending (`ClaimInv`), that an invitation names a standing organisation
  (`InviteInv`). With them each property is kept by every step, and `AccountsStand`
  follows. Calendar: a grant that has given a token keeps its account (`GrantInv`), what is
  stored comes of such grants (`ConnInv`), a booking holds tokens of an account that was
  connected since it read them (`BookingInv`), and so are the events (`EventInv`).
* **`TrackerProofs`.** `DealsAreTracked` and `BoardsAgree` speak of calls that have ended;
  inductive is what a call in flight may rely on (`Sound`). Of every call: its deal was
  stored, and once it is past the tracker step its deal has a row, is retired, or lost its
  row to a deletion it has noted (`Standing`, `Tracked`); every step of any other call
  keeps this (`Survives`). Of a call that nothing has disturbed, besides: what it has read
  of the deal is what the deal says, and the row says what it has written so far
  (`Agreeing`, `Keeping`); such a call is the only one in flight (`OneAlone`), so only its
  own steps matter, and any other that begins marks it. The stage tables enter as the
  facts of `Stages` that the assumption names, checked by evaluation.
  For `Sites`: while a save is the only one of its deal and no site of it was renamed
  (the deal is not in `torn`), what the save has cut, put and joined so far is the choice
  it was asked for (`SaveKnows`, and `AloneInv`: there is no other such save), so a deal
  that is at rest holds the links and a text of that choice (`JobRight`). That there is
  only one such text needs that sites at places of their own have one order (`OneOrder`):
  of two orders that differ, the first place where they do (`Least`) names two sites of
  one position. This rests on finitely many sites (`SitesAssumption`).
  For `TrackerImport`, of every transaction (`Underway`): what it has written covers what
  is committed, so that writing it over the tables empties nothing (`Covers`); it holds no
  deal that another row holds, its own or a committed one (`LinksOnce`); the last line to
  say something of a row is what its version of the row says (`Carries`); a row that a
  line was written to is in hand, or gone for good (`IdsRight`). Two transactions share no
  row, no deal and no link (`Parted`: the row locks and the unique index), so a commit
  takes nothing of this from another (`Undisturbed`), and neither do the other calls,
  which wait for those locks. Of an import that nothing has disturbed, besides: the row it
  found is there and has no deal or its own (`FoundRight`), the line being written is in
  the row, and once pushed in the deal (`LastRight`), and the first line's row is the
  one there was (`ExactRight`). Where a line without a title finds one row of its client
  and place, `resolveByClient` returns it (`RowOfOneThere`), and the preview shows it
  (`ShownWhereOne`). `ImportAssumption` asks of the sheets that every line names a
  client and that counts are not negative (`parseCameraCount`), and of the tables at
  first that no two rows hold one deal; how many lines, rows, deals and imports there are
  is left open. For repeated imports (`AgainInv`), of an import that nothing has disturbed
  and whose lines name no deal: the client of each line it has written has a row; a line
  that is alone in its row finds that row again, and the row and its deal say what the line
  says, unless another line told the deal since (`Remembers`, with `EachOnce`,
  `DealKnows`, `OneLine`); and a row that was shown as unchanged has the cells it was shown
  with (`StaysSame`). Applying such lines again then finds the same rows and writes what
  they say already.
* **`ReaderProofs`.** A sheet is read by three recursive functions, over the lines of a
  sheet, over those of a tab and over the tabs. That they exist, and that each step is the
  body of the loop, is proved by an induction on their length (`RowsAreRead`, `TabIsRead`,
  `TabsAreRead`, from `Upward`); what has been read so far is then an invariant of the loop
  (`ReadSo`). That a cell costs itself and no more compares two runs of it, with the cell
  and without (`SameRows`); that a client comes from one place says what a tab adds to
  what the sheets before it have (`Added`). A date is read by the first layout that fits it
  (`DateFound`, `Fitted`): every layout has at most one field for a month that is spelled
  out (`LayoutsNameTheMonth`), and of those in numbers the first puts the day first, so
  that no later one gets to turn a date around. `ReaderAssumption` asks that null is no
  text and no date, that the limits are natural numbers and that uploads are sheets,
  workbooks and dates of the kinds the reader tells apart.
* **`LeadsProofs`.** One open conversion per lead (`OneClaim`); per lead the count of
  conversions, the deal behind "converted" and the meeting behind a promised stage
  (`LeadInv`); per call what it may still believe, given whether its lead has been
  written meanwhile (`Sound`). A step either leaves the lead's row alone (`Quiet`,
  `Thinking`), or writes it (`Writing`), and then every call that looks at it is marked.
* **`CustomersProofs`.** Pool: `PoolTypeOK` is inductive with its last conjunct, that a
  request which waits holds at most one connection: the standstill then needs a request of
  its own for each connection. `AgeInv` bounds the age of an unused connection by the last
  health check; `NoStaleSockets` follows if `maxConnIdleTime + 1 < DropAfter`. Timeline: an
  entry is about the first table its writer named, and of kind "system" exactly when the
  application wrote it (`EntryInv`). Tasks: what an edit has checked of its deal and lead
  is so unless it is marked unsure, and who ticked an item is stored while it is done
  (`RequestsKnow`, `ActionsKnow`, `ItemsKnow`). Companies: a save or a conversion knows the
  name it found, two companies of a name come of conversions that overlapped, and the two
  statements of a save are of one company (`NamesInv`); a deletion holds each record it has
  taken, the records it has yet to take are those that stood under the company when it
  began, no two calls take one record (`Apart`), and a deal's line goes with it
  (`RecordsInv`).
* **`NoticesProofs`.** A colleague who has been told is off the list of the move
  (`BellInv`), so nobody is told twice; a notice that an open stream misses is in the
  hands of a goroutine that waits for the hub or holds it (`Underway` in `StreamInv`), so a
  stream misses nothing once it is through. That a stream is open while it is sent on is
  the read lock's part of the same invariant. For `LastNoticeIsTrue`, while moves do not
  overlap: at most one is under way; whoever has moved nothing knows the column the deal
  was in before it and, once off its list, the one it is in (`OrderlyInv`); and whoever was
  told something was told something last (`LatestInv`).

The main theorems are listed in `PROJECT.json`; the conjuncts they gather have theorems of
their own in the proof modules.

The `property` of an entry there names the property of a run that the theorem states; the
other entries are type invariants. The type invariants of the MC
modules are conjunctions over components that share no variable; each conjunct is proved
for its component where the component has proofs.

**Only model-checked.** Liveness (`EveryCallAnswered`) and ENABLED are beyond the prover.
`MCTypeOK` of an MC module speaks of its instance; its conjuncts are proved for the
components (above). What a recursive definition computes is in reach where it is a recursive
function: the library's induction theorems, which take an operator, cannot be
instantiated, but an induction over a set of numbers, or over the subsets of a finite set,
can be stated without one (`Upward` in `ReaderProofs`, `Counting` and `OneByOne` in
`BillingProofs`). The proofs about `TrackerImport` take what the preview shows (`Sheets`)
as any lists of lines of the right kind, and so hold whatever is read from a workbook. No
module uses RECURSIVE.

## 6. What goes wrong by design, and is not asked

Reading the code for the models turned up behaviour that no sentence of the repository
rules out, or that a property excepts by name:

* a logout that arrives while its token is being rotated leaves the successor alive
  (`LogoutEndsUnrotatedSession` excepts it);
* two invitations can be pending for one email; one of them can be accepted;
* while role changes overlap, an admin's call can unseat a member who has just become
  owner (`OwnersUnseatedByOwners` speaks of calls that do not overlap);
* a tracker row can end up linked to a deal that a racing delete has retired;
* a deal may be asked into `post_delivery`, which deals/service.go:12 lists and the CHECK
  of the column refuses: from the tracker the row is written and the stage is not;
* the previous stage that `move` reports comes from the statement's snapshot; after a wait
  for the row it may not be the stage that was replaced, although deals/store.go:318-319
  calls it immune to that. `Notices` has the two steps; a move that waited may tell of
  nothing, or tell a stage that a later move has replaced, which is why
  `LastNoticeIsTrue` speaks of moves that did not overlap;
* an edit of a converted lead can put it back into any stage, after which it converts
  again into a second deal (`ConvertedOnce` counts since the lead last left
  "converted");
* an unknown stage is refused after the meeting has been booked, and a retry of a failed
  advance books the meeting again (`MeetingFirst` says what is left);
* migrations/000022 keeps 'closed' and 'not interested' when it backfills, while saving
  the deal (`markLeadConverted`) and converting overrule them;
* the pool can come to a standstill: eight conversions or edits that miss at once hold all
  connections and wait for a ninth, until their clients leave (`GridlockTakesThemAll`
  says that nothing less does it);
* two conversions for a new company can make it twice; two creators can draw one position
  (dealtasks/store.go:126, delivery/store.go);
* a line's total is rounded from what was typed and the columns round each figure, so a
  document that is saved again as it was read may change its total, although
  invoices/fromquote.go:103 has recomputing give the same answer; from the second save on
  it is settled (`SavingAgainSettles`);
* a receipt under half a cent is stored as nothing; the widest quantity times the widest
  price does not fit the column and is answered with a 500; the printed rows of an
  invoice leave the discounts out that its total has in; the dashboard's queue has drafts
  in it, which are nobody's debt yet;
* the preview of a sheet and its commit may choose different rows where two rows of one
  client and place exist;
* an activity of a kind that the service accepts and the CHECK of the column does not
  (`site_visit`), or one with a subject and no body, is refused by the database and
  answered with another reason;
* an entry that names several records is kept on the most specific one only, although
  leads/handler.go has it logged against every one; the dashboard asks for entries of an
  `account` where the rows say `company`, so their label is never found;
* a booking that is retried books a second event.

## 7. Not modelled

* **Data**: columns that no guard or other statement reads (names, notes, most dates,
  addresses), positions of rows and cards, the filters and pages of lists and searches,
  the counts of the deal funnel.
* **Computation and output**: password hashing, token signing and encryption, the OIDC
  exchange, the layout of PDFs, opening a workbook (`excelize`), mail and Slack. Of PDFs
  and the dashboard `Money` has the sums, of mail nothing is promised.
* **The event worker** (`cmd/worker`, `pkg/events`): no code publishes an event to it.
* **Gateway and shared packages**: routing, CORS, paging, configuration are decided at start
  or per request and keep nothing; the pool of `pkg/database` is modelled.
* **Seed data** and the migrations, except for the CHECKs, unique indexes and defaults that
  the components' statements meet.
