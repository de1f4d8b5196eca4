# A model of the Top Vino backend

TLA+ modules for `top_vino_backend`, the TLC configurations that check them and
the proofs TLAPS checks about them. Paths below are relative to the repository;
its TypeScript is under `src/`, its operator scripts under `scripts/`.

## The system

Top Vino is a spaced-repetition service: an Express API over Postgres (through
Prisma) with Better Auth for sessions. Users own decks, decks hold cards, and a
requestor who may read a deck can study its cards. Nothing in the process is
shared between requests except the database, so all concurrency is between
`await`s: a request runs alone up to its next Prisma call, which is one
autocommitted statement.

| part | state | operations | talks to | hard about it | correct when |
|---|---|---|---|---|---|
| Deck access (`services/deckAccess.service.ts`) | none of its own | `loadDeck`, `loadCard`, `visibleDeckScope` | Deck, DeckCollaborator, Card | two reads with an await between them | whoever is let through is permitted at that moment |
| Decks, cards (`deck.service.ts`, `card.service.ts`) | Deck, Card | list, get, create, update, delete | deck access, then one statement | the statement runs after the verdict; deletes against inserts | writes land in the authorized deck, ownership is final, no dangling rows |
| Users (`user.service.ts`) | user | read, update, delete | every table that refers to a user | deletion with requests in flight | no row outlives its user |
| Reviews (`review.service.ts`) | UserCardReview, UserCardProgress | submit, due, progress | deck access | read, compute, write, write without a transaction | the progress is one SM-2 produces and a review backs it |
| Schema (`prisma/schema.prisma`, migrations) | all tables | unique and foreign keys (RESTRICT) | - | its errors are what races look like to callers | every error has a documented status |
| Pipeline (`app.ts`, routers, middlewares) | rate limit counters | gate, parse, authenticate, handle errors | auth, services | counters at their limits; two tables of Prisma codes | nothing behind a limiter runs uncounted; level and status agree |
| Environment (`utils/env.ts`, `config/*`) | `process.env` | `validateEnv`, and the readers that come later | everything loaded | the same variable is read by several modules | nothing fails after validation; production serves https origins with the newest key |
| Sessions (`lib/auth.ts`, `authMiddleware.ts`) | session, account, key ring | sign in/out, session lookup, re-signing, purge | Better Auth, user | sign-in racing revocation; key rotation | a call after the revocation is refused; a listed key costs nobody a session |
| Tester operator (`scripts/manageSyntheticTester.ts`) | user, account, a delivery file | provision, revoke | the sandbox's database | lost acknowledgement of COMMIT; two runs | a run that says so has delivered, one that fails leaves no file |
| Docs data (`lib/developmentData.ts`) | fixture rows, temporary sessions | reset, seed | auth, the local database | sessions to be removed on every path; parallel seeds | fixtures complete or untouched, no session left behind |
| Sandbox data (`scripts/sandbox-data.mjs`) | schema, grants, fixtures | seed, reset, migrate, status | the sandbox's database | reset drops everything before it restores | who exits with 0 leaves tester, fixtures and grants in place |
| Lifecycle (`server.ts`) | `shutdownStarted`, timer | start, shutdown | HTTP server, Prisma | fallback timer against the graceful path | the process exits in time; 0 only when drained |
| Release (`scripts/release/`, `release-smoke.mjs`) | migration table, the smoke's cookie | check, migrate, exec; smoke | database, HTTP | interrupted migrations; lost answers | nobody gets past a broken migration; no session of the smoke is left unreported |
| Repository policy (`scripts/repository-policy.mjs`) | none of its own | apply, capture, verify | GitHub | CI, pushes and administrators between two calls; a POST that timed out | nothing is written without evidence; a rerun makes no second ruleset |

`PROJECT.json` lists every part with its status, and the hazards with the lines
where they bite.

## Modules

```
Sm2 ── Tables ── Requests ── DeckAccess ─┬─ Services ─┬─ Api ─┬─ ApiStudy ── MCApi
                                         └─ Reviews ──┘       └─ ApiInvariants ── ApiProofs ─┬─ ScheduleProofs
                                                                                             └─ OwnershipProofs
ApiStudy, ScheduleProofs ── StudyProofs
StudyLog (abstract) ........ implemented by ................ ApiStudy

Environment ── Pipeline ── Lifecycle ─┬─ MCLifecycle
                                      └─ LifecycleProofs

SandboxDb ─┬─ SyntheticTester ── SandboxData ─┬─ Sandbox ─┬─ MCSandbox
           └─ Sessions ── Release ────────────┘           └─ SandboxProofs

FixturePromise (abstract) .. implemented by .. DocsSeed ─┬─ MCDocsSeed
                                                         └─ DocsSeedProofs

Repository ── RepositoryPolicy ─┬─ MCRepositoryPolicy
                                └─ RepositoryPolicyProofs
```

There are five systems here, which share no state: the product's requests (Api),
one server process (Lifecycle), the sandbox with its operators (Sandbox), and two
developer tools (DocsSeed and RepositoryPolicy). They meet at named seams. A
request that Pipeline has let through to `"service"` is what `Arrive` of Requests
starts with; authentication, which both take for granted, is a request of
Sessions; the ring that Environment validates is the one Sessions signs with.

The product:

* **Sm2** is the function `sm2`. Ease is in hundredths, so that the model
  computes with integers what the code computes with doubles; where a product is
  exactly half-way between two days, rounding error decides in the code and both
  results are possible in the model (`Rounded`).
* **Tables** is the database: one variable per table (or per column a service
  branches on), the statements that change it, the rows its foreign keys
  protect, and the HTTP status `handlePrismaError` gives each error code. An id
  is drawn from `unused` once and never again, as UUIDs are. Text columns,
  `Deck.lastReviewedAt`, `isMarkedForReview` and `UserResponse` are read or
  written by no service that branches on them and are left out.
* **Requests** is a request slot: `pc` names the Prisma call it awaits and the
  other variables are the service's locals. `Arrive` stands for the router, the
  authentication and the validation of an accepted request and for
  `requireOwnership`; `Interrupted` for a Prisma call that fails with a server
  error or a process that stops. Committed statements stay.
* **DeckAccess** is `loadCard` and `loadDeck`, one action per await:
  `LoadCard`, `LoadDeck` (decided by the row alone, or on to the collaborator),
  `LoadCollaborator`. `pc = "loaded"` is the return of `loadDeck`.
* **Services** has one action per operation of the deck, card and user services:
  the code after the last await together with the statement. Every
  outcome of the statement is a disjunct: success, row gone (P2025), foreign key
  (P2003). `Share` and `Unshare` are changes of `DeckCollaborator`; no route makes
  them, so they are marked external. An owner is never made a collaborator.
* **Reviews** is `submitReview` as four actions (read the progress; compute;
  insert the review; upsert the progress), `listDueCards` and `getProgress`.
* **Api** composes them and states the properties. **ApiInvariants** has the
  inductive invariants, **ApiProofs**, **ScheduleProofs** and **OwnershipProofs**
  the proofs.
* **StudyLog** is what submitting a review promises a client that waits for its
  answers: one atomic step from one scheduled row to the next. **ApiStudy** maps
  Api to it; a review whose upsert is pending is not shown.
* **MCApi** instantiates it all: the traffic of each run (`Traffic`, which user
  may send which operation over which slot) and the symmetry sets.

One server process:

* **Environment** is `validateEnv` and, one operator each, the readers of the same
  variables that run later (`LoggerLoads`, `PrismaLoads`, `AppLoads`, `Origins`). A
  variable takes one of the few classes of values that some reader tells apart;
  the entries of `BETTER_AUTH_SECRETS` are a sequence, as their order decides.
* **Pipeline** is `createApp`: `phase` names the await a request rests at, `kind` its
  route and client, `counts` the limiters' counters. A gate that does not await is
  part of the action before it (`Enter` is everything up to the body parser).
  A request for a card passes the authentication twice (`"session"`, `"again"`),
  since both routers are mounted under `/deck`. The error handler's tables
  (`HandledStatus`, `LogLevelOf`) are operators over the error types.
* **Lifecycle** is `server.ts`. `stage` is how far the module, and later `shutdown`,
  has come; `hardExit` the time at which the fallback is due; `conn` the
  connection the HTTP server knows of, kept apart from `phase`, the progress of
  the handler: a client that hangs up ends the one and not the other.

The sandbox:

* **SandboxDb** is its Postgres: whether the tables exist, the state of
  `_prisma_migrations`, the tester's user row, credential and sessions, the rights of the
  runtime role, and the fixtures. `tx` holds what an open transaction has written
  or locked; COMMIT applies it. A tester is named by the run that made it, and so
  is its password; a token by its sign-in.
* **SyntheticTester** and **SandboxData** are the operator commands, an action per
  statement: `cmd` is where a run is and its locals, `Throw` the catch and finally
  blocks, `Fail` a statement that rejects, `Kill` a killed process; each commit can
  succeed and lose its acknowledgement.
* **Sessions** is the before-hook of `auth.ts`, `authMiddleware` and what Better Auth does
  around them: `VerifyPassword` and `Mint` are the two halves of a sign-in, `Hook`,
  `Purge`, `GetSession` and `CustomSession` the awaits of an authenticated call.
* **Release** is `entrypoint.sh` with `migrate.mjs`, and `release-smoke.mjs`, whose
  requests are requests of Sessions and whose answers can be lost.
* **Sandbox** composes them. `cast` says who takes part in a behaviour. `deleted` is a
  history variable: the cards the tester deletes between the INSERT and the COMMIT
  of a seed, which the INSERT has found and which the COMMIT does not bring back.

The developer tools:

* **DocsSeed** is `seedDocsData` await by await with its cleanup and `$disconnect`,
  beside resets and a developer who edits, deletes and changes the password.
  **FixturePromise** is what a seed promises of the fixtures: one step that
  completes them, or none. The refinement is the identity on `deck` and `cards`,
  with `deleted` as the one history variable: a card that was deleted after the
  seed had seen it stays away.
* **Repository** is GitHub, external: a pull request, its check runs, the settings
  and rulesets, and what others do to them (`World`). **RepositoryPolicy** is the
  script, one call per action. `green`, `since` and `raced` are history variables that
  the properties need; no action reads them.

The MC modules hold instances only. `PROJECT.json` maps every definition to its
lines. Operators whose comment begins with "Faulty variant" are no part of the
model: each is a plausible mistake that the named property must find.

## What is checked

| run | instance | shows |
|---|---|---|
| `access` | 2 users, 2 decks, 1 card; deck, card and user operations | `VerdictSound`, `WritesStayInDeck`, `OwnerForever`: with any interleaving and any change of collaborators, a request let through is permitted then; a card write lands in the deck that was authorized and named in the path; a deck is ended only by its owner. `References`, `DocumentedAnswer`: deletes and inserts that overtake each other leave no dangling row and answer only what `openapi.ts` lists (of the operations in this run's traffic; `same_tick` has the exception) |
| `study` | 1 user, 1 card, 3 ticks, one interruption, both slots submitting | `ScheduleWellFormed`, `ProgressBacked`: lost updates and half-done submissions leave a row SM-2 can produce and that recorded reviews account for |
| `clients` | a student and an owner, one slot each, one interruption | `References`, `CollectionsScoped`, `AtomicStudy`: due lists show only what may be read, and submissions are StudyLog's atomic steps |
| `server` | 2 requests of one client on every route, 2 signals, deadline 1, time looked at until 2; a good environment and every environment one change away from it | `NoLateFailure`, `ProductionBoundary`: what `validateEnv` accepts loads, and serves within the production rules. `QuotaHolds`: nothing reaches a body, a session or a service uncounted. `GracefulExit`, `ExitsInTime`, `EventuallyExits`: the fallback against the last answers, `$disconnect` and a second signal. `FailuresLevelled`: whatever an answered request failed with, a server fault is an error record |
| `sandbox` | the casts of `Groups`; 1 fault, 2 releases, 1 lost answer, 2 cards | `RevokedRefused`, `RetainedKeysHonoured` of sessions; `DeliveryFile`, `Delivered` of provision; `DataComplete`, `EditsPreserved`, `TesterWhole` of seed and reset; `HistoryDenied`, `RightsReported` of the grants; `MigratedBeforeServing` of the releases; `SmokeCleansUp` |
| `docs` | 2 seeds, a reset, a developer, 2 cards, 2 faults | `TokensRemoved`, `OthersSessions`: every session of a seed goes and no other; `AtomicSeed`: the seed implements FixturePromise; `SeedComplete`: a seed that exits with 0 and was left alone has done its work |
| `policy` | 2 runs, 2 heads and a merge commit, 1 event from outside, 1 failed call | `EvidenceFirst`, `RerunUpdates`, `Vouched` |
| `listing_race` | as `access`, lists of cards | `CollectionsScoped` is **violated** |
| `same_tick` | one user submitting twice | `DocumentedAnswer` is **violated** |
| `editor_opens` | deck updates and collaborators | `OwnerOpens` is **violated** |
| `hung_up` | as `server`, one environment | `WorkFinished` is **violated** |
| `late_session` | one operator and two browsers | `RevocationImmediate` is **violated** |

Each of the first seven also checks the type invariant of its system or relies
on a run that does.

What the violations say about the code:

1. *Listing a deck's cards.* ADR 0001 says collections carry the visibility
   scope in their query. `listCardsForDeck` calls `loadDeck` and then selects by
   `deckId` alone: if the deck is hidden in between, its cards are still listed.
2. *Two submissions in one millisecond* meet the unique key of
   `UserCardReview` and the second is answered 409, which `openapi.ts` does not
   document for `POST /review`.
3. *Opening a deck.* The glossary's public deck is opened by its owner;
   `updateDeck` lets an editor set `isPublic`.
4. *Exit code 0.* `docs/production-image.md` says that a signal lets in-flight HTTP
   work finish. `server.close` waits for connections: when the client has hung up,
   its handler is cut between two statements and the process still exits 0.
5. *Immediate revocation.* `docs/synthetic-testers.md` says a session minted by a
   sign-in in flight cannot authorize a request after the revocation. The hook
   reads the credential before Better Auth reads the session; a call that was
   past the hook when the revocation committed is still answered with such a
   session. `RevokedRefused`, which is checked and proved, is what does hold: every
   call that *arrives* after the revocation is refused.

### Bounds

*The product.* Every run has two request slots; two is what every race named
here needs, since the third party, the collaborator rows, changes by itself. `Quality`
{2, 5} is a lapse and a success. `Day` is one tick. `MaxInterval` stands for the
longest interval whose date JavaScript can represent: small, so that it is
exceeded. `MaxClock`, `MaxFailures` and the sets of ids bound the state space.
`clients` names its user and slot and uses no symmetry. Its serial student is an
assumption: with two submissions in flight for one card the upsert of one
overwrites that of the other, and `AtomicStudy` does not hold (the glossary and
the API promise nothing about that case; `study` shows what remains true then).

*The server.* With limits of 1 the second request of the client is one too many;
one window may end. Two signals are enough for a second one to do harm. A
deadline of one tick and a second tick let time be late. Environments differ from
a good one in one variable, or are another ring; the theorems below are about all.

*The sandbox.* `Groups` says who is there together: two operators and the tester's
edits; one operator with two browsers, with a release or with the smoke; a release
with the browsers or the smoke. Every race the hazards name is between two of
these. One fault is a statement that rejects, a killed process or a lost
acknowledgement; `MaxReleases` of 2 is one deployment next to the release that serves.
`RevokedRefused` needs two requests, the sign-in and the call.

*The seeds.* Two faults are a failed call and a failed cleanup of the same run; two
cards allow one to be there and one not.

*The policy.* `Written` takes the first and the last of the six settings, whose order
`AllWritten` keeps, so that a failure can fall before, between and after. One event
may fall between any two calls; two runs overlap, or are one run repeated.

Deadlock is not checked: the systems stop when every id is used, every command has
ended or the process is gone.

### Assumptions on the environment

*Fairness.* Only Lifecycle states any, for `EventuallyExits`: `WF_vars(Start)`, a module
that Node has begun to load is run; `WF_vars(Tick)`, time passes; and
`WF_vars(HardExit)`, the event loop runs a timer that is due. Nothing is assumed of
clients, handlers, `$disconnect` or the callback of `server.close`. No liveness is
stated of the rest: a request or a command waits for the database, and a lock
always ends with its transaction, so that progress would restate the fairness assumed.

*One reset.* The runbook freezes writes and names one operator for a reset.
`OneReset` takes it at its word: no two resets are under way at once. When one has ended,
failed or killed included, the next may start, as `docs/sandbox-database.md` has the operator do
after a failed replay. Other commands may overlap with a reset, and the model shows
what then happens: a revocation between the
read of the credential and its restoration is undone by the reset. No property
forbids it, since the runbook excludes it.

*Postgres.* Transactions run READ COMMITTED, a statement is atomic, an insert waits for
an open transaction that inserts the same key, and DDL waits for all.

*Better Auth, express-rate-limit, Prisma Migrate and GitHub* are external and
modelled as far as the code relies on them.

## What is proved

The theorems hold for every set of users, decks, cards and slots, every traffic
and every bound. In `ApiProofs`:

* `TypeCorrect`: `Spec => []TypeOK`. The type invariant is not inductive: a
  statement's target is an id only if the request has been placed where its
  operation takes it. `LocalsOK` says what a request's locals are at each of its
  awaits. `Sm2Nat` is the lemma that `sm2` maps natural numbers to natural
  numbers, half-way rounding included.
* `ReferencesHold`: `Spec => []References`. The inductive invariant is
  `IInv = TypeOK /\ References /\ LocalsOK /\ UpsertPinned`. All statements but one
  check the keys they rely on; the upsert of `submitReview` does not, and
  `UpsertPinned` says why it needs not: the review inserted before is still there, and
  its foreign keys keep the user and the card.
* `VerdictsAreSound`: `Spec => VerdictSound`. The case that needs the invariant is
  `LoadCollaborator`, which does not look at the deck again: the collaborator
  row it reads is a reference, so the deck still exists.
* `CollectionsAreScoped`: `Spec => CollectionsScoped` for traffic `Without("listCards")`.
  That list is the one that is not built from the visibility scope, and the
  run `listing_race` is the counterexample with it.
* `AnswersAreDocumented`: `Spec => DocumentedAnswer` for traffic `Without("submitReview")`.
  Two submissions of one card within a millisecond are answered 409, which
  `openapi.ts` does not list (`same_tick`). All other operations can lose any race
  and still answer what is documented.

Both need `AInv = IInv /\ Admitted`: a pending request is one its slot's traffic allows.

In `ScheduleProofs`, over the inductive invariant
`SInv = IInv /\ RowsOK /\ ScheduleWellFormed`:

* `ScheduleHolds`: `Spec => []ScheduleWellFormed`. A submission computes from a
  row it read some steps earlier, so the invariant must say of every row in
  flight what it says of the table: `RowsOK`. That `sm2` leads from such a row (or
  from none) to such a row is a lemma about the function alone; the dates are
  those of the moment it was computed.
* `ProgressIsBacked`: `Spec => []ProgressBacked`, over `BInv`, which counts. A submission
  is ahead of the table by the success it has computed and not yet inserted
  (`Covered`): at `review` its count is at most one more than the recorded successes,
  at `upsert` at most as many, with its own review among them. No statement
  deletes a review, so what other submissions insert meanwhile can only help.

In `StudyProofs`, over `StudyInv = AInv /\ Dated /\ Undisturbed`:

* `StudyIsAtomic`: `Spec => AtomicStudy`, the refinement of StudyLog, if a user's
  submissions come over one slot (`SerialStudents`). Then what a submission has read
  is still the table's when it computes from it, and the review it has inserted
  is the last of its card when the upsert comes (`Undisturbed`), so the row that
  the refinement hides (`Pending`) is its own. A failure in between leaves the
  review without the progress, which is a step of StudyLog (a review that is
  recorded and not scheduled). Two submissions at once do overwrite each other's
  progress, so the hypothesis is needed; `ProgressIsBacked` is what remains without it.

In `OwnershipProofs`, over `HInv = IInv /\ NoReuse /\ Held`:

* `OwnersAreForever`: `Spec => OwnerForever` and `WritesStay`:
  `Spec => WritesStayInDeck`. `deleteDeck` and the card writes act on a verdict that
  may be many steps old. `Unborn` is the set of ids that have no row yet, and
  only shrinks; an id a request has seen in use is not in it, so no create can
  bring it back with another owner or in another deck. Hence what `loadDeck` and
  `loadCard` have seen is still so or is gone (`Held`), and a statement on a row
  that is gone changes nothing.

TLC checked the invariants of this section on the instances of the runs before they
were proved.

In `LifecycleProofs`, over `ShutdownInv` (the flag follows the stage; a running
process that has been signalled has its fallback armed for `Deadline`, and time has not
passed it; `$disconnect` runs without connections):

* `AlwaysExitsInTime` and `AlwaysGracefulExit`. `ExitsInTime` alone is not inductive:
  it needs that nothing clears or re-arms the timer while the process runs. For
  `GracefulExit`, no answer and no new connection may undo `NoConnection` between
  the callback and the exit: requests are accepted only over idle connections.

and over `EnvInv` (whatever runs after `validateEnv` runs in an environment that it
  accepted), for every set of environments:

* `NeverFailsLate` and `AlwaysProductionBoundary`, where TLC tries one change at a time.

and of the pipeline:

* `QuotaIsKept`: `Spec => []QuotaHolds`, over `QuotaInv`. The limiter's counter goes on
  counting what it refuses, and starts again with each window; `Allowance` is what
  the windows that are over may have let through plus what the counter says of this
  one, up to the limit. A request is admitted by a counter below the limit, which
  counts it in the same step.
* `FailuresAreLevelled`: `Spec => []FailuresLevelled`, case by case over the two tables of
  codes, for every code and thrown error.
* `LifecycleTypes`: `Spec => []TypeOK`.

In `SandboxProofs`, over `SandboxInv` and `DeliveryInv`, for any number of commands,
requests, releases and faults:

* `AlwaysRevokedRefused`. The invariant `Refused` says of a call that came after
  the revocation that once a credential exists again its session does not. It needs three
  other facts: sessions are those of the user there is (`Owned`), so that a user
  who comes back has none; no sign-in under way will mint a token that some cookie
  already names (`Spent`); and one transaction at a time inserts a tester (`OneInserts`).
* `KeysAlwaysHonoured`. A purge is of the sessions of the user whose session the
  request came with (`PurgesOwn`), so that a 401 for a listed key has a lost session.
* `AlwaysDeliveryFile` and `AlwaysDelivered`. A file is in the hands of the run that
  created it (`FileOwned`), and a run between `open` and COMMIT has it (`DeliveryInv`).
  `DeliveryFile` says three things: no failed run leaves its file, a run that has
  exited with 0 has it for good, whoever loses against it later, and a password
  that is in no file is that of a run which has reported failure, as it happens when
  the acknowledgement of COMMIT is lost. The last is over `PasswordInv`: whatever
  password there is, or a reset keeps in memory, was committed by a provision that
  has ended (`Known`).
* `AlwaysHistoryDenied`. Default privileges exist only together with the table of
  history (`HistoryKept`), which is what the order replay, grant, alter of a reset is for.
  This is where `OneReset` is used: a second reset would drop that table in between.
* `AlwaysDataComplete` and `AlwaysEditsPreserved`, over `DataInv` and `FoundInv`. A
  seed runs its transaction on the fixtures under a lock that a reset would have
  to wait for, so the deck it holds is the tester's and no card is foreign when it
  commits (`OnFixtures`). A reset runs many statements after its drop: tables, tester,
  password and rights are there again one by one (`Rebuilt`), and everything else
  that happens meanwhile is `Calm`: it takes none of them away but the password, by
  a revocation. `credential' \in {None, ...}` of `DataComplete` is that case. The cards
  are all there but those in `deleted`, and the exception is real: a card that
  another seed has inserted is skipped by this seed's INSERT and not locked by it, so
  that the tester may delete it before this seed commits and exits with 0. `FoundInv`
  follows each card from the INSERT to the COMMIT: the run has inserted it, or it is
  there, or it is in `deleted`. Apart from a reset only the tester rewrites or deletes an
  edited card, and nobody one in somebody else's deck.
* `AlwaysMigrated`: `Spec => []MigratedBeforeServing`. A release serves only after a
  deploy of its own that left the history current. A later deploy that fails has
  nothing to apply and leaves it current; only a reset that has dropped the schema and
  not brought it back takes it away (`"replay"`, `"1"`, `"killed"`).
* `AlwaysRightsReported`: `Spec => []RightsReported`. Only a drop takes rights from the runtime
  role, and the reset that dropped ends with 0 only after it has granted them all.
  A seed that succeeds after a failed reset therefore hides nothing: the failed reset
  is what the operator has been told. This too rests on `OneReset`.
* `AlwaysTesterWhole`: `Spec => TesterWhole`. User and account are inserted in one transaction
  by provision and by the restore of a reset, so that no failure leaves the one
  without the other, a state neither command could get out of.
* `SignOutInvariant` and `AlwaysSmokeCleansUp`, over `CleanInv`. A sign-out that is answered
  200 has ended the session of its cookie, or its cookie was signed with a key
  that had left the ring (`SignedOut`): then nothing is found to end, and Better Auth
  answers 200 all the same. This holds for any number of releases. That the smoke
  leaves no session is proved for at most one deployment during it
  (`MaxReleases <= 2`, as in the run `sandbox`), since a key survives the first rotation
  (`OneRotation`). The hypothesis is needed: with `MaxReleases = 3` TLC finds a smoke
  that signs in under the ring <1>, sees <2, 1> and then <2> deployed, signs out
  with 200, and leaves its session. A smoke runs for seconds in the middle of one
  deployment, which is why the property is stated for one.
* `SandboxTypes`: `Spec => []TypeOK`, from these and `TypesInv`.

In `DocsSeedProofs`, over `SessionInv` and `FixtureInv`:

* `AlwaysTokensRemoved`, `AlwaysOthersSessions`, and `SeedIsAtomic`: every step of
  DocsSeed is a step of FixturePromise or leaves `deck`, `cards` and `deleted` alone. The
  hard step is COMMIT, many awaits after the preflight: what the preflight saw is
  still so, was deleted by the developer, or was erased by a reset (`Kept`,
  `Stale`). After a reset the deck comes back only with all its cards (`Rebuilt`),
  and a transaction whose own deck row is pending has not lost its user to a reset.
* `AlwaysComplete`: `Spec => []SeedComplete`, over `SeedInv`. While only seeds are at work,
  the user, the verified password and the completed fixtures that one of them has
  come past stay as they are under every step of the others and every failure
  (`Followed`, `Quiet`).
* `SeedTypes`: `Spec => []TypeOK`.

In `RepositoryPolicyProofs`, over `EvidenceInv` and `RulesetInv`:

* `AlwaysEvidenceFirst`: pull request, check runs and pull request are read in
  separate calls, yet a run that writes has a commit that was green at one moment.
  One call reads all check runs of a commit, `Tested` picks the one commit both
  jobs have reported on and `CheckResults` wants both successes there, so what was
  read of it is its state at one time (`Read`); the pull request is read once more
  before anything is written.
* `AlwaysRerunUpdates`: a run that is about to write a ruleset has found the one
  there is (`Found`), if runs do not overlap.
* `AlwaysVouched`: `Spec => []Vouched`, over `WatchInv`, for any number of runs that do
  overlap. What a run has read back is what there is, apart from what has changed
  since (`Watched`); the list of rulesets and the rulesets are read by separate
  calls, and a ruleset that comes or goes in between counts as changed since.
* `PolicyTypes`: `Spec => []TypeOK`, where the ids of rulesets are used once.

Assumptions, all evaluated by TLC in the runs: of the product `NoneAssumption` (NULL is
no id), `IdsAssumption` (no UUID is both a deck's and a card's), `RequestsAssumption`
(the traffic is a set of pairs per slot, grades are 0 to 5) and `ReviewsAssumption`
(`Day` is positive); `PipelineAssumption`, `LifecycleAssumption` (the deadline is
positive) and `EnvironmentsAssumption` (a ring is a sequence of entries);
`SandboxAssumption`, `KindAssumption` and `DocsAssumption` (names are distinct; the
documentation fixtures have a card), `OperatorAssumption` and `ReleaseAssumption`
(bounds are numbers, and there is a first release), `RingsAssumption` (a ring that
`validateEnv` accepted is a sequence with an entry); `RepositoryAssumption` and
`PolicyAssumption`.

Every invariant and action property that a passing run checks is stated by a theorem.
Four carry a hypothesis beside the assumptions, which the configuration of the run that
checks them satisfies: the traffic of `CollectionsAreScoped`, `AnswersAreDocumented` and
`StudyIsAtomic`, without which TLC refutes them; `AlwaysSmokeCleansUp` has the number of
deployments.

Only model-checked: `EventuallyExits`, as liveness under fairness is beyond the prover,
and the five refutations. What `sm2` computes, beyond the ranges that `ScheduleHolds`
needs, is a definition that no property restates.

## Not modelled

* `scripts/sandbox-probe.mjs` (two attempts of two GET requests), the `verify-*`
  scripts, `assemble-migration-runtime` and `setup-*.sh`: sequential drivers of Docker, npm,
  GitHub and text files that keep no state of the system.
* Better Auth's own endpoints beyond sign-in, sign-out and the session lookup, and
  the development configuration of `auth.ts`.
* Which inputs the Zod schemas refuse (a request is valid or not), the wording
  of answers, the order of lists, headers (CORS, CSP, request ids) and the
  static OpenAPI document but for its statuses.
* The format and redaction of log records; only their level is.
* Statement-level isolation of the product beyond "one statement is atomic" (the code
  opens no transaction in a service). `Interrupted` covers a statement that was not
  executed; one that was executed looks like an `Interrupted` at the next await, or,
  if it was the last statement, differs in the answer only.
* GitHub's pagination: a list is one call.

`PROJECT.json` gives the reason for each component left out.

## What could come next

1. Password changes and session revocation through Better Auth next to the
   operator's commands.
2. A smoke across two rotations: what it would have to report for
   `AlwaysSmokeCleansUp` to hold without its hypothesis.
3. `EventuallyExits` from lemmas on what `Tick` and `HardExit` enable, should the prover
   learn to reason about ENABLED.
