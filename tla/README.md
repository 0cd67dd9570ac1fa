# A TLA+ model of the SkillBridge back end

The repository is a NestJS service: one Node process over PostgreSQL, with an optional
Redis for background mail. Its own logic is about accounts: registering, verifying an
e-mail address, signing in by password, Google or a second factor, keeping one
refresh-token session, resetting a password, and completing an onboarding profile.

Handlers run on one event loop and are interrupted at every `await`. There are few
transactions and no locks taken by hand: what keeps concurrent requests apart are single
SQL statements with a condition in their WHERE clause, unique indexes, and foreign keys.
**So every model splits a handler at its database statements, one statement per action, and
lets any other request run in between.** Which of the orders that gives are harmless, and
which are not, is what the project is about.

Paths below are relative to the repository's `src/src/` unless they start with `docs/` or
`system-design.md`; `PROJECT.json` maps each definition to its lines.

## 1. Inventory

### Modelled

**Refresh-token sessions** (`modules/auth/auth.service.ts`, `modules/users/users.service.ts`,
`modules/users/actions/user.action.ts`). State: the column `users.refreshTokenHash`, which
holds the hash of the one refresh token a user may use, and the tokens clients hold.
Operations: five sign-ins (login, verify2fa, verifyEmail, OAuth callback, onboarding) end in
`persistRefreshToken`, a blind UPDATE; `refresh` reads, signs, and replaces the hash by a
compare-and-set; `logoutByRefreshToken` reads, compares, and clears; `resetPassword` and the
administrator's PATCH and DELETE write in one statement. Hard: all of them write one column
from what they read before an await. Correct if a token is exchanged at most once, a spent or
logged-out token never comes back, a user's column never holds somebody else's token, and no
unverified account holds a session.

**One-time codes** (`verification-otp.service.ts`, `password-reset-otp.service.ts`). State:
a table of codes with `used_at`, `expires_at`, `created_at`. `issue` invalidates the active
codes, hashes, inserts; `consume` selects the newest active code, verifies the hash, marks it
used by a conditional UPDATE. Hard: three awaits in one, two in the other, and a clock that `consume`
looks at in its first statement only. Correct if a code is accepted once, a superseded one never, and
one that has expired only if it did so between the two statements.

**Registration and e-mail verification** (`AuthService.register`, `resendVerification`,
`verifyEmail`). State: the users row and where each request is. Hard: look-up then INSERT,
count then issue, consume then mark verified, and a mail provider that fails after the rows
are saved; and a second writer of `users.is_verified`, the Google callback, which needs no code.
Correct if one of several registrations wins, each verification used up a mailed code of its own,
and the account is verified by such a code or by a callback that vouched for the address.

**Two-factor authentication** (`setup2faTotp`, `enableTotp2fa`, `disable2fa`, `verify2fa`).
State: three columns of the users row. Hard: each handler reads the row and writes some of
the columns later. Correct if 2FA is on only with a secret the user has proven, else the
account cannot be signed in to.

**Password-reset delivery queue** (`password-reset-queue.service.ts`,
`password-reset-delivery.service.ts`, `config/redis-queue.ts`). State: `inlinePending`, the
list of idle waiters, the BullMQ jobs. Hard: promises nobody awaits, a `finally` that counts
down, a process that stops between two steps, at-least-once delivery. Correct if the counter
is exact, no waiter is forgotten, a job that Redis holds is settled in the end, and repeats
are bounded.

**Outbound e-mail queue** (`modules/mail/outbound-email-queue.service.ts`). The second stage of
the reset mail. State: BullMQ jobs that carry a checked payload. Operations: without Redis
`enqueuePasswordReset` sends; with Redis it awaits `queue.add`, and a worker of the same process
checks the job's name and payload and sends. Hard: the delivery is at-least-once on top of an
at-least-once delivery, and one stop hits both workers. Correct if every hand-over becomes one
e-mail job and no other, every job ends, and a request mails more than once only because of stops.

**Password reset end to end** (`AuthService.forgotPassword`, `PasswordResetDeliveryService`,
`AuthService.resetPassword`, `UsersService.updatePassword`). State: the codes, the password,
where each delivery and each reset is. Hard: the answer of the first request precedes the
delivery, a delivery cut short after it mailed is done again, `consume` and the UPDATE of the
password are statements apart, codes expire, the user may be removed at any point. Correct if
each code changes the password at most once, by a request that alone used it, and never after a
newer code took its place.

**OAuth account provisioning** (`UsersService.resolveOAuthUserFromProviderProfile` and what it
calls, `AuthController.googleAuth*`, `guards/google-auth.guard.ts`). State: `users` and
`user_oauth_accounts` with their unique indexes and foreign key, and the `oauth_signup_role`
cookie of a browser. Hard: up to seven statements, two recovery paths after a unique violation,
against registrations and administrator edits; one cookie for any number of flows, some of which
never come back. Correct if a Google account always signs in the same user, links are made to
verified users only, a callback fails over a real conflict only, and a signup path gives its own
role.

**Inquiries** (`modules/inquiries/inquiries.service.ts`). State: `waitlist_entries` with its
unique index, `contact_messages`. Operations: `joinWaitlist` looks up, then inserts;
`createContactMessage` inserts. Hard: two requests for one address, in different spellings,
between the two statements, and any statement may fail. Correct if an address is listed once and no
answer contradicts the tables.

**Talent and employer onboarding** (`modules/talent/talent.service.ts`,
`modules/employer/employer.service.ts`, and the `...ForOnboarding` and `...WithManager` methods
of `users.service.ts`). State: `users.role`, `users.onboarding_complete`, one row in each of two
profile tables. Operations: a transaction that reads the user, looks for a profile, inserts one
and sets the flag; then a session, outside of it. Hard: the role and the flag are read before
the INSERT and never again, the waits on a unique index, a row lock and the connection pool, and
failures on either side of the commit. Correct if profile and flag are saved together or not at
all, one submission wins, answers say what was saved, and nothing waits in a circle.

**User administration** (partly): password, e-mail, role and removal, where they meet the above.

**Access control** (partly): what `JwtStrategy.validate` and `RolesGuard` read, where a later
statement relies on it.

**Cookies, durations and redirects** (partly): the signup-role cookie, and which answers deliver
tokens.

### Not modelled, and why

| Part | Why |
|---|---|
| Candidate onboarding | the code of talent onboarding over an older table; `AppModule` does not import it, so no route reaches it |
| Parsing of durations and of cookie headers, post-login paths | pure functions over strings; no property of the state depends on more than their being functions |
| LinkedIn helpers | nothing calls them |
| Mail templates and provider | formatting; accept or error of the provider is an input |
| Health, probe, welcome | constant answers |
| Configuration | read once at start; its values are constants of the modules |
| Filters, interceptors, error types | response shaping; the models keep the status |
| Migrations and seeds | one-off schema changes; the indexes and foreign keys they make are guards of the statements |
| Listing and reading users, edits of names | no state that a property is about |

### How the parts interact

`verifyEmail` consumes a code and then signs in: EmailVerification extends OneTimeCodes and
drives its actions from the handlers; the session part is in Sessions, where `VerifyEmailRead`
stands for a request whose code was accepted. `forgotPassword` enqueues a delivery, which issues
a code and hands a mail over, which `resetPassword` consumes before it sets the password and
clears the session. PasswordReset composes the code service with the handlers on both ends and
lets deliveries wait, run, be cut short and be done again; how they are queued, and that they are
done again once at most, is DeliveryQueue; MailPipeline extends that by the second queue; the
session that ends is `Reset` of Sessions. The flows of a browser in OAuthSignup extend
OAuthProvisioning, which they enter with what the cookie held; they end in `finalizeOAuthLogin`,
`OAuthRead` of Sessions. A password login with 2FA on ends in a state token instead of a session:
`Login` of TwoFactor, and the condition on `two_fa_enabled` in `LoginRead` of Sessions.
Onboarding ends in `issueSessionForUser`: `IssueSession` of Onboarding is whether it succeeds,
`OnboardingRead` of Sessions what it writes.

## 2. Modules

| Module | What it is |
|---|---|
| `Sessions` | every handler that writes `refreshTokenHash`, and those that write the columns it depends on |
| `SessionSlot` | abstract: a slot per user, families of tokens that open, are exchanged within, and end for good |
| `OneTimeCodes` | `issue` and `consume` at their statements, with a clock |
| `EmailVerification` | register, resend and verify of one address, over `OneTimeCodes` |
| `PasswordReset` | forgot, deliver and reset of one account, over `OneTimeCodes` |
| `ResetGrants` | abstract: grants that open, are withdrawn or claimed, and change the password once at most |
| `TwoFactor` | the second factor of one account |
| `DeliveryQueue` | inline and BullMQ deliveries, waiters, crashes and shutdowns |
| `MailPipeline` | `DeliveryQueue` with the outbound e-mail queue behind it |
| `OAuthProvisioning` | Google callbacks against registrations and edits |
| `OAuthSignup` | the flows of one browser around `OAuthProvisioning`, with the signup-role cookie |
| `Onboarding` | submissions of both onboarding forms for one user, with the locks and the pool |
| `Inquiries` | the waiting list and the contact form |
| `MC*` | symmetry sets for TLC (the others have none: liveness, or too small to need one) |
| `*Proofs` | theorems |

Conventions. A request, call or delivery is handled once and is an element of a constant set;
where it is between statements, and what it carries from the earlier ones, is its entry of
`req`, `handler`, `call` or `job`, and stays there as a record once it has answered.
A token, code, secret or row is named by the request that made it: hashing, encryption and
encoding are then faithful by construction of the names, and equality of two random values is
left out. Operators marked "Seeded fault" are variants of the action below them with one
plausible mistake; no behaviour uses them, they are there to show which property would see it.
History variables, which nothing reads but properties: `written` (Sessions), `mailed`
(DeliveryQueue), `sends` (MailPipeline), `changed` (PasswordReset), `freed`
(OAuthProvisioning), `listed` (Inquiries), `roleMoved` (Onboarding), the fields `seen` and `at` of a
call (OneTimeCodes: the rows saved, and the time, at its first statement), and four that record the
race a statement of the documentation does not survive, as narrowly as it can be said: `raced`
(Sessions: the sign-ins that were in flight at a reset), `crowd` (EmailVerification: the most
resends there were between their count and their save at once), and `crossed` (TwoFactor: an
enable and a setup or disable wrote across each other; PasswordReset: a code was saved, or the
password set, across another). The properties that read them say that nothing but
that race does it, whatever else overlaps.

### Sessions
`LoginRead`, `Verify2faRead`, `VerifyEmailRead`, `OAuthRead`, `OnboardingRead` stand for a
handler from its start to the signing of the tokens; `Persist` is the UPDATE. `RefreshRead` /
`Rotate`, `LogoutRead` / `LogoutClear` are the two halves of those handlers. An UPDATE of a
row that was removed hits nothing. A code or TOTP accepted before is an input here; the
modules below say when it is. Expiry of a JWT is answered before any state is read, and is
left out.

### OneTimeCodes and EmailVerification
`BeginIssue` is the invalidating UPDATE, `FinishIssue` the INSERT after the argon2 hash;
`SelectLatest` and `MarkUsed` the two statements of `consume`. `Tick` moves the clock, so that
a code can expire between any two statements. In EmailVerification each action names the
statement and the next place of the handler; `Mail` may be refused by the provider, which
leaves the rows. Only codes that were mailed are presented, so guessing is left out. `OAuthFind`,
`OAuthInsert`, `OAuthRefind` and `OAuthMark` are the statements of a Google callback that look the
address up, insert it as verified, or mark it so; its link is in OAuthProvisioning, and a callback
whose link is there already does nothing to the row and is left out. Removal of users and changes of
their e-mails are in OAuthProvisioning and Sessions, not here.

### PasswordReset
`Forgot` is the answer of `forgotPassword`; `StartDelivery`, `IssueFirst`, `IssueSecond` and
`HandOver` are the statements of `deliverForUser`, `Settle` its return; `ResetFind`,
`ResetSelect`, `ResetMark` and `ResetUpdate` those of `resetPassword`. `Crash` ends what the
process holds; a job of Redis stalls, and `Redeliver` does it again as a call of its own.
`RemoveUser` takes the codes with the row, so that `consume` finds none and the INSERT of a code
is refused by the foreign key. `ResetGrants` is implemented with a stored, unused code of a
present user as an open grant, whether or not it has expired: `consume`'s UPDATE does not look at
`expires_at` again.

### TwoFactor
Every handler reads (`SetupRead`, `EnableRead`, `DisableRead`) and then writes exactly the
columns its UPDATE names (`SetupUpdate`, `EnableUpdate`, `DisableUpdate`). A TOTP code is
named by the secret it was computed from. `Login` and `Verify` write nothing; they are there
because they are what the columns decide about.

### DeliveryQueue and MailPipeline
`redis` is whether `REDIS_URL` is set, both values in one run. A delivery moves from `new` to
settled; `LoseMemory` is what a stop of the process does to what it held: inline deliveries,
a `queue.add` in flight and waiters are lost, a job in a worker stalls. `Close` and `Exit` are
`onModuleDestroy`, which waits for the worker but not for inline deliveries. BullMQ and the
supervisor are external and marked so: one job at a time (worker concurrency 1), one attempt,
and a stalled job put back once, as BullMQ's default `maxStalledCount` has it. A job stalls only by a
stop here: that a live worker fails to renew its lock in time, and another takes the job while it still
runs, is outside the model, and so is what that would add to the bounds on repeats. In MailPipeline
the delivery's hand-over is `DeliverMail`: it sends, or puts an e-mail into the second queue,
named by the delivery and the turn at which it was handed over; `TakeEmail`, `SendEmail`,
`SettleEmail` are the worker, and a stop hits both queues at once.

### OAuthProvisioning
`FindLinked`, `FindByEmail`, `CreateWithLink`, `FindRaced`, `MarkVerified`, `Link`,
`RecheckIdentity`, `RecheckUser`, `Load` are the statements in the order of the code, the
transaction of `createUserWithOauthLink` being one. `NoSignupRole` is the answer to a login
without a role. `Edit` is what an administrator and `verifyEmail` do to the rows meanwhile.
Removing a linked user is refused by the foreign key, as the migration declares it.

### OAuthSignup
`StartPlain` and `StartSignup` send the browser to Google, the latter with the role in the
cookie; `Return` is the start of the callback, which reads the cookie and then the link;
`Refused` a return that the guard answers with a 400 before the handler, which leaves the cookie;
`Answer` clears it, whatever the resolution came to; `Expire` is its ten minutes. The model takes
the browser to send the cookie on the way back from Google. It does with `AUTH_COOKIE_SAMESITE`
set to `lax` or `none`, as `.env.example` suggests; with the default `strict` of
`modules/auth/auth.cookies.ts:13` it does not, every callback reads no role, and a signup ends in
`roleRequired`: those behaviours are the ones of the model in which the cookie expires first.

### Inquiries
`JoinFind` and `JoinSave` are the two statements of `joinWaitlist`, `ContactSave` the one of the
contact form, each of which may lose its COMMIT's answer and so leave a row behind a 500;
`StatementFails` is an error that leaves none, `Answer` the response, `Stop` a stop of the process,
after which the client does not know. An address comes in several spellings and `Normalize` makes them one, as `trim` and
`toLowerCase` do.

### Onboarding
`Arrive` is the guards of the route, `Begin` taking a connection and BEGIN, `ReadUser`,
`CheckProfile`, `InsertProfile`, `MarkOnboardingCompleteWithManager` and `Commit` the transaction,
`IssueSession` what follows. `user` and `profiles` are what is committed; what an open transaction
has done is in where its request is, and becomes visible with `Commit`, as READ COMMITTED has it.
The waits are guards: an INSERT waits for an uncommitted profile of the same kind, the UPDATE for
another transaction that updated the row, a removal for any that refers to it. `Fail` is an error
of the statement at hand, `Crash` the process. The two services are one definition with a kind,
as their code is the same statement for statement.

## 3. Runs

| Run | Instance | What it shows |
|---|---|---|
| `sessions` | 2 users, 4 requests of any kind | rotation, finality of spent and logged-out tokens, sessions only for verified accounts, users are not mixed up, no session outlives a reset but that of a sign-in it raced with, the handlers implement `SessionSlot` |
| `verification` | 4 requests, 3 in flight, lifetime 1, hour 1, clock 0..2, limit 1 | codes are accepted once, only if they were good when selected, and die when superseded; one registration; verified by a code of its own or a Google callback; the limit is exceeded by no more than the resends that counted together |
| `two_factor` | 5 requests, 3 in flight | dropped secrets stay dropped; enabled secrets are proven unless an enable and a setup or disable cross |
| `password_reset` | 4 deliveries or resets, lifetime 1, clock 0..1, with and without Redis | resets use mailed codes of their own; the flow implements `ResetGrants`; the newest code has the last word unless codes or passwords cross |
| `delivery` | 2 deliveries with 2 e-mails each, 1 waiter, 2 stops, with and without Redis | exact counter, no forgotten waiter, settled jobs and e-mails, repeats bounded by the stops |
| `oauth` | 3 flows or requests, 2 Google accounts, 2 e-mails, 2 roles | one user per Google account, links to verified users only, failures are conflicts, a callback carries a role only of a path with a flow that no callback handler answered |
| `inquiries` | 4 requests, 2 addresses in 2 spellings | an address is listed once, and no answer contradicts the tables |
| `onboarding` | 3 submissions, 2 connections | all or nothing, one winner, true answers, no circular wait |
| `sessions_reset_race`, `verification_resend_race`, `two_factor_resetup`, `oauth_role_tabs` | 2 to 4 requests | counterexamples, see section 5 |

Why the bounds are enough. In Sessions an interesting case is a sign-in, a token derived from
it, and two handlers that race over it: four requests, which any of two users may share. A code
needs its issuer, one that supersedes it and two that race to consume it: four calls; a lifetime
of one tick with a clock of two has codes that are live, expired, and issued again. Of the four
calls of a reset two can be deliveries whose codes supersede each other and two resets that
race, or one delivery that is cut short, one that does it again and a reset with either code. A
2FA secret can be replaced, enabled and dropped by three requests while two race. Two deliveries
keep one in Redis behind the one in the worker; two stops are what it takes to use up the one
recovery a job is allowed, in either queue. Two Google accounts, two e-mails and three requests
make each of the unique violations, two of them at once, and have a flow of the browser behind
one that never came back. Two of four requests can race over one address of the waiting list while a third
repeats it in another spelling. Three submissions over two connections have two transactions that
race while a third waits for the pool. The proofs do away with the bounds for all safety
properties named in section 6.

Deadlock is not checked: each model stops when its requests have been handled.

Each property of a passing run has a seeded fault that breaks it, listed in `PROJECT.json`;
the fault is in the handler the property is about (a dropped guard, an unconditional UPDATE, a
missing constraint, a swapped order).

## 4. Fairness

`delivery` and `onboarding` check liveness. `ObFairSpec` assumes weak fairness of each request's
next statement: the code awaits nothing but the database, which answers a statement once nothing
it waits for is held. Errors and crashes are not assumed, so that no circle is broken by luck.

`MpFairSpec` assumes weak fairness of what a promise or timer already scheduled does:
`AddSettles`, `DeliverMail`, `SettleInline`, `SettleJob`, `SendEmail`, `SettleEmail` (every
promise the code creates settles, its errors are caught), of the event loop and the two workers
taking some delivery or e-mail (`\E j : Start(j)`, `\E e : TakeEmail(e)`, no particular one), of
BullMQ's periodic stalled check of each queue, and of `MpExit` and `Restart` (termination
completes; the supervisor of `ecosystem.config.cjs` or the container restarts the process).
Nothing makes a client ask for anything and nothing makes the process stop. Stops are bounded by
`MaxStops`: a process that crashes for ever settles nothing, and the property does not claim it.

## 5. Where code and documentation disagree

Each of these is a run that TLC refutes, over the statement it quotes:

- `sessions_reset_race`: "All refresh tokens for the user are revoked on reset"
  (`docs/auth-module-specification.md:827`). A login that verified the old password before the
  reset persists its token after it. `OnlyRacesOutliveReset` shows that nothing else does it: not
  a refresh, not an older reset, and no sign-in that was not in flight at the reset.
- `verification_resend_race`: "max 3 resend attempts per hour" (`:609`). Resends that overlap
  all pass the count; `OverrunIsCrowd` bounds the damage: the limit is exceeded by fewer than the
  resends that were between their count and their save at once.
- `two_factor_resetup`: "Please disable it first before setting up a new one."
  (`modules/users/users.service.ts:298`). Disabling keeps the method, on which setup is refused.
- `oauth_role_tabs`: "Each path stays role-specific through signup, OAuth continuation, and
  onboarding" (`docs/auth-module-specification.md:245`). The path is kept in one cookie per
  browser: of two tabs on the two paths, the first to come back creates its user with the role
  of the other. `RoleIsOfUnhandledFlow` shows which flows can lend their role: those that
  `googleAuthRedirect` has not answered. One that it answered, with a sign-in or an error, leaves
  none behind. One that never came back does, and so does one that `GoogleOAuthGuard` turned away
  with a 400 (`guards/google-auth.guard.ts:26-31`): the handler that clears the cookie is not run,
  and within its ten minutes a plain Google login of the browser, which without it would create no
  account, creates one of that role.

Seen while modelling, without a run of their own:

- "Revoke current session." (`docs/auth-module-specification.md:688`): a logout clears the column
  whatever it holds by then, another sign-in's token included.
- Enabling 2FA verifies "the secret was correctly configured"
  (`modules/auth/auth.controller.ts:298`): a setup between the check and the UPDATE replaces the
  secret; `OnlyCrossingsLoseProof` shows that nothing but such a crossing does it.
- "Re-setup while enabled | Allowed - generates new secret, invalidates old"
  (`system-design.md:198`): `setup2faTotp` refuses any row that has a method with a 409
  (`modules/users/users.service.ts:296`), 2FA on or off. `OnlyCrossingsLoseProof` rests on that
  refusal; what the document allows would replace a proven secret by an unproven one at once.
- `user_oauth_accounts.user_id` is `ON DELETE CASCADE` (`docs/auth-module-specification.md:81`):
  the migration declares `ON DELETE NO ACTION`, so that removing a linked user fails. The models
  follow the migration.
- A taken e-mail is a 409 (`docs/auth-module-specification.md:552`): the loser of two
  registrations that race gets a 500 from the unique index, and so does the loser of two entries of
  the waiting list (`"500 duplicate"` in both models). The client cannot tell that from any other
  500, which says nothing of the table.
- "No session limits" (`:860`): each sign-in overwrites the one column.
- "previous unused OTPs for that user are invalidated" (`:585`): two issues that overlap leave two
  active codes, as `SupersededStayDead` speaks of the codes saved before the invalidating UPDATE
  only; and a code that has expired is not invalidated, which a `consume` that selected it before
  can still accept (`AcceptedCodeWasGood` is the most that comes of it). Of reset codes the older can then be
  used after the newer and take the password back, as it can by a reset that selected it before it
  expired and finishes late; `OnlyCrossingsUndoNewest` shows that nothing else does it.
- A state token is "invalidated after successful verification" (`system-design.md:185`): nothing
  records its use.
- OAuth e-mails that match "are silently linked" (`docs/auth-module-specification.md:829`): a
  user's second Google account is refused by a unique index.
- The lifetime of a reset code is "1hr" (`:844`) and "default 15m" (`:357`); the code has the
  latter.
- A recipient without a first name is addressed as 'there'
  (`modules/mail/outbound-email-queue.service.ts:124`): without Redis, that is; with Redis the
  worker refuses the payload first (`:20`), and the job fails. In MailPipeline both are `SendEmail`
  or `Deliver` failing.

## 6. Proofs

All for any sets of users, requests, codes, identities and e-mails, any lifetime and any bounds,
from the named assumptions of each module only: mostly that `NULL` is none of the other values,
and that the sets of deliveries and of calls, which are counted, are finite.

- **Sessions** (`SessionsProofs`): `TypeOK`, `RefreshedAtMostOnce`, `SpentIsFinal`,
  `LogoutEndsFamily`, `OnlyVerifiedHoldSessions`, `OnlyRacesOutliveReset`, that a hash is of a
  token of its user (`HashesAreOwn`), and that the handlers implement `SessionSlot`
  (`SessionsImplementSlot`). None of these is inductive: whether a `Rotate` may write depends on
  what `RefreshRead` saw. `SessionInv` (`SessionInvariant`) adds that every hash ever in the
  column is of a token that was delivered and descends from the sign-in its family opened with
  (`WrittenWereDelivered`), and that what a handler carries over its await still describes its
  token (`CarriedAcrossAwaits`). Every statement that writes the column then either opens a family
  with a token never written, exchanges the current token, or closes: three lemmas used by all
  handlers. `EndedFamiliesStayEnded` is what the slot itself promises. For the resets, `RaceInv`
  follows the password a token was signed under along its family: a sign-in in flight at a
  reset is in `raced` from then on, a token in the column is of the password in force or descends
  from one of these, and a refresh hands that on. `ResetsRevokeWithoutRaces` concludes what the
  documentation says from there having been no such sign-in.
- **OneTimeCodes** (`OneTimeCodesProofs`): `ConsumedOnce`, `SupersededStayDead`. `OtpInv` adds that
  rows match the calls that made them and that no two are saved at once. `AcceptedCodeWasGood`
  needs `ExpiryIsKept` besides: a selected code was valid then, and a code saved before an `issue`
  and still unused had expired when that invalidated.
- **EmailVerification** (`EmailVerificationProofs`): its handlers implement `OtpSpec`, so that
  the former theorems hold of them (`VerificationAcceptsGoodCodes` is one); `OneRegistration` and
  `VerifiedByOwnCode` follow from `HandlersAgreeWithCodes`, which says whose code each handler has
  and that nothing but a used code or a Google callback marks the row. `OverrunIsCrowd` has to speak
  of the resends that have counted and not saved: the codes resent within the hour and those
  such resends will add are together fewer than the limit plus `crowd`. A resend that passes the
  count found fewer codes than the limit, and `crowd` takes it in with all who are between count
  and save; one that saves goes from one group to the other; and what a window loses as the clock
  moves it does not get back.
  `LimitHoldsWithoutRaces` is the case of a crowd of one, the documented limit.
- **PasswordReset** (`PasswordResetProofs`): the handlers implement `OtpSpec`, by steps of the
  code service and steps that leave it alone (`NoCodeStep`); `ResetInv` is inductive with
  `OtpInv`. Every step is a step or a stutter of `ResetGrants` (`GrantStep`), by which grants it
  closes and whether it makes a claim. `EachChangeTookACode` is what that is for: the invariant of
  `ResetGrants` (`GrantsInvInductive`), and that a closed grant stays closed, proved of the
  abstract module and inherited by the handlers. `OnlyCrossingsUndoNewest` needs
  `NewestRowOnly`: uncrossed, the active code is the newest row, there is none while one is being
  issued, and every reset that has used its code, or selected one that is still good, holds a row
  at least as new as those that changed the password. A code that expired in a reset's hands counts as good: `consume`'s UPDATE
  accepts it.
- **TwoFactor** (`TwoFactorProofs`): `DroppedSecretsStayDropped` for all interleavings;
  `OnlyCrossingsLoseProof` by `TwoFactorInv`, the types and `UncrossedInv`: until an enable and a
  setup or disable cross, each handler finds what it relies on as it read it, though others of
  its kind overlap with it.
- **DeliveryQueue, MailPipeline** (`DeliveryQueueProofs`): `PendingCountsDeliveries` and
  `WaitersHaveWork`, inductive together with the types; `RepeatsAreBounded`, from how the places
  of a delivery bound its hand-overs by its stalls and these by the stops. The pipeline makes only
  steps of the queue (`PipelineUsesQueue`), so that all of these hold of it; `PipelineInv` and, by
  the same count made for both stages, `MailsNeedStops`.
- **OAuthProvisioning, OAuthSignup** (`OAuthProvisioningProofs`): `SignInIsOwner`,
  `LinkedAreVerified`, `PasswordlessAreLinked`, `FailuresAreConflicts`. `ProvisioningInv` says of
  each place in the callback what its earlier statements established and no other request can
  undo (`Carries`); the argument is that rows, links, removals and freed e-mails only grow
  (`Grows`), so that other requests keep what one carries. The flows of a browser make only steps
  of the resolution (`SignupsAreProvisioned`); `RoleIsOfUnhandledFlow`, because the cookie is
  empty or the path of some flow that no callback handler answered, and a flow carries nothing before
  it is back (`CookieIsOfUnhandledFlow`).
- **Onboarding** (`FormsProofs`): `ProfileIffComplete`, `OnboardedOnce`,
  `SecondProfileNeedsRoleChange`, `AnswersAreTrue`. None is inductive: whether a COMMIT is right
  depends on what was committed since the transaction began. `OnboardingInv` adds that a
  transaction that has inserted keeps the user there and the kind its own (`TransactionsHold`),
  and that while the role has not moved, all requests in flight are of the user's role and none
  past its look-up can have the other profile beside it (`RoleHolds`).
- **Inquiries** (`FormsProofs`): `AnswersMatchWaitlist`. `InquiriesInv` adds the types, and
  `RowsStay`: a row is that of a submission past its INSERT, whatever it was told, what a submission found on the list
  stays there, and one about to insert did not find its address. That one row at most has an
  address rests on the columns being normalized (`ColumnsAreNormalized`), which the unique index
  relies on.

Model-checked only: the liveness of Onboarding and of the mail pipeline (`WaitersReleased`,
`QueuedMailIsSettled`, `RequestsEnd`). Liveness under fairness and ENABLED are out of the
prover's reach, as is induction over recursive definitions, of which the modules have none.

## 7. Plan

Done, in this order: Sessions with SessionSlot, OneTimeCodes, EmailVerification, TwoFactor,
DeliveryQueue, OAuthProvisioning, Onboarding, PasswordReset with ResetGrants, MailPipeline,
OAuthSignup, Inquiries, each with its proofs. What would come next:

1. Abstract specifications to refine, as `SessionSlot` and `ResetGrants` are: account links for
   OAuthProvisioning (a Google account gets one user for good), and one all-or-nothing completion
   per user for Onboarding.
2. Sessions and PasswordReset in one module, to follow a token from a redelivered mail to the end
   of the session; today the two agree on one statement, the UPDATE that sets the password and
   clears the column.
3. The parsing of durations and cookie headers against reference definitions, if they grow.
