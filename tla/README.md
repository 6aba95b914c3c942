# stohr in TLA+

stohr is a self-hosted file storage server: one Bun process serving a REST API,
WebDAV, an S3-compatible gateway, an MCP endpoint and a browser client, over a
Postgres database and an object store (S3 or a local directory), able to share
storage with other instances. This directory holds TLA+ models of it, the TLC
runs that check them on small instances, and theorems proved with TLAPS for
every value of the constants.

Paths below are relative to `src/src/` unless they begin with `docs/`.

Contents: [How the server executes](#how-the-server-executes) ·
[Inventory](#inventory) · [Modules](#modules) · [Runs](#runs) ·
[Where the code falls short](#where-the-code-falls-short) · [Proofs](#proofs) ·
[What is left out](#what-is-left-out) · [What could come next](#what-could-come-next)

## How the server executes

Everything rests on three facts about the code.

* **One statement is atomic, a handler is not.** A handler is an async function;
  between two `await`s it runs alone, and each awaited SQL statement or object
  store call takes effect atomically. Statements of different requests
  interleave. Only a few places open a transaction and lock a row in it
  (`oauth/`, `auth/`, `users/`, `teams/members.ts`); the file and folder handlers
  open none. So in the models every awaited call is an action of its own, what a
  handler has read is kept in its request record, however stale, and a
  transaction that holds a row's lock is either one step, where nothing it waits
  for can come between, or its statements with the lock as a variable
  (`locker`, `holder`, `lock`).
* **A request may stop anywhere.** A call throws, or the process ends. What was
  executed stays executed; there is no recovery log. Actions named `Interrupt`,
  `CutOff`, `Crash`, `Fails` or `Hangup` end a request at any point.
* **Background work is a set of sweeps** (`server.ts:290-470`), each on an
  interval and wrapped in `guardedSweep`, which skips a run while the previous
  one has not returned. A sweep never overlaps itself within one process.

## Inventory

| Part | State | Operations | What is hard | What makes it correct |
|---|---|---|---|---|
| Files and versions (`files/`, `storage/`) | `files`, `file_versions`, blobs, thumbnails | upload, rename, move, trash, restore, purge, version restore, version delete | statements of two writers interleave; undo works from a stale row; a crash between statements | history complete; no row without its bytes; nothing leaks; an undo gives up its own write only |
| Write paths (`uploads/finalize.ts`, `webdav/`, `s3/`, `mcp/tools/write.ts`, `actions/stohr/resize.ts`, `photos/`) | the same tables | eight ways to write a file | they differ in the order of reads, in thumbnails and in the undo | the same, over any mix of them |
| Trash (`trash/`) | the same tables, folders | empty | rows move in and out while it works | drops only what it deleted |
| Antivirus (`scanning/`) | `scan_status` of rows and versions | sweep | bytes are replaced, archived or restored while being scanned | verdicts reach the bytes they were given for; all bytes small enough to be scanned get one |
| Storage caps (`usage/`, `uploads/quota.ts`) | sums over the file tables | check, re-check, undo | nothing is locked; two caps, two tables; two orders of undo | accepted bytes stay within both caps, but for what a check misses during an undo |
| Resumable uploads (`uploads/`) | `upload_sessions`, staged parts, multipart uploads | init, chunk, status, finalize, abort, sweep | retries, late duplicates, racing finalize, abort and sweep, a failing store | the object is the client's file; the cursor is backed; sessions go away |
| Folders, permissions, spaces (`folders/`, `permissions/`, `spaces/`, `collabs/`) | the tree, owners, space ids, grants | create, move, trash, restore, purge, share | checks and statements apart; inherited rights over a moving tree | a folder is in its parent's space |
| Grants to an address (`collabs/`, `auth/`) | pending collaborations | offer, sign-up, change of address, bind | who proves an address first | a grant reaches whom it names |
| Shares (`shares/`) | `shares`, attempts | create, view, burn, expire | concurrent views, a fetch that fails | a burnt link was shown once |
| OAuth (`oauth/`, consent and device pages) | codes, device codes, refresh tokens | authorize, redeem, refresh, revoke | concurrent redemption; change of credentials; deadlock | one chain of live tokens per grant; replay ends it; a client gets what the user was shown |
| Authentication (`auth/`, `security/`) | sessions, second factor, links, keys | login, reset, enable, suspend, external sign-in | a slow login across a change | no session outlives what it was opened with |
| Account deletion (`auth/deletion.ts`) | the account | schedule, cancel, sweep | the grace window | no session on an ended account |
| Teams, invites, domains (`teams/`, `invites/`) | teams, members, invites, domains, the host cache | join, promote, demote, remove, verify | last admin; two sign-ups; a lookup that outlasts an edit | an admin remains; an invite admits one; a routed domain was proven |
| Federation (`federation/`) | identity, peers, nonces, copies, shards, contributions | pair, sign, place, receive, drain, delete, contribute | unreliable peers, replay, accounting | each request once; one peer per invite; rows tell of bytes that are there; promises match reservations |
| Folder actions (`actions/`) | `folder_actions`, runs | fire an event | a timeout does not stop the action | a run says what became of it |
| Messages, comments, notifications | their rows | send, reply, read, delete, comment | a message that may be deleted before its reply; thread ids set by a second statement, a reply between the two stays in thread 0 (below); who is told | a thread with an id stays between its two, and only the addressee is told; who is concerned by a comment hears of it |
| Content index (`search/content/`) | extracted text per version | worker, restore, scan | the row changes during extraction | the text is of the current bytes |
| Rate limits (`security/ratelimit.ts`) | buckets | count, sweep | statements carry earlier times than their turn | a window is not exceeded |
| Browser client (`web/`) | token and user per tab; the files page | sign in, list, act | answers out of order | the page shows one person's, and the open folder's, data |
| Server process (`server.ts`) | phase, pool, sweeps, requests | start, migrate, serve, stop | signal during requests and sweeps | an accepted request is answered |
| Webhooks, search queries, admin settings, MCP framing | rows of their own | single statements | little | — |

`PROJECT.json` lists the same parts with their status, and under "hazards" the
places where this code is hard to test, each with the properties that cover it
or the reason why none does.

## Modules

```
FileStore <- FileWrites, FileHistory, FileTrash, FileScan <- Files <- MCFiles, Files_proofs
StorageLedger <- Quota <- MCQuota <- MCServices          Quota <- Quota_proofs
Uploads <- MCUploads, Uploads_proofs
Credentials, OAuthGrants, Membership, TeamDomain <- MCAccounts <- Accounts_proofs
FolderTree, PendingGrants, Shares, PeerBlobs, Erasure, Founding, Contributions,
  ContentIndex, ActionRuns, Messages, Comments <- MCServices <- Services_proofs
Peering, SignIn, SigningKeys, TeamCache, WebSession, WebFiles, WebConsent,
  WebPairing, RateLimits, Server <- MCBoundary <- Boundary_proofs
```

Components that share no variable with one another are explored side by side:
in `MCAccounts`, `MCServices` and `MCBoundary` a variable `focus`, chosen in the
initial state, says which component moves; the variables of all others are
`Null`. This checks each component exhaustively, on its own, and is the sum of
their state spaces, not the product. A property there reads
`focus = "..." => Component!Property`.

In every module a history variable (named so where it is declared) records what
happened for a property's sake and is read by no guard.

### The file tables: FileStore, FileWrites, FileHistory, FileTrash, FileScan, Files

`FileStore` declares the shared state: `files` and `versions` are the rows of the
two tables, `blobs` and `thumbs` the keys present in the object store, `req[h]` the
local variables of handler `h` with its program point `pc`. The bytes of an
object are identified with the key they were put under, a row's serial id with
the key of the write that inserted it, and a `Name` stands for a (folder, name)
pair of one owner.

| Module | Code | Actions |
|---|---|---|
| `FileWrites` | `POST /files`, `finalizeUpload`, WebDAV PUT and COPY, S3 PUT, the mcp tool `upload_file`, the resize action, photo upload | `BeginWrite`, `PutBytes`, `ReadExisting`, `ArchiveForWrite`, `UpdateRow` / `InsertRow`, `DropOldThumb`, `Accept` / `Reject`, `UndoVersion`, `UndoInsert` / `UndoUpdate`, `UndoBlob`, `FailPhoto` |
| `FileHistory` | restore and delete of a version | `FindVersion`, `RegenerateThumb`, `ArchiveForRestore`, `PromoteVersion`, `DropTarget`, `DropReplacedThumb`, `DeleteVersionRow`, `DropVersionBlob` |
| `FileTrash` | rename, trash and restore, purge, emptying the trash, S3 and WebDAV delete, WebDAV MOVE | `Rename`, `SetTrashed`, `BeginPurge`, `BeginEmptyTrash`, `BeginHardDelete`, `ListVersions`, `PurgeVersions`, `PurgeRows`, `DropBlobs`, `BeginMove`, `MoveRow` |
| `FileScan` | the antivirus sweep | `BeginScan`, `ScanBytes`, `VerdictOnFile`, `VerdictOnVersion` |
| `Files` | all of it together | `Next` adds `EditRow`, `Interrupt` and, under `Throws`, `FailPhoto`; the properties are stated here |

The eight write paths are one sequence of actions; where the code differs, a
named set says so: `ReadsFirst` (the row is looked up before the bytes are put),
`OnlyInserts`, `MakesThumb`, `DropsEarly` / `DropsLate` (the old thumbnail goes
before or after the usage re-check), `KeepsThumb` (the UPDATE leaves `thumb_key`),
`GuardsUndo` (the undo is conditional on the row's storage key and restores the
row before it deletes the version).

A handler that fails half-way leaves what it has done (`Interrupt`); the photo
handler alone catches every error, drops its key and thumbnail, and leaves the row
if its INSERT was committed (`FailPhoto`). A key in `Oversize` is too large to be
scanned: the sweep does not select it.

Abstracted: whether a usage check passes is a free choice under `Capped` (Quota
has the arithmetic); POST with several files in one form is several requests;
listing, search, webhooks and events a write triggers. A rename or trash is one
step, since it is a single UPDATE by id. `Writes` and `Ops` select the paths and
operations of an instance.

### The caps: StorageLedger, Quota

`Quota` has the arithmetic that `FileWrites` leaves open: `current` and `archived`
are the uploads whose bytes a `files` or a `file_versions` row holds, usage is
their sum. The checks before the write (`PreCheckUser`, `PreCheckTeam`) and after
it (`CheckUser`, `CheckTeam`) are separate reads, as in `checkQuota` and
`quotaAfterWrite`. The code has two orders of undo: the mcp tool and the actions
put the row back first (`RowFirst`), the others remove the version first.
Requests on the same file do not overlap here; that is FileWrites' subject.
Between the two statements of a version-first undo the replaced bytes are in no
table (`Hidden`); an upload whose check ran while bytes of its owner, or of its
team, were hidden is remembered in the history variable `slipped`, and a request
that is cut off there loses them.

`StorageLedger` is the abstract promise: an upload is admitted only if what is
admitted then fits both caps. `Quota` implements it, with the uploads that
"stand" (answered with 201 and neither removed nor lost since) but have not
`slipped` in as the ledger, whichever way each upload undoes: `KeepsLedger`, checked
by TLC and proved.

### Resumable uploads: Uploads

One record per session row, the parts staged for it, the state of its multipart
upload, the object assembled under its key and how many rows name that key. The
storage driver is chosen in `Init` and stays. A chunk is `BeginChunk` (the session
is read and the chunk admitted against that snapshot), `StorePart`, `SaveCursor`; a
finalize is `CompleteMultipart` over S3, `FetchPart`..., `PutMerged`, `DropParts`
over the local driver, then `File` or `Refuse`, then `CloseSession`; abort,
revocation and sweep are `DropStaged` or `DropFails`, then `CloseSession`.
Everything one request does between two awaits is one action; the drops of part
objects, which run in parallel, are one action too. `finalizeUpload` is one step
here because FileWrites takes it apart.

The client cuts its file into `Pieces` of `ChunkSize` bytes and a last one; a
chunk request carries piece `c` and, if the client is `numbered` (chosen in
`Init`, as the driver is), `?part=c`; the repository's tests leave it out.
Retries and duplicates are requests like any other. S3 is external: it takes
parts only for an open upload, and completes it once, from parts that match
their hashes.

### Accounts: Credentials, OAuthGrants, Membership, TeamDomain

| Module | Code | State | Steps |
|---|---|---|---|
| `Credentials` | `auth/index.ts`, `auth/mfa.ts`, `auth/passkeys.ts`, `users/index.ts`, `security/`, `s3keys/`, `auth/deletion.ts` | one account, its sessions, challenges, links, keys, passkeys | login with and without second factor, TOTP claims, profile, password change and reset, MFA set-up, enable, disable, passkey ceremonies, revocation, suspension, deletion and return |
| `OAuthGrants` | `oauth/*.ts`, `security/credentials.ts` | one user and client, its codes and refresh tokens, the user row's lock | registration, consent, device polling with its deadlock, redemption, rotation, replay, revocation of a token, a client or all grants |
| `Membership` | `auth/index.ts`, `auth/external.ts`, `invites/`, `teams/`, `admin/users.ts` | a team, members, invites, the team row's lock | bootstrap, invite, sign-up, promote, demote, remove, suspend, purge |
| `TeamDomain` | `teams/domains.ts` | domain, token, verified | set, remove, read, look up, verify |

### Around files and folders, in MCServices

| Module | Code | What it models |
|---|---|---|
| `FolderTree` | `folders/`, `spaces/`, `collabs/`, `permissions/`, `trash/`, `webdav/`, `mcp/tools/write.ts`, `actions/stohr/organize.ts` | the tree with owners, spaces and grants; each route is what it reads and checks (`Ask...`) and then one statement after the other, from what it read. Roles are those of `folderRole` and `fileRole`; `Ancestors` is the smallest set closed under parents, as the recursive query is |
| `PendingGrants` | `collabs/`, `auth/index.ts`, `auth/external.ts`, `castle/` | grants to an address: offered, bound at sign-up or change of address, removed |
| `Shares` | `shares/index.ts` | a link's viewing statement by statement, password tries, expiry, burn on view while the file changes |
| `PeerBlobs` | `federation/files.ts`, `placement.ts` | the rows that say who has a copy, and the objects here: placement, receipt, deletion on request, drain of a leaving member. What a peer answers is a choice |
| `Erasure` | `federation/erasure.ts`, `files.ts` | the cutting of a file into fragments and reading back from whoever answers |
| `Founding` | `federation/keys.ts`, `index.ts` | the first use of the instance's keys by several requests; founding |
| `Contributions` | `federation/folders.ts` | a folder tied with a quota and the member row that promises it, two statements apart |
| `ContentIndex` | `search/content/` | the worker's claim, fetch, extraction and conditional record beside writers |
| `ActionRuns` | `actions/dispatch.ts` | dispatch, the recorded run, the raced timeout, a crash |
| `Messages` | `messages/`, `notifications/` | a thread opened by two statements, replies between them, reading, deletion |
| `Comments` | `comments/`, `notifications/emit.ts` | comments and their announcement to one person after the other |

### At the boundary, in MCBoundary

| Module | Code | What it models |
|---|---|---|
| `Peering` | `federation/invites.ts`, `pairing.ts`, `transport.ts` | invites and their one use, signed requests, the nonce table with its sweep, in half seconds since the timestamps are whole ones |
| `SignIn` | `auth/external.ts`, `auth/oidc/`, `auth/social/`, `auth/ldap/`, `sso/`, `castle/` | states bound to a browser, callbacks, the account found, linked or created under the team's lock, backchannel logout |
| `SigningKeys` | `auth/oidc/jwks.ts` | the cached key document while the provider rotates |
| `TeamCache` | `teams/resolve.ts`, `request.ts` | the host cache against writes that clear it, in this process or another |
| `WebSession`, `WebFiles` | `web/api.ts`, `web/app.tsx` | token and user record of tabs that share localStorage; the files page and answers out of order |
| `WebConsent`, `WebPairing` | `web/app.tsx`, `oauth/authorize.ts`, `oauth/device.ts` | what a user has on screen when agreeing, and what the client or device then gets |
| `RateLimits` | `security/ratelimit.ts` | one bucket, its upsert, statements that waited, its sweep |
| `Server` | `server.ts`, `observability/` | processes on one database: start, migrate, sweeps, requests, the signal, forced exit |

## Runs

| Run | Instance | Shows |
|---|---|---|
| `FilesHistory` | 4 uploads to one name, 3 at a time, all eight paths, trash | `HistoryComplete`: versions 1..n-1 lie behind a row at n, none lost or doubled. `NoBlockedFile`: no version number blocks a later write. `NothingOverwritten`: bytes a row has named stay named |
| `FilesStore` | 2 requests, 3 keys, crashes and throwing photo uploads; finalize, resize, photo against purge, hard delete, move and trash | `NothingDangles`: rows never name bytes or thumbnails that are gone, but for those of a photo upload that failed after its INSERT |
| `FilesScan` | 2 requests, 2 keys, the second infected and too large to be scanned; finalize, restore, trash, the sweep; fair | `ScanSound`: bytes infected or too large are never marked clean. `EventuallyJudged`: what waits for a verdict and is not too large gets one or leaves |
| `FilesUndo` | 1 request at a time, 3 keys, 2 names; five write paths, accepted or rejected, restore, version delete, purge, trash, rename | `TypeOK`; `NoLeakAtRest`: between requests the store holds what the rows name and nothing else, bytes and thumbnails |
| `FilesUndoRace` | 2 requests | *violated*: `UndoesOwnWrite` |
| `FilesRestoreRace` | 2 requests, one a version restore | *violated*: `NoBlockedFile` |
| `QuotaVersionFirst` | 4 uploads of one user, version-first undo | *violated*: `UserCapKept` |
| `Uploads` | 1 session of three chunks, the last one shorter, 2 requests and the sweep, both drivers, numbered chunks or not; fair | `Assembled`: the object is the client's file. `CursorBacked`: the cursor promises no part that is not staged. `FiledOnce`: over S3 one row, and its object stays. `EventuallyGone`: no session stays for ever |
| `UploadsReserve` | 2 sessions, 2 requests | *violated*: `PromisesFit` |
| `Accounts` | 3 requests on one account; 2 calls on a grant with a chain of 3 tokens, 2 scopes and one change of credentials; 2 jobs on 2 members and an invite; 2 teams, a name, 2 lookups | `SessionsAreCurrent`, `SecondFactorHolds`, `FactorSpentOnce`, `GrantIsOneFamily`, `GrantsEndWithCredentials`, `AdmittedOnce`, `AdminRemains`, `DomainsAreProven` |
| `Services` | the eleven modules above and the caps: 4 uploads of 2 members of a team, one of them with a row-first undo, three version-first; 2 messages among 3 people; otherwise 2 or 3 requests on 1 to 3 folders, offers, viewings, copies, mails, postings | `FitsUserCap`, `FitsTeamCap`, `StoredIsCounted`, `KeepsLedger`, `OneSpacePerTree`, `GrantsReachTheirs`, `BurnShownOnce`, `CopiesAreGood`, `PeersAreToldWhatIs`, `IndexedBytes`, `RunsTellTheTruth`, `ToldConcerned` |
| `Boundary` | the ten modules above, 2 or 3 actors each, clocks of 7 to 9 ticks | `NonceOnce`, `InvitePairsOne`, `SignInOnce`, `PageIsWhole`, `LimitHolds`, `CachesAreRecent`, `ConsentIsInformed`, `ServedWhole` |

What the side-by-side properties say:

* `SessionsAreCurrent`: no password session outlives the password it was opened
  with, or its account. `SecondFactorHolds`: once the factor is enabled, no password
  session without it is left. `FactorSpentOnce`: a TOTP step and a login challenge
  are accepted once.
* `GrantIsOneFamily`: a code roots one chain of refresh tokens, each replaced once
  and by none of wider scope, and a replayed token has no good descendant.
  `GrantsEndWithCredentials`: no code can be redeemed and no token is good that was
  granted before the last change of credentials.
* `AdmittedOnce`: an invite admits one account, an empty instance gets one owner.
  `AdminRemains`: admins who act on each other leave one, but for the instance
  owner's bypass. `DomainsAreProven`: a domain that routes was found published with
  the token its team holds for it.
* `OneSpacePerTree`: a folder is in its parent's space, whatever moves meanwhile.
  `GrantsReachTheirs`: a grant to an address reaches an account that showed to have
  it. `BurnShownOnce`: a burn-on-view link shows its file once. `CopiesAreGood`: a
  copy the rows say is here is in the store, and any one copy of each fragment
  decodes if the last fragment begins within the ciphertext; if not, nothing ever
  does. `PeersAreToldWhatIs`: one identity, and the promise to peers is the
  reservation of the folder. `IndexedBytes`: the text recorded for the current
  version is that of its bytes. `RunsTellTheTruth`: a run that is over says what
  became of its action. `ToldConcerned`: a message thread that has an id joins the two
  it was begun between and no third, only the addressee is told of a message, and
  those concerned by a comment hear of it.
* `FitsUserCap`, `FitsTeamCap`: the bytes that stand are within the cap, but for
  uploads whose check ran while an undo of the same owner or team stood between its
  two statements. `StoredIsCounted`: only then are stored bytes in no table.
* `NonceOnce`: no signed request reaches a handler twice. `InvitePairsOne`: an invite
  pairs one instance. `SignInOnce`: a state admits one session. `PageIsWhole`: a tab's
  user record is of its token's account, and the rows shown are of the open folder.
  `LimitHolds`: no window lets more calls through than two windows' worth, the
  bound a fixed window gives. `CachesAreRecent`: an answer from the host cache or
  the key cache was true at most a lifetime ago. `ConsentIsInformed`: what a client or
  device is granted was on a screen a user agreed to. `ServedWhole`: no request a
  process accepted is dropped by its own shutdown.

### Why the bounds are enough

* Two handlers are needed for every race found, three for histories with two
  racing writers after a first. `Key` bounds the number of writes: four keys give
  a file, two replacements and a rival. `MaxVersion` bounds restores, which mint no
  key; it only limits what `BeginHistory` may begin.
* In `FilesStore` nothing is rejected (`Capped = FALSE`) and no version is
  deleted, and S3, WebDAV and POST uploads are left out. Those are not bounds for
  speed: with them the property fails (see below), and the run shows the rest is
  sound. The photo and the finalize path stand for those that make a thumbnail.
* In `FilesScan` the one infected object is also the one too large to be scanned.
  `ScanSound` can only be violated by a verdict of clean that was given for other
  bytes, which the clean object provides; a third key is beyond the liveness check
  (the theorem `ScanCorrect` has any numbers of both).
* Quota: sizes 2, 1, 1 and 2 under a user cap of 2 and a team cap of 3 let both caps
  be met, reached exactly and exceeded. One of the four uploads undoes row first, the
  others version first, so that both kinds race each other.
* Messages: 2 messages among 3 people give a thread, a reply and a third who may try
  to enter; a reply to a reply is in the theorem only.
* SignIn: Castle may name any account owner, at its creation or later; such owners are
  told from the first sign-in's, of which there is one.
* Uploads: of three chunks two have one length, so that one in the wrong place keeps
  the length right, and the last is shorter; sessions only meet in the quota, so one
  session suffices where no quota is at stake.
* Accounts: a request is used once, so three requests are a login, a change and one
  that races with both; three tokens are a root, its replacement and the
  replacement's; two users are an admin and the one that acts on it.
* FolderTree starts in small trees with and without spaces and grants, trashed
  folders among them; three folders allow cycles, which concurrent moves do make
  (a hazard of its own, below), and the property holds over them too.
* Boundary: `Skew = 2` half-second ticks with clocks that run ahead by one and a
  request that stalls for one put every order of arrival, nonce sweep and replay
  within reach; `Allowed = 2` calls per window of two ticks let a window fill, turn
  over and fill again; `Span` and `Horizon` only end the clock.
* In TeamCache one team has the slug: a slug is taken again only after a purge, a
  day after the deletion, when the cache has long forgotten.
* Symmetry over interchangeable ids is used in runs without liveness only.
* Deadlock checking is off everywhere: keys, ids, one-shot requests and clocks run
  out, and a request blocked on what is gone may only be interrupted.

### Fairness

* A request in flight is carried on by the event loop: weak fairness per handler.
* The sweep selects rows that wait for a verdict again and again, never-scanned
  ones first (`ORDER BY scanned_at`), so each is taken up infinitely often while
  it waits: strong fairness per key; and clamd answers in the end about bytes it
  is asked about again and again: strong fairness on a verdict.
* For upload sessions, time passes (`Expire`), the hourly sweep comes round
  (`BeginSweep`) and, each purge being in a try block, carries on (`Purge`). The
  sweep's own steps are not interrupted: a process that dies within every sweep
  would never finish one.
* Nothing else is assumed to make progress; the other runs check safety only.

## Where the code falls short

The four violation runs are listed under "findings" with the line they contradict:

1. `FilesUndoRace`. A rejected upload's undo selects the row by id; when a later
   upload has replaced the row, the undo rewinds or deletes that one's write. The
   mcp tool and the actions guard against it by the storage key.
2. `FilesRestoreRace`. A restore renumbers the row; an upload that read it before
   archives under a number that is in use or becomes so, and the file accepts no
   more writes.
3. `QuotaVersionFirst`. An undo that deletes the version before it puts the row
   back lets a concurrent upload pass its re-check over the cap.
4. `UploadsReserve`. Parallel inits read the reservations before any has
   inserted its own.

Other limits, kept as hazards:

* A request cut short between archive and update blocks the file. One cut short
  between the two statements of a version-first undo loses the replaced bytes: no
  table names them any more. A failing undo is logged and the request answered.
* A photo upload that fails after its INSERT, in the usage re-check say, drops its
  bytes and keeps its row (`photos/index.ts:254-271`); WebDAV COPY drops the bytes of a
  rejected copy even if its row could not be deleted (`webdav/index.ts:617-622`).
* POST /files rejected after it dropped the old thumbnail leaves the row naming it;
  WebDAV and S3 deletes leave the versions' bytes.
* Bytes over `CLAMD_MAX_BYTES` stay unavailable while scanning is on, as the comment at
  `scanning/index.ts:14-15` says.
* Two concurrent moves of folders can make a cycle, and a folder moved below one that
  is being trashed stays live there.
* Over the local driver two finalizes can file one object twice, a chunk that races
  an abort leaves its part behind, and a finalize cut short leaves an object.
* Erasure coding: when the last of the k fragments would begin beyond the end of the
  ciphertext, `(k - 1) * ceil(size / k) > size`, decode throws with every fragment
  collected and the file cannot be read back, against `federation/erasure.ts:5`. With the
  default of ten data fragments these are the ciphertexts of 31 to 35, 41 to 44, 51 to 53,
  61, 62 and 71 bytes.
* Messages: the id of a thread is set by a second statement. A reply to a message
  read before it stays in thread 0 for good, as does a message whose request ends
  there (`messages/index.ts:300`); and `GET /me/messages/thread/0` opens all of thread 0, of
  whichever people, to anyone who is a party to one message in it, against
  `messages/index.ts:90-92` and `docs/MESSAGING.md:12`. `ToldConcerned` is about threads
  that have an id.
* A run of a folder action that a crash interrupts stays `succeeded`; contribution
  requests that cross can leave peers a promise no folder backs; a consent that was
  guarded under the old session inserts its code after the change of credentials.

## Proofs

TLAPS proves the following for every value of the constants. A module's
assumptions on its constants are named (`FileStoreAssumption`, `NullAssumption`,
`FilesAssumption`, `QuotaAssumption`, `UploadsAssumption`, `NoRowIsNull`, `NoFolderIsNull`,
`NoKeyIsNull`, `Sizes`, `HostIsOne`, `ShapesOfFiles`, `Durations`, `Windows`); TLC evaluates
each on the instances above. The numeric ones say that a cache's lifetime or a window's
maximum is a natural number, that the writers of a row are finitely many, and that a file
has a fragment, a copy and a byte at least (`erasureConfig` throws otherwise, and a
ciphertext carries its nonce and tag). All others only keep `Null` and the other marks
apart from the ids the model draws.

What a theorem assumes beyond that stands in its statement, with the reason it is
needed:

* `Quiet` (Files): no write is rejected for a cap, no version is restored or
  deleted. `FilesUndoRace` and `FilesRestoreRace` show what happens otherwise.
* `Keeping` (Files): `Quiet` and nothing purged.
* `OneByOne` (Files): one request after the other, through `finalize`, `mcp`, `resize`,
  `copy` or `photo`, with no hard delete, no move, no crash and no
  throwing statement; restores, version
  deletes, purges, trash, renames and the sweep are free. Each part is needed; TLC
  finds `NoLeakAtRest` violated in `FilesUndo` when any one of them is given up. With
  two requests, a write overwrites a row another one's undo has removed; PUT over
  WebDAV keeps the old thumbnail's key, which a later version restore drops; S3 leaves
  the old thumbnail's object; POST /files drops it before its write stands; a hard
  delete leaves the versions' bytes and a MOVE the thumbnail of what it overwrites; a
  request cut short leaves what it had put.
* `RowFirst = Upload` (Quota), in `RowFirstKeepsCap` only: `QuotaVersionFirst`. The other
  theorems about the caps have no such condition.
* `Clocks` and `Apart`, `RowsApart` (Peering): peers' clocks run ahead by so much and
  requests stall for so long that `2 * Ahead + Stall < 2 * Skew`; rows are told
  from no row.

Every theorem has the same shape: an inductive invariant that holds initially, is
kept by each action (one step of the proof per action, a lemma for each larger
one) and implies the property. None of the properties is inductive as it
stands. Below is what each invariant adds, which is the reason the code works.

| Theorem | Property | What the inductive invariant adds |
|---|---|---|
| **Files_proofs** | | |
| `TypeCorrect` | `TypeOK` | `WriterKnown`: a request at a writer's point has a key and, but for a resize, a name |
| `ScanCorrect` | `ScanSound` | `ScanInv`: also the copies in flight are sound: rows and versions a request has read, and a verdict on its way belongs to bytes it was given for. Any operations, crashes and failing photo uploads included |
| `RowsHaveTheirBytes` | `NothingDangles` | `KeyInv`: one row per id, a key belongs to one file, the key a write has drawn is known to nobody else. `BytesInv`: a purge that drops bytes has removed their rows, a thumbnail about to be dropped is no row's. A photo's row and its first key share their id, so that a photo handler that throws takes no other row's bytes |
| `HistoryStaysComplete` | `HistoryComplete` | `HistInv`: one key per number and one number per key, none ahead of the row; of those who read the same row at most one archives it, and only that one overwrites it. Crashes included |
| `FilesStayWritable` | `NoBlockedFile` | `Pending`: a version at the row's own number has a request about to overwrite the row; without crashes |
| `NothingIsOverwritten` | `NothingOverwritten` (an action property) | the same `HistInv`: who overwrites has archived the row as it is |
| `NothingLeaks` | `NoLeakAtRest` | `StoreInv`, the account of the whole store at every point of a request: an object no row names belongs to the request in flight (`SpareBlob`, `SpareThumb`: bytes put but not yet recorded, bytes of a removed row still to be dropped, a thumbnail about to be replaced); what the request read stands, or has been overtaken by its own write, with the old bytes behind a version (`Stands`, `Turned`, `Twin`); at most one version doubles its row's bytes, and only from archiving to overwriting, or until an undo or a restore has removed it |
| **Quota_proofs** | | |
| `UserCapTheorem`, `TeamCapTheorem` | `FitsUserCap`, `FitsTeamCap` | `PassedWithinCap` bounds the uploads that have passed a check that missed nothing, a set only a check enlarges; `TableInv`: each of them, and what it replaces, is in a table or hidden by an undo (`Kept`, `TargetKept`), and no two replace the same (`OneReplacer`), so a check sees at least what has passed but for what is hidden just then |
| `RowFirstKeepsCap` | `UserCapKept` | with row-first undos only nothing is ever hidden, so nothing slips in |
| `CountedTheorem` | `StoredIsCounted` | the same `TableInv` |
| `LedgerTheorem` | `KeepsLedger` | the refinement, step by step: who passes the team's check without slipping in is `Admit`ted, who is removed or lost `Release`d, all else stutters |
| **Uploads_proofs** | | |
| `FilesAreAssembled` | `Assembled` | `UploadInv`: what a chunk, a fetch or a completion has in hand fits its session, a key belongs to one session, and dropped parts do not come back to an object |
| `CursorsAreBacked` | `CursorBacked` | staged parts stay until the dropping stage; a late cursor is behind parts that are there |
| `ObjectsAreFiledOnce` | `FiledOnce` | `OnceInv`: a multipart upload completes once, and who completed it is the one who files |
| **Accounts_proofs** | | |
| `SessionsStayCurrent`, `SecondFactorKept`, `FactorsAreSpentOnce` | `SessionsAreCurrent`, `SecondFactorHolds`, `FactorSpentOnce` | `CredInv`: a login that waits holds the current hash or will be refused; a session without the factor is one that is still to be revoked; claimed steps only grow |
| `GrantsAreFamilies`, `GrantsAreCurrent` | `GrantIsOneFamily`, `GrantsEndWithCredentials` | `GrantInv`: a root's code is used up, a replaced token is dead and replaced once, what is good bears the current epoch, a replayed token is in a set closed under replacement with nothing good in it |
| `MembersAreAdmittedOnce`, `TenantsKeepAnAdmin` | `AdmittedOnce`, `AdminRemains` | `MemberInv`: one holder of the team's row; the founder's sign-up still finds the team empty; while a checked write is pending another admin is left |
| `DomainsAreProvenOnce` | `DomainsAreProven` | `DomainInv`: tokens in hand are no newer than the last drawn |
| **Services_proofs** | | |
| `BurnsOnce` | `BurnShownOnce` | `LinkInv`: of all viewings the one whose statement deleted the row is the one that fetches |
| `GrantsReach` | `GrantsReachTheirs` | `GrantInv`: an errand that binds carries an address its guest has proved |
| `PeersTold` | `PeersAreToldWhatIs` | `FoundInv`: every key in hand is the row's; `PromiseInv`: the two statements of a contribution are apart by exactly the request between them |
| `RunsAreTrue` | `RunsTellTheTruth` | `ActInv`: a row's status against its dispatch and its promise |
| `SpacesHold` | `OneSpacePerTree` | `TreeInv`: a row's parent is a row, a file's folder too; `Sound`: the folders a pending statement names were there and, those that still are, in one space. Rows may go between the read and the write, but a gone row does not come back and no row changes its space; what is below a deleted folder goes with it (`SubtreeIsClosed`) |
| `CopiesGood` | `CopiesAreGood` | `CopyInv`: until it is inserted an object's key is its handler's alone, so that nobody else drops it; a copy that was moved away is never the row's again. `ShardInv`: a fetch has passed over a shard only if it has no row, its fragment is there already, or its holder refused; with `Division`, `Quotient` and `Ceiling` for where a byte lies, for any k, m and length that fits, and for a length that does not that decode throws (`OverrunsUnlessFits`) |
| `TextsAreCurrent` | `IndexedBytes` | `TextInv`: the worker's version is at most the row's, and while they are equal so are the bytes |
| `ConcernedAreTold` | `ToldConcerned` | `MailInv`: a thread id in hand is that of the message answered, or of one whose thread is not made yet, and a reply in hand is between the two of what it answers; `TalkInv`: announced people grow towards the participants |
| **Boundary_proofs** | | |
| `RequestsHandledOnce` | `NonceOnce` | `NonceInv`: while a copy of a request may still be fresh, its nonce is not stale |
| `OneInviteOnePeer` | `InvitePairsOne` | `AcceptInv`: who is about to pair is the one the invite's row names |
| `StatesAdmitOne` | `SignInOnce` | `SignInv`: a consumed state is gone, one sign-in holds the lock, an owner by first sign-in exists only if the table is not empty |
| `UsersKnowWhatTheyGive` | `ConsentIsInformed` | `ConsentInv`, `PairInv`: what a call carries is what its page listed when it was sent; a code claimed in time is its claimant's while no claim of it but that one may still be given up (`Sealed`) |
| `PagesAreWhole` | `PageIsWhole` | `SessionInv`: stored pairs are whole; `ListingInv`: the newest listing is of the open folder, whatever older ones say |
| `CachesStayRecent` | `CachesAreRecent` | `CacheInv`, `KeysInv`: an entry is not younger than its fact by more than its own age |
| `CallersAreLimited` | `LimitHolds` | `LimitInv`: the calls let through, in order of their times, against the count and start of the bucket |
| `RequestsAreServedWhole` | `ServedWhole` | `ServerInv`: a process with an open request has an open pool |

The hypotheses are not empty: the passing runs are instances of them (`FilesStore`
of `Quiet`, `FilesHistory` of `Keeping`, `FilesUndo` of `OneByOne`, `Boundary` of
`Clocks`), with crashes where the theorem allows them.

Proving also corrected the models: a `SUBSET a \X b` that SANY parses otherwise than it
reads, in three type invariants; the horizon of the rate limiter's history, which
had to be a parameter of the window; and ancestors, now the smallest set closed under
parents and not a recursion.

### Only model-checked

* Liveness (`EventuallyJudged`, `EventuallyGone`): fairness and ENABLED are out of the
  prover's reach.
* The type invariants of the modules in `Services` beyond what those theorems need of
  them (the roles and members of `FolderTree`).

## What is left out

Protocol conversions (XML, SigV4, multipart forms, MCP framing, TOTP and WebAuthn
arithmetic, token signatures), rendering, e-mail, the clients and SDKs. Webhooks:
delivered once, recorded, never retried. Reads that keep nothing: listings,
search, ranges, PROPFIND, S3 GET and LIST, fetching from peers. WebDAV locks are
granted to everybody and remembered by nobody. Of account deletion, what the purge
removes beyond the account. User-written actions are the primitives they call:
`POST /folders/:id/actions` accepts built-in slugs only. Where a module leaves
something open (`whether a cap is exceeded`, `what a peer answers`) its header says so.

Federation in particular: contributed bytes of remote members are always 0 in this
code (`federation/pairing.ts:119-132`), so placement never picks a remote member by
itself; `PeerBlobs` allows it nevertheless, since the rows do.

## What could come next

1. `FolderTree`: who can reach what, over several requests, as an abstract specification
   that the routes implement.
2. Two hazards no property covers: a local finalize that ends between assembling the
   object and recording it (`uploads/index.ts:346`), and the S3 delete that drops the
   current bytes only (`s3/index.ts:479`). Both leave objects behind by the code as it
   stands; a sweep of unnamed objects would give them a property to have.
