# Photobooth management system: a TLA+ development

Models, model checks and proofs for the photobooth management system under
`src/`: an ASP.NET API with PostgreSQL and an SFTP or local file store
(`apps/api`), a .NET client that runs on the booths (`apps/client`) and a React
application (`apps/web`). All paths below are relative to `src/`.

Modelled are the parts where steps of several actors meet, and where a mistake
costs photos or shuts people out: on the server the life of a photo, signed booth
requests, refresh tokens, devices, mail settings and passwords; on the booth the
runtime manager and the loops of a runner; in the browser the session of a user,
the slideshow and the pages that change data.

## 1. The system

```
 booth client                     API pods (2)                     stores
 ------------                     -----------                      ------
 LocalDashboardHost               controllers, middleware          PostgreSQL
   start/stop/import/register     DeviceAuthenticationService -->  devices, nonces
 BoothRuntimeManager              EventService, ImageService -->   events, images
   gate, runner task              AuthService, invites, SMTP -->   tokens, codes
 PhotoboothDeviceRunner  --HTTP-->                                 SFTP / local files
   heartbeats, uploads            GdprCleanupJob (each pod)  -->   per-pod archives
 web pages --------------HTTP-->  CronJob --cleanup-only     -->   archives in its pod
```

| Component | State | Operations | Interacts with | What makes it correct |
|---|---|---|---|---|
| Photo and event store (`EventService`, `ImageService`, repositories, `SftpStorageService`) | rows of `events` and `images`, files of the store | upload, delete image, create, update and delete event | retention removes what requests use; two stores without a common transaction | a photo that was accepted and not deleted stays in the gallery with its file or in an archive; nothing survives its event |
| Retention and archive (`RetentionMaintenanceService`, `EventArchiveService`, `GdprCleanupJob`, the CronJob) | archive directories with `.completed` markers, the `DbContext` of the cycle | read expired events, archive, empty, remove, mark devices offline | several workers, each with its own archives, against requests | archived before removed; retried until removed; only when due |
| Device request authentication (`DeviceAuthenticationService`, `DeviceRequestNonceRepository`) | `device_request_nonces` | test timestamp, read the body, verify, prune, store nonce, let through | copies of a request on several pods, the retention job, the deletion of a device, a failing database | accepted once until its nonce may have expired; a repeat is possible only for a copy that waited long enough; what is called a replay was accepted, or could not be stored |
| Booth client runtime (`LocalDashboardHost`, `BoothRuntimeManager`, `PhotoboothDeviceRunner`) | gate, runner task and token, lifecycle, config file | register, import, start, stop, the runner's life, process start | dashboard requests run concurrently with each other and with the runner | one runner, with the config on disk; every command returns; the dashboard tells the truth |
| Runner of the booth (`PhotoboothDeviceRunner`) | scheduled files, channel, config and status shared by three loops | notice, queue, settle, upload, heartbeat | file system events, the API, assignments by the admin | an entry of the schedule is in one place; a file that does not settle holds nobody up; the booth comes to know its event |
| Device registry (`DeviceService`, device pages) | `devices` rows, lists and flags of the pages | register, heartbeat, assign, delete | whole-row write-backs of the booth, several admins | a deleted device stays deleted; a page ends with what the registry has |
| Login, refresh tokens, invites (`AuthService`, controllers) | `refresh_tokens`, codes, `marriage_emails` | login, code, refresh in two steps, revoke, reset, invite | all tabs of one browser, revocation | a token has one successor; a code works once |
| Web session (`authStore.ts`, `api.ts`, `App.tsx`, `RequireAuth.tsx`) | store of each tab, one cookie, calls in flight | fetch with refresh, timer, login, logout, redirects | the server's rotation, other tabs | signing out forgets everything; the cookie that remains is live; redirects rest |
| Slideshow (`SlideshowPage.tsx`) | event, pictures, index, timeouts | poll, advance, jump, pick an album | the API, timers | never dark for good; every picture has its turn; it catches up |
| Event pages and couple pages | forms, panels, editors, upload lists | create, edit, delete, invite; caption, delete, upload, download | other admins, guests, the booth | an edit changes what was edited; the list of uploads is true |
| SMTP configuration (`SmtpConfigurationService`, its page) | one row, `IsVerified` | save, test and verify | saves during a test | verified means these settings were tested |
| Booth console (`LocalConsole/app.js`) | the status it shows, a pending key pair | poll, five commands | the runtime manager | a key pair serves one registration |
| Schema, migrations, manifests | | | | generated code and configuration: keys, cascades, the number of workers and the volumes that survive are taken from them |

### What is hard here

* **Two stores, no transaction.** Every photo operation is a database step and a
  file step with awaits between; a request may end after any of them.
* **Several workers.** `infra/k8s/api-deployment.yaml:8` runs two API pods, each
  with a hosted job, beside a daily CronJob; the archive marker each of them
  trusts lives in its own file system.
* **One `DbContext` per cycle.** An event a failed `SaveChanges` left in state
  Deleted is tried again by every later save of the cycle, far from the code
  that decided to remove it.
* **A gate that is released half way.** A stop cancels the runner under the
  gate, waits without it and clears the fields under it again.
* **Clocks.** Timestamps are tested against one clock, nonces expire by another
  and are pruned by a third; between the test and the nonce the request waits for its
  body, for as long as that takes.
* **One answer for every failure.** The insert of a nonce fails because the nonce is
  there, because the device went, or because of the database, committed or not.
* **Three loops, no lock.** The watcher's callbacks, the upload loop and the
  heartbeats of a runner share the schedule, the config and the status.
* **One cookie, many refreshes.** The timer and every request that was answered
  with 401 refresh the token side by side; the server takes each token once.
* **Answers out of order.** Pages send operations and loads that overlap; each
  load shows whatever it read, whenever it arrives. Timeouts of the slideshow act
  on what the page knew when they were set.

`PROJECT.json` lists each hazard at the line where it bites with the properties
that cover it, or the reason why none does.

## 2. Modules

| Module | Contents |
|---|---|
| `PhotoLifecycle` | uploads, image and event requests, retention workers over rows, files and archives |
| `MCPhotoLifecycle` | its instances for TLC (symmetry) |
| `PhotoLifecycleProofs` | type correctness |
| `PhotoSafetyProofs` | its safety invariants, and that it implements `Vault` |
| `Vault` | what `PhotoLifecycle` promises about photos, in eight actions |
| `BoothRuntime`, `MCBoothRuntime`, `BoothRuntimeProofs` | the booth's runtime manager: model, instances, proofs |
| `BoothUploads`, `MCBoothUploads`, `BoothUploadsProofs` | the loops of a runner: model, instances, proofs |
| `DeviceRequests`, `MCDeviceRequests`, `DeviceRequestsProofs` | signed requests and nonces: model, instances, proofs |
| `Delivery` | what `DeviceRequests` promises the booths |
| `WebSession`, `MCWebSession`, `WebSessionProofs` | stores, cookie and refresh tokens of one browser |
| `Slideshow`, `MCSlideshow`, `SlideshowProofs` | a visit to the slideshow |
| `PageVisit` | what visits to the other pages share: calls in flight and what becomes of them |
| `DevicePages`, `EventPages`, `CouplePages`, `SmtpPage`, `PasswordPages`, `BoothConsole` | one module per group of pages, each with the part of the server it is about |
| `WebPages`, `MCWebPages`, `WebPagesProofs` | their composition (a visit is to one of them) and the properties they have in common |

Operators whose comment begins with "Mutant" are variants of the action after
them with a plausible bug. No specification uses them; for each property one is
named in `PROJECT.json` that violates it, which shows that the property depends
on the code.

### PhotoLifecycle

`event`, `title` and `rows` are the tables, `files` the store, `home` the event a
file name (a fresh GUID) was drawn for. `req[r]` is what an HTTP request is
between: `UploadCheck` (the controller and the first half of `ProcessUploadAsync`),
`UploadStore`, `UploadInsert`; `ImageLoad`, `ImageDeleteFile`, `ImageDeleteRow`;
`EventUpdateLoad`, `EventUpdateSave`; `EventDeleteLoad`, `EventDeleteFiles`,
`EventDeleteRow`. `seen` is what its `DbContext` tracks: a save fails when a row
it wants to touch is gone (`Deletable`). `RequestAbort` ends a request at any
await: client gone, exception, pod stopped.

`wk[w]` is a retention worker: the events it still has to handle with the photos
and titles read at the start of the cycle (`left`, `seen`, `named`), the current
one, the photos still to fetch for its zip, and `pend`, the events its
`DbContext` holds in state Deleted after a save that failed. `CycleStart`,
`PickEvent` (with the marker test), `FetchPhoto`, `CompleteArchive`,
`RemoveDirectory`, `RemoveEventRow` and `CycleEnd` follow
`ArchiveAndDeleteExpiredEventsAsync` line by line; the `...Fails` actions are
the storage and database errors, `WorkerRestart` the end of the process.
`archive[w]` are the directories with a marker; `Ephemeral` are the workers whose
directory goes with the pod. `CycleEnd` includes the `SaveChanges` of
`MarkOfflineAsync`, because it flushes `pend` too. `acked`, `discarded`, `doomed`
and `late` are history variables that say what was promised to whom; `late` are
photos committed after a worker had read or archived their event, for which the
code promises nothing.

Abstracted: an archive is the set of photos in its zip, names and dates are a
`title`, time is the step `Expire`. One photo is fetched per step, and the
directory is removed in one step unless it fails, when any subset is gone.

`Vault` is its abstract specification. It knows no requests, workers, readings,
titles or failures, only photos and events: a photo is accepted with its file, is
withdrawn or its event doomed by somebody, is put into an archive, and its file and
its row go; an event is created, archived and removed. What it says is the order: a
file goes only when nobody wants the photo or an archive has it (`Erase`), the row of
a withdrawn photo only after its file (`Unlist`), and an event that nobody deleted
only when it is archived and empty (`Remove`); an archive has every photo of its event
that is wanted and none of another event (`Archive`). In a real vault each of these is
one step; in the code every one is several, over two stores. The mapping sees the
photos that were accepted in time (`Timely`): `late` ones are promised nothing.
`V == INSTANCE Vault WITH ...` gives it, and `ServesAsVault` is `V!Spec`.

### BoothRuntime

`gate` is `_runnerGate`, `task` is `_runnerTask` with `_runnerCts`, `disk` the
config file (`Torn` while or after a write that was not finished), `cmd[c]` a
dashboard request and `runner[r]` a runner task with the config it was built
with, whether its token was cancelled and whether its loops go on. `StopEnter`
and `StopFinish` are the two halves of `StopRunnerAsync`, `StartEnter`,
`StartLoad` and `StartLaunch` the awaits of `StartRunnerAsync`; a restart is a
stop that goes on as a start. The runner's task begins, asks for its config,
starts its loops, unwinds; `RunnerBadDirectory` is `CreateDirectory` throwing
after the loops were started: the task ends, its linked token is disposed of and
nobody can cancel the loops any more. `CommandCut` is the browser going away
(`requestCt`), `Crash` and `Boot` the process. Registering is an import after a
call to the server that changes nothing here. A runner nobody refers to stands
for a new one (`Fresh`).

### BoothUploads

`disk` is the watch directory, `note` the file system's notifications that have
not reached the watcher, `watch` the file between `TryAdd` and `TryWrite` of
`QueueIfSupported`, `scheduled` and `queue` the dictionary and the channel, `up`
the upload loop at each of its awaits, `beat` and `count` the heartbeat loop,
`belief` the event of `_runtimeConfig`, `status` `_status`. `Aim` takes the event
before the file settles, so a reassignment meanwhile is refused by the server
(`ServerStores`, `UploadFails`). `excused` is a history of the pictures whose upload
failed or was cut off. `Pauses` says whether a picture that is still being written
may look settled. Starting and stopping are one step each: how a runner unwinds is
`BoothRuntime`'s subject.

### DeviceRequests

A nonce names the one signed request that carries it. Copies reach any pod at any
time; `job[h]` is one `AuthenticateAsync` between its awaits: `Receive` (the
headers and the timestamp), `LookUp` (device, body, signature), `Prune` and
`PruneSave` (`DeleteExpiredAsync` reads, then deletes, and throws when another
request deleted first), `Store`, `StoreRefused` or `StoreFails` (`TryStoreAsync`:
the insert commits; it violates the unique index or the foreign key; or it fails for
another reason, in which case nobody knows whether it committed), `LetThrough` (the
principal is set and the request goes on). `Drop` ends a request at any of these
points, also between `Store` and `LetThrough`: its nonce stays. `Sweep` and
`SweepSave` are the retention job, which prunes as well. `ahead` and `drift` are how far
the clocks of booths and pods are off. `Tick` is free: a request may wait in its
handler for any time, as in the code, which has no limit for the arrival of a body.
The signature is taken to be unforgeable.

`Delivery` is its abstract specification. A request is issued by a sender and
accepted while the sender is registered, once, until it is old; it is let through
only after it was accepted and, until it is old, at most once; it is refused as a
replay only if it was accepted, has no sender any more, or failed to be stored. It
promises no more than the code does: a request that was accepted may never be let
through and be refused ever after. `old` is when the first nonce of a request may
have expired, on the clocks of the pods. The mapping forgets clocks, pods, handlers
and nonces; `D == INSTANCE Delivery WITH ...` in `DeviceRequests` gives it, and
`DeliversOnce` is `D!Spec`.

### WebSession

`row` are the active refresh tokens, `must` the forced password change, `cookie` the
browser's cookie; `store[t]`, `path[t]` and `form[t]` are what a tab has of its own,
`call[t][c]` what it waits for. A refresh is `RefreshRead` and `RefreshSave`
(`RotateRefreshTokenAsync` reads, then writes), its answer `Refreshed`,
`RefreshDenied` or `RefreshLost`. `Answered` and `Renew` are `fetchWithAuth`: a 401
refreshes once and sends the request again once. `Submit`, `Credentials`, `CheckCode`,
`Grant` and `SignedIn` are a login with or without a code, `Logout`, `Revoke` and
`LoggedOut` its end, `Timer` the refresh every fourteen minutes, `Redirect` what
`RequireAuth` answers. A token nobody holds any more stands for a new one
(`Unused`). `broken` is a history: a session was ended by the server, or an answer
that brought a cookie was lost.

### Slideshow

A poll reads the event and the pictures in two steps and shows both in one
(`Loaded`); polls overlap. `Swap` darkens the stage and sets a timeout, which
`Land`s later with the target that was computed from the picture count of then.
`Settle` is what React's effects do in the same turn when the album or its length
has changed. The pictures of an album are the positions they have in the list
(`ActiveImages`). `PickAlbum`, `GoTo`, `JumpTo`, `TogglePlayPause` are keys, swipes and
clicks.

### The pages

`PageVisit` has the calls of a page: sent, served or refused at some moment, answered
later, or lost on either way. A module of a page says what its operations do at the
server (`Operate`, `Read`), what an answer does to the page, and what others do to the
same data (`OthersWrite`). `disturbed` is a history: others wrote, or two calls of the
page overlapped.

* `DevicePages`: the dashboard with its table and its form, and the page of a device.
  Every operation is followed by a load of everything; the page has one flag per kind
  of operation. Heartbeats read a row and write it back.
* `EventPages`: the dashboard with one form for creating and editing, the page of an
  event and its panel of contacts. A form can be cancelled while its call is under way.
* `CouplePages`: the gallery with its caption editor, the upload page, which uploads
  the files of a drop one after the other and two drops side by side, and the
  download page.
* `SmtpPage`: saving and testing, side by side, and the server's test, which reads
  the row, sends a mail and writes its verdict.
* `PasswordPages`: the rules of the browser and of the server, the meter, and the two
  pages that set a password. A password is its length, the kinds of its characters
  and whether it has spaces.
* `BoothConsole`: its polling, its buttons, the five commands and the pending key. A
  stop is `StopBegins` and, once the runner has ended, its answer (`Obey`).

## 3. Runs

| Run | Question | Result |
|---|---|---|
| `photo_store` | can a photo be lost, a gallery get holes, a file survive its event, with two requests, two workers, a fault, an abort, a restart; does it implement `Vault` | holds, 863 thousand states |
| `photo_context` | two events in one cycle share a `DbContext` and the archive directory is lost: is an event left in state Deleted removed without its own archive | holds, 2.8 million states |
| `photo_retention` | is every expired event removed or extended in the end, with two workers, a fault and a restart | holds, 83 thousand states |
| `booth_runtime` | three commands, two at a time, with two configs, a cut, a crash and a bad directory | holds, 236 thousand states |
| `booth_uploads` | two pictures that are written, removed or never settle, an event that is reassigned, failing calls, a runner that stops and starts | holds, 106 thousand states |
| `device_requests` | two requests, any number of copies, two handlers, a booth's clock that is off, expiry, pruning by requests and retention, failing inserts, device deletion; does it implement `Delivery`, and how long has a repeat waited | holds, 2.5 million states |
| `web_session` | logins, refreshes, logouts and password changes in a tab with two calls in flight; does every call end, and the flag of the forced change go | holds, 182 thousand states |
| `slideshow` | two polls, two timeouts in flight, two albums, a list that shrinks | holds, 371 thousand states |
| `web_pages` | a visit to each of the pages, with two calls in flight and four inputs | holds, 749 thousand states |
| `photo_stuck` | an event whose photo lost its file but not its row | violated: never removed |
| `booth_orphan` | is a runtime that was stopped at rest | violated |
| `booth_unassigned` | do uploads wait for an assignment | violated: dropped |

### The properties

* `KeptOrArchived`: a photo answered with success, not deleted by anyone and
  committed in time is in the gallery with its file or in a completed archive.
* `ArchivedBeforeRemoval`: a worker that may still empty or remove an event has
  archived its photos itself, also for events left over from a failed save.
* `GalleryIntact`: a listed photo without a file is being deleted, or its event
  is archived.
* `ErasedWithEvent`: no file of an event that retention removed stays.
* `ServesAsVault`: `PhotoLifecycle` implements `Vault`: nothing is erased, unlisted or
  removed before its time, whatever is done in between.
* `ExpiredEventuallyRemoved`: an expired event is removed or extended.
* `OneRunner`: every runner at work is the one the manager can stop, except
  after the start between the halves of a stop (`overlap`) and the bad watch
  directory: the two ways the code does leave a runner behind.
* `ImportTakesOver`: the runner the manager knows works with the config on disk.
* `RestsHonestly`: with nothing under way and no runner alive the dashboard shows
  "stopped" or "error".
* `CommandsReturn`: every command ends.
* `ScheduledOnce`: a scheduled file is with the watcher, in the queue once, or with
  the upload loop: no upload is doubled for one entry, and no entry is left behind
  that would keep later notifications of its file out.
* `FinishedAreUploaded`: a finished picture the watcher hears of is on the server
  whole, or was removed, failed, or the runner stopped.
* `AssignmentArrives`, `StatusComesToRest`: once nothing new happens, the booth knows
  its event and reports "idle", whichever heartbeats and uploads failed before.
* `DeliversOnce`: `DeviceRequests` implements `Delivery`, see section 2.
* `RepeatsHaveWaited`: a copy that is let through although another was before has
  been in its handler, since its timestamp was tested, for at least the lifetime of a
  nonce less the tolerance (and less what the clocks are off). With the code's five and
  ten minutes: no request is repeated unless one of its copies takes five minutes to
  arrive. The bound is reached, so nothing stronger holds: that there is no repeat at
  all (`AtMostOnce`) is false, see below.
* `SignedOutHoldsNothing`: a tab that signed out has no token, role or flag, also after
  answers that come later.
* `CookieIsLive`: once answers are in, the cookie is one the server accepts.
* `RedirectsSettle`: a redirect is not answered by the next one.
* `EveryCallEnds`, `FlagClears`: no request is repeated for ever; no tab goes on asking
  for a new password after it was changed, although an older refresh may still set
  the flag again.
* `DarkOnlyWhileSwapping`, `EveryPictureShown`, `ShowCatchesUp`: see the component table.
* `OneAtATime`, `ShowsOwnWork` (every page): what is at work is not sent twice; a page
  that did one thing at a time, beside nobody else, ends with the data as they are.
* `UntouchedDaysOrDefault`: a form whose days were not touched sends the days of its
  event, and the default, 90, for an event of 0 days. The second half is what
  the code does, not what one would want: an edit of the name keeps the photos of
  such an event for three months more. That the days stay as they are without
  exception (`UntouchedDaysStay`) is false, see below.
* `RulesAgree`: of passwords in ASCII the pages send and hold back what the policy of
  the server takes and refuses. Of the meter it says what holds: what the server takes
  is rated good or strong, and what is rated strong and has no space is taken. A rating
  of good promises nothing (`SolidIsTaken` is false, see below), and a space does not
  keep a password from being rated strong.
* `DeletedStaysDeleted`, `UploadsAreTrue`, `VerifiedIsTested`, `KeyUsedOnce`: one page
  each, stated at the definition.

Each component has one type invariant.

Some properties are stated in their modules and false of the code. Four of them are what
its documents, comments or messages make one expect. For each, the run of its component
checks the property that holds instead and says how far the code goes; TLC refutes
each of the four as an additional invariant of that configuration:

| Property | Expected because of | Refuted by | Holds instead |
|---|---|---|---|
| `AtMostOnce` (`DeviceRequests.cfg`) | "rejects replayed nonces", the repository's `README.md:359` | a copy whose body arrives so late that the nonce of the first copy has expired; it prunes that nonce and is let through (`DeviceAuthenticationService.cs:61`, 89, 105) | `RepeatsHaveWaited` |
| `RefusalIsRepeat` (`DeviceRequests.cfg`) | "Replay attack detected for this nonce.", `DeviceAuthenticationService.cs:116` | a first copy whose insert fails: every `DbUpdateException` is answered so (`DeviceRequestNonceRepository.cs:27`) | `Refuse` and `Fail` of `Delivery` |
| `UntouchedDaysStay` (`WebPages.cfg`) | "Calculate retention from existing event dates", `EventForm.tsx:42` | an event of 0 days, whose name is edited and which is saved with 90 (line 46) | `UntouchedDaysOrDefault` |
| `SolidIsTaken` (`WebPages.cfg`) | "Solid for admin use", `adminPassword.ts:83` | a password of two kinds of characters, which the server and the form itself refuse (`AdminPasswordPolicy.cs:19`) | `RulesAgree` |

Four others have no line of the repository that promises them outright:
`ArchiveIsOfThisEvent` (a `.completed` marker of an earlier cycle stands for the archive
of photos that came later, `EventArchiveService.cs:42`), `RemovedIsArchived` (the CronJob
archives into its own pod and then removes the event,
`infra/k8s/cronjob-cleanup.yaml:15`), `RemovedOnlyWhenDue` (an event extended during a
cycle is removed by it, `RetentionMaintenanceService.cs:170`), and
`RefusedOnlyWithoutSession` (two refreshes with one cookie, `authStore.ts:50`).

### Bounds, and why they are enough

`photo_store` has one event and one photo: photos of one event do not affect each
other except through the atomic save of the tracked rows, and events only through
a worker's `DbContext`, which is why `photo_context` has two of each. Two workers are the least
that can race on one event; two requests the least that can race on one row. One
fault, one abort and one restart reach every error path from every state; second
ones repeat them. The theorems hold for every value of these constants.

The runs give an event one title, that is, nobody edits its name or date. For the
safety properties the theorems cover any number of titles. For
`ExpiredEventuallyRemoved` the restriction matters: with `Titles = {t1, t2}` in
`PhotoRetention.cfg` TLC finds the event that is never removed, see the findings.

In `booth_runtime` the orphan needs three commands (start, stop, start) of which
two overlap, and three runners cover the known one, the one a stop waits for and
a new one.

`device_requests` has tolerance 1, lifetime 3, a booth whose clock is off by one and
three units of time: enough for a nonce to expire, to be pruned by a copy or by
retention, and to be stored again by a slow copy. Two nonces let one request prune
those of another. TLC checks it with one pod clock; pods whose clocks differ are
covered by the theorems, as are the five and ten minutes of the code.

`booth_uploads` has two pictures, the least of which one can hold up the other, and
five inputs: enough for a start, a picture in two writes, a reassignment and a
failure. The config is read by every second heartbeat instead of every fifth, which
changes the length of behaviours only.

`web_session` has one tab and one role, that of the admin. Tabs share the cookie and
the server; what a second tab can do to the first (rotate, revoke, log in again) its
second call can do too. The safety properties were checked with both roles (937
thousand states), and their theorems hold for any number of roles, tabs and calls.
Three tokens are one in the cookie and one for each call; the others can never be
presented again and are reused.

`slideshow` has two polls and two timeouts in flight, lists of none and of three
pictures and two albums of different length: an index may be beyond the end, and a
timeout may count another album. In `web_pages` two calls in flight overlap, fail and
overtake each other; four inputs are two operations and two deeds of others. Of each
kind of object there are two where rows of a table can be mixed up.

Deadlock is not checked: requests, commands and workers may have nothing to do,
and every bound runs out.

### Fairness

`photo_retention` assumes weak fairness of each worker's own steps (the hosted job
loops for as long as the pod lives, `Jobs/GdprCleanupJob.cs:21`) and of a request
that was accepted (Kestrel serves it to its end or it is aborted). Nobody has to
upload or create anything. `booth_runtime` assumes weak fairness of each runner's
steps (the thread pool; the runner's one network wait has `HttpClient.Timeout`)
and strong fairness of each command's steps: `SemaphoreSlim` lets a waiter in when
it is released again and again. `booth_uploads` assumes weak fairness of the
watcher and of each of the two loops: every call ends by the timeout of the client,
every wait is a `Task.Delay` or a read of the channel.

`web_session` assumes that a call in flight is answered or fails (the browser ends
it), that the timer of a tab fires, and that nobody reloads a tab for ever before
anything is answered: each reload starts the calls anew. `slideshow` assumes that
polls are answered and timeouts and intervals fire; the interval of at most 5.6
seconds is set anew by each poll, and polls are fifteen seconds apart, so it does
fire. `web_pages` checks safety only.

No fairness is assumed of operators, users, faults, crashes or of `Boot`.

## 4. Proofs

Each theorem holds for every value of the constants that meets the named
assumptions, which TLC evaluates in every run.

* **PhotoLifecycleProofs!TypeCorrect**. `TypeOK` alone is not inductive: a request
  past its first step needs an event, and a worker past the choice a current one.
  `Shaped` says so.
* **PhotoSafetyProofs**. The inductive invariant has a part for requests (`Book`:
  what is being deleted was asked for, and an upload owns its file name) and one
  for workers (`OwnArchive`, `Emptied`, `Read`, `Zipped`, `Listed`): a worker's
  reading of an event saw every photo on time, its archive holds the reading, it
  claims an event only with an archive of its own, and what it has emptied has no
  files on time. The key is `late`: a photo that commits once the event is held by
  a worker or archived is late, so a reading on time stays complete. Steps are
  abstracted to two effects, `WorkerEffect(w)` and `RequestEffect`, and each part
  is shown to survive them. This gives `ArchivedFirst` (`ArchivedBeforeRemoval`)
  and `Erased` (`ErasedWithEvent`) wherever archives live; with `Ephemeral = {}`
  also `DurableInv` (a missing file or event is excused by a request or by an
  archive that is still there), and from it `NothingLost` (`KeptOrArchived`) and
  `GalleryWhole` (`GalleryIntact`). Without that assumption they are false:
  the CronJob of the manifests removes events on the strength of archives that go with
  its pod.

  `ImplementsVault` (`ServesAsVault`) has the same hypothesis. To `SafeInv` it adds what
  only matters for the order of steps (`VaultInv`): a request that is about to delete a
  row has deleted its file, and file names are not used twice, so it is still gone
  (`FileGone`); readings and archives hold photos of their own event only (`AtHome`);
  and a photo is late only once it was accepted (`Belated`), so what `Vault` saw once
  stays in its sight. Then one lemma per kind of step: an insert on time is `Accept`, the
  load of a deletion `Withdraw` or `Doom`, the marker `Archive`, files that go `Erase`
  (`FilesErased`, used by requests and workers alike), a `SaveChanges` that removes
  events `Remove` of all events it holds in state Deleted (`RowsRemoved`,
  `FlushServes`); everything else stutters (`MappedVars`).

  `VaultKeeps` and `VaultClears` say what every vault is good for: a wanted photo is in the
  gallery with its file or in an archive, and an event nobody deleted goes archived and
  empty. `RemovedOnesAreArchived` draws the conclusion for the code: with lasting archives
  `RemovedIsArchived` holds too, which without them is false (section 3).
* **BoothRuntimeProofs**: `BoothTypeCorrect`, `OneRunnerAtWork` (`OneRunner`),
  `ConfigTakesOver` (`ImportTakesOver`) and `DashboardRests` (`RestsHonestly`).
  The invariant for one runner: a command past the entry of a start holds the gate over a known
  runner that is dead (`Gated`); a stop waits for a runner it has cancelled
  (`Cancelled`), which unless a start overlapped is the known one (`Known`); and a
  live runner nobody cancelled is the known one (`Sole`).

  For the config it says when the runner may still work with the old one (`Outdated`:
  the file is being written or torn, nobody restarts, or the restart has yet to stop
  the runner); otherwise the known runner has the config on disk and so has a start
  that is past reading it (`Current`). The property speaks of the runner only; without
  the second half a start that read the file before an import would launch it with
  the old config. For the dashboard: a state other than stopped or failed has somebody
  who will still write its end, a stop that waits or the runner (`Accounted`).
* **DeviceRequestsProofs**: `RequestsTypeCorrect` (`TypeOK`), `RepeatsOnlyAfterWaiting`
  (`RepeatsHaveWaited`) and `ImplementsDelivery` (`DeliversOnce`). Nothing is assumed of how
  tolerance, lifetime and clocks relate. The invariant (`NonceInv`) says how long a nonce
  lasts: one that is stored or about to be stored expires no sooner than `Lifetime`
  after its request was signed, give or take the clock of the pod (`LastsUntil`); so
  a request that was accepted has its nonce in the table, or is old, or has lost its
  device (`Remembered`), and whatever a handler has read to delete is old (`Useless`).
  Hence of a request that is not old one copy at most is between `Store` and
  `LetThrough`, and none if one was let through before (`OneAccepted`). A copy was in time when it was
  received, so what is old by now has waited: that is the bound of
  `RepeatsOnlyAfterWaiting`.

  For `ImplementsDelivery` a commit is `Accept`, the step to the controller `LetThrough`, a
  key that is violated `Refuse`, any other failure of the insert `Fail`; a tick is `Age`, a
  deleted device `Leave`, and all else stutters.
* **BoothUploadsProofs**: `UploadsTypeCorrect` and `ScheduledInOnePlace`
  (`ScheduledOnce`). The invariant adds what the upload loop holds at each point
  (`Handed`): no file while it waits, an event from `Aim` on.
* **WebSessionProofs**. `SessionTypeCorrect` needs that calls past their start name an
  account (`TokensAreNamed`). `SignedOutStaysEmpty` (`SignedOutHoldsNothing`) and
  `RedirectsRest` (`RedirectsSettle`) follow from it step by step. For `CookieStaysLive`
  (`CookieIsLive`) the invariant is `CookieInv`: the token an answer brings is held by
  nobody else (`AnswersAreNew`) and active unless the session broke (`AnswersAreLive`);
  a cookie that is not active any more has an answer under way that replaces it
  (`CookieGoesOn`).
* **SlideshowProofs**: `NeverLeftDark` (`DarkOnlyWhileSwapping`), whose invariant adds only
  that the timeouts are a sequence, and `Types` (`TypeOK`). For the latter `TypeOK` is not
  inductive: a timeout lands with a remainder by the number of pictures it counted, or
  with that number less one, and the album may have lost all its pictures since. The
  invariant (`TypeInv`) says that one that counts had counted some. The assumptions are
  that lists are finite and that an event has an album (`GalleriesAreFinite`,
  `EventsHaveAlbums`); that the address always stands for one of the albums
  (`ActiveAlbumIsListed`) rests on the well-foundedness of `<` on numbers.
* **WebPagesProofs**, each for a visit with any number of calls, objects and inputs:
  `DeletedForGood` (`DeletedStaysDeleted`; `DeviceInv`: operations in flight are about
  devices, and a removed row is gone), `UploadsToldTrue` (`UploadsAreTrue`; `CoupleInv`:
  what is told of each item, and that an upload that was served has its photo), and
  `VerifiedByItsTest` (`VerifiedIsTested`; `SmtpInv`: as long as nothing overlapped there
  is one call, and a test that has read the row is a test of the row as it is).

  `PagesTypeCorrect` (`TypeOK`), `OneClickOneCall` (`OneAtATime`), `OwnWorkShown`
  (`ShowsOwnWork`), `DaysUntouched` (`UntouchedDaysOrDefault`), `RulesOfBothAgree`
  (`RulesAgree`) and `KeyRegisteredOnce` (`KeyUsedOnce`) follow from one invariant,
  `VisitInv`: the visit is to one page, and that page's invariant holds. It has three
  kinds of parts. None of the properties is inductive without them:

  - `...Typed`: what a call is about fits what it does. The types of `TypeOK` let a save
    of a caption carry the argument of a drop, and its answer would then write anything.
    For events it also bounds the albums of a form by the inputs that are left.
  - `...Busy`: a flag is set as long as the call it stands for is in flight, and there is
    one such call. For events: whatever works for the panel is of a page that has its
    event, so the answer finds the panel mounted.
  - `...Shows`, under `~disturbed`: there is one call at most (`Alone`), and for each
    thing it can be doing, how far the page is behind the server (`RegistryFits`,
    `EventFits`, `GalleryFits`, `SmtpFits`, `ConsoleFits`). A delete that was served
    has the page show one row too many; an answer on its way back holds what the server
    holds; and once the call is over page and server agree.

  `DaysUntouched` needs two more. `EventKnown`: what a page shows or edits was there
  once, and ids do not come again, so a new event never takes the place of the one that
  is edited. `EventDays`: an open form whose days were not touched has the days of its
  event, or the default if these are 0, unless an update is about to close it; a form is opened from the list, so
  this rests on `EventFits` for every call that may be in flight then (`OpensWithDays`).

  The assumptions of `WebPages` are those of the code: ids are neither null nor the name
  of a page, the caption that marks a missing photo is no caption, the default of days
  is one of them, the server takes an album at least, a generated key is not one
  from elsewhere, and there is a call.

Only model-checked are the liveness properties (`ExpiredEventuallyRemoved`,
`CommandsReturn`, `FinishedAreUploaded`, `AssignmentArrives`, `StatusComesToRest`,
`EveryCallEnds`, `FlagClears`, `EveryPictureShown`, `ShowCatchesUp`): fairness and
`ENABLED` are out of the prover's reach. Every invariant, every other action property
and both refinements that a run checks have a theorem.

## 5. Findings

1. **`photo_stuck`** (`ImageService.cs:256`): an image deletion cut off between
   file and row leaves a row no archive can serve; the event is never removed.
2. **`booth_orphan`** (`BoothRuntimeManager.cs:163`): a start between the halves of
   a stop leaves a runner at work that no later stop can reach.
3. **`booth_unassigned`** (`PhotoboothDeviceRunner.cs:72`): the booth says at line 33
   that uploads wait for an assignment; they fail and the pictures are dropped.

A variant of the first: a worker archives an event and fails while it empties the
directory; an admin then edits the name or date of the event. The archive directory
is named by both (`EventArchiveService.cs:38`), so the next cycle finds no marker,
cannot fetch the photos, and never removes the event (`photo_retention` with two
titles).

Met on the way. Most have no line of the repository to hold them against:

* Server: an upload whose event goes away leaves its file in the store
  (`UploadRefused`). The comment of `AuthService` on a reused token says that the
  whole family is revoked; only that token is. A heartbeat writes the whole row it
  read and undoes an assignment made meanwhile. A code for a reset is read, then
  marked used, so two requests may both use it. A test of the mail settings that
  overlaps a save can mark settings verified that nobody tested, which is why
  `VerifiedIsTested` speaks of tests that do not. More than eight albums are cut off
  silently. A nonce that was stored before its request was cut off keeps every later
  copy of that request out; the booth signs its retries anew. Negative days are taken
  too, and treated as 0 is.
* Booth: a config import cut off in the middle leaves a file the next start cannot
  read (`Torn`); loops outlive their task over a bad watch directory; with
  `Pauses = TRUE` TLC finds a picture of which only the first half is ever uploaded,
  because the notification of its last write is ignored while the upload of the first
  half lasts; a notification after an upload uploads the picture again; the status
  "error" of a failed upload is overwritten with "idle" at once, so heartbeats
  hardly ever report it.
* Session: refreshes are not serialised. The timer and a request that was answered with
  401 present the same cookie; `RotateRefreshTokenAsync` takes it once, and the refusal
  of the other signs the tab out of the session just renewed
  (`RefusedOnlyWithoutSession`). A reload restores nothing, because `isAuthenticated` is not persisted,
  though docs/zustand-integration.md:148 says that it does; the answer of a refresh
  is stored whatever role the tab has by then; "Log out" on the password page does
  not call the server; `deleteImage` and `removeMarriageInvite` bypass `fetchWithAuth`
  and fail on an expired token.
* Pages: the rules for passwords differ on letters beyond ASCII; a long password
  of all kinds with a space is rated "Strong" and refused; the limits
  of the event form do not apply once "Advanced" is hidden again; a ZIP that fails
  replaces the page of the event by "Event Not Found"; a late answer to a cancelled
  form closes the one opened since; contacts stored by a request that failed half way
  are not listed; after a failed test the page of the mail settings goes on showing
  "Enabled"; the console shows a tick for "disconnected" and for failed uploads, and
  registering drops a key pair generated meanwhile; a paused slideshow may read
  "3 / 2" after a change of the album.

## 6. Not modelled, and the plan

Not modelled, because nothing that lasts depends on it: layout and wording, the
slideshow's controls, preloading and Escape, the sections of the console, clipboard
and download of a device package, `AuthContext.tsx` and `uiStore`, which nothing uses,
and the `/login` page, which shows the panel of the landing page. Not modelled,
because it is another kind of question: the content checks and EXIF stripping of
images (byte formats), QR codes, key generation and cryptography, generated migrations,
the manifests beyond the facts named above.

Left for later, in this order:

1. Columns instead of rows for devices and events: what warning mails, captions,
   heartbeats and assignments overwrite of each other.
2. The telemetry of the booth (`ClientRuntimeState`), whose counters are read and
   written by two loops without order; the warning mails and the pruning of devices;
   resending and verifying invitations; the setup of the first admin.
