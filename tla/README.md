# simple-fileurl in TLA+

simple-fileurl shares files by hash URLs and by *share links*, and gives SFTP
access to the users an administrator lists. It runs as three containers that
have no channel between them but files on shared volumes. This directory models
the parts where that is hard to get right, checks them with TLC and proves the
main results with TLAPS.

## The system

| Container | Code | Runs as |
|---|---|---|
| file-sharing ("web") | `main.go`, `internal/server`, `internal/links`, `internal/store` | `app`, not root |
| sftp-admin ("admin") | `cmd/sftp-admin`, `internal/sftpadmin`, `internal/links` | root |
| sftp | `sftp/entrypoint.sh`, `sftp/reconcile.sh`, sshd | root |

| Shared file | Written by | Read by |
|---|---|---|
| `file-links/links.json` | web and admin | web and admin |
| `sftp-users/users.json`, `key-notes.json` | admin | sftp (users.json), admin |
| `app-config/config.json` | admin | web and admin |
| the share itself | sftp users | web |

### Components, their state and what makes them correct

**Share links** (`internal/links/links.go` and the handlers of both servers).
State: a map in the memory of each process behind a mutex, the file with its
mode and owner. Operations: Load, Create, Update, Delete, Get, List. Every
handler reloads the map in one critical section and changes and saves it in
another. Hard: two processes read, modify and write one file; the rename and the
chmod of a save are two steps; a failed save leaves the memory ahead of the
file. Correct when an answered change is neither lost nor undone, a page shows
what was answered before, and the mutex is always released.

**User manifest** (`internal/sftpadmin/store.go`, `server.go`). State: users
with a switch and a list of key texts, notes by user and fingerprint, generated
private keys waiting for their one download. Operations: create, add, generate
and delete key, enable, disable, delete, repair, note, download. Hard: most
handlers look something up in one critical section and act in another; notes
are dropped in a third; manifests from elsewhere may hold invalid or commented
entries. Correct when enabled users have keys, only disabled users are deleted,
nothing but the named key leaves, notes follow keys, and a private key is served
once.

**Reconciler** (`sftp/reconcile.sh`, the loop of `sftp/entrypoint.sh`). State:
accounts, directories, authorized-key files, the remembered hash. Hard: the
script reads the manifest once per field while it may be replaced; `set -e`;
per-user failures; restarts. Correct when key files follow the manifest, a
failure concerns one user only, and no version is missed.

**Shared settings** (`internal/config/shared.go`, `internal/sftpadmin/settings.go`,
`sftpadmin/config.go`, `handleSettingsSave`). State: config.json and its mode,
the mutex of the settings page. Operations: seed or repair at start-up, apply a
form, read. Hard: the web container falls back to its start-up values when it
cannot read the file, which is the case between the rename and the chmod of
every save; saves overlap, fail, and die half-way. Correct when a form is applied
entirely or not at all and to what the file holds then, when a replaced value
does not come back, and when the web container comes to see the file.

**Admin sessions** (`sftpadmin/session.go`, `handleLogin`) and **link sessions**
(`internal/server/links.go`). State: failures by address, sessions, signed
cookies. Hard: the login limit is checked and counted apart, passwords and tokens
change between the steps of a request, cookies outlive link passwords. Correct
when a replaced password or token opens nothing, the limit holds and cookies end.

**Share store** (`internal/store/store.go`, `internal/hash`, `handleDownload`).
State: a live configuration and a cache of content hashes by size and
modification time, behind one mutex. Hard: files change between stat, read,
resolve and open; requests bring different configurations. Correct when the cache
is not stale, a scan uses one configuration, and a listing or download is right
for what did not change meanwhile.

The web and admin containers meet in links.json (LinkStore models both sides) and
in config.json (Settings models both sides, Access puts logins and link visitors
on top of it); the admin publishes what the reconciler reads (Manifest and
Reconciler meet in users.json; Reconciler's `Publish` is an arbitrary writer from
a given set of versions). ShareStore takes the configuration of each request as
an input, since the admin may change it at any time.

## Modules

| Module | What it is |
|---|---|
| `LinkStore` | links.json under both processes |
| `Manifest` | users.json, key-notes.json, pending keys under the admin's handlers |
| `Reconciler` | the script and its loop, against a manifest that changes under it |
| `AtomicSettings` | what the settings page promises: forms as transactions |
| `Settings` | config.json under the admin's saves, start-up and the web's reads; implements `AtomicSettings` |
| `Access` | `Settings` composed with logins, sessions, a protected link, its API and its cookies |
| `ShareStore` | scan, hash cache, resolution and download under a changing tree |
| `MC...` | constants for TLC: sets, documents, symmetries |
| `...Proofs` | theorems and their proofs |

`PROJECT.json` maps each definition to its source lines. A definition that its
comment calls a *mutant* is a neighbouring definition with a plausible bug; it is
used by no specification and documents what each property would catch.

### LinkStore

A request is a slot with a program counter: `loaded` after `reloadLinks`,
`valid` for a create past its checks, `saving` inside the critical section up to
the rename, `renamed` until the chmod, `reread` for PATCH's closing Get, `viewed`
for a page that has read its link. `mem[p]` is `Store.links`, `mu[p]` its mutex.
`BeginSave` is everything before the rename at once: it touches only the memory
of a process whose mutex is held and a private temp file. A link is an opaque
body (password hash, description, scope) and an expiry. Faults are opt-in per
configuration: `"save"` (an error before or in the rename), `"torn"` (an error or
crash between rename and chmod), `"crash"`.

`promised[i]` is a ghost: what the last successful answer about a link implies.
Requests about the same link that overlap promise nothing, so the properties
never depend on an order the clients could not know.

### Manifest

`Store.Update` is one step: load, callback, strict validation and the rename all
happen under the mutex, and nobody else writes. The handlers' look-ups, the
Update, and each operation on the notes are separate steps, as in the code. A
user's key list is a set of entries: an entry is a fingerprint in canonical or
commented form, or `Invalid`. Order matters only where two entries share a
fingerprint, and there both choices are taken. The callbacks are the operators
`Created`, `KeyAdded`, `KeyDeleted`, `Switched` and `Deleted`, which yield the
possible new values of the user and none for an error. `LegacyUser` is what a
manifest found at start-up may say of a user: any entries, and an empty list only
for a disabled user. `missed[r]` is a ghost, kept by `Watch` beside every step: the
keys that came or went since request `r` last looked at the manifest.

### Reconciler

Each jq call is a step that sees one complete version of users.json; what it
yields when the index is past the end, the file is gone or cannot be parsed is in
`Item` and `Readable`. `End` is the end of the script by exit or `set -e`
together with the loop's `last=$cur`. `eff[u]` is the key file of a user.
`enabled` in an entry is what the script asks of it, `.enabled == true`: a missing
field or one of another type is a user to revoke, like `false`.

`faulted` is a ghost: provisioning or a write failed in this run.

### AtomicSettings and Settings

A submission is a slot: `posted` before `ApplySettings`, `loaded` under
`settingsMu` with the file it read, `renamed` until the chmod, `report` for the
rest of the handler. Validation is field by field on top of a valid
configuration, so a field fails by its own value and the order of Go's map
iteration does not matter. `Boot`, `SeedRename` and `SeedChmod` are
`SeedSharedConfig` with and without a file. `retired[k]` is a ghost: the values
of a field that forms have replaced and none has submitted since. A configuration
of `AtomicSettings` is the file (the environment while there is none), a pending
form is one that has not been renamed into place; rename is the commit, and
everything else is a stutter, a submission or a drop.

### Access

`Access` extends `Settings`: each of its actions is a step of the settings or
leaves them alone. A login is checked against the limit, compared, counted or
cleared, and given a session in separate steps, as the handler has separate
critical sections. A visitor's request reads the link and later the
configuration. `Effective` is what the web container takes at that moment. A
cookie is the token it was signed with and its end, with the ghost of its issue.
An API call is let in by `requireBearer` and changes the link afterwards. The
slice of failure times is a set whose entries of one instant are numbered
(`Failure`): nothing depends on its order, and finite sets can be counted in a
proof, which filtered sequences cannot. `AppendCounts` in AccessProofs shows that
an append is always one entry more.
`mix` picks for each behaviour which slots take part, which keeps the
combinations that meet in some variable and leaves out the products that do not;
the proofs hold for every `Mixes`.

### ShareStore

The walk visits the eligible paths in order, one step each; a miss is two steps,
the stat and the open with the read, between which the tree may change.
`EndScan` releases the lock. After `resolved` the file is opened without it. A
node is absent, a symbolic link, a regular file, or one the process may not read.
`steady[r]` is a ghost: the paths that have not changed since request `r` came.
`seen` and `blurred` are ghosts for the one case the cache cannot tell, a file
with the size and time of an earlier one at its path.

## Runs

| Run | Result | What it shows |
|---|---|---|
| `links_web` | passes | the web process alone, two requests, every fault: answered changes are kept, pages are fresh, a save touches one link |
| `links_exclusive` | passes | both processes when operators do not change links through both at once; every request that changes links is answered (under fairness) |
| `links_lost_update` | **violated** | both at once: one of two creates is lost |
| `manifest_concurrent` | passes | two requests, every fault: only disabled users are deleted, the last key goes with the switch, only the named key leaves, an enabled user without keys comes from one race only, notes follow keys, one download |
| `manifest_enable_race` | **violated** | enabling races the removal of the last key |
| `reconcile` | passes | undisturbed runs do what the manifest says, exit 0 means it matches, a loop with nothing to do has missed no version, and in the end the key files agree (under fairness) |
| `reconcile_torn` | **violated** | a deletion during a run gives one user another's key |
| `reconcile_toggle` | **violated** | a switch back and forth during a run leaves the wrong key file for good |
| `access` | passes | settings, logins, API calls and link visitors with every fault: forms are transactions (refinement of `AtomicSettings`), replaced secrets neither come back nor open anything, the login limit, the end of cookies; the web container is in step between saves and catches up (under fairness) |
| `access_old_token` | **violated** | in the window between rename and chmod of a later save the web container accepts a token replaced before |
| `share` | passes | a download and a listing under different configurations while the tree changes: fresh cache, one configuration per scan, right listings and downloads |
| `share_dead_link` | **violated** | a file that became unreadable after it was hashed is still listed |

The six violated properties are what the code's comments and the specifications
and documents under `openspec/` and `docs/` say; the findings in `PROJECT.json`
quote them. Where a passing run has a weaker property on the same matter, the
weaker one says how far the code keeps the promise, and is proved:

| Promised, and violated | Kept so far |
|---|---|
| `NoDataLoss` with both containers (`links_lost_update`) | the same, when they do not change links at once |
| `EnabledHasKey` (`manifest_enable_race`) | `KeylessOnlyByRace`: broken only by an enabling during which a key of the user left |
| `NoForeignKeys` (`reconcile_torn`) | `RunMatches`: undisturbed runs do what the manifest says |
| `Converges` (`reconcile_toggle`) | the same, when no version comes twice |
| `OldTokenRefused` (`access_old_token`) | `RetiredSecretsRefused`: refused whenever the web container can read the file |
| `NoDeadLinks` (`share_dead_link`) | `ListingRight`: what is listed is a regular file, with its hash |

Five more promises are not kept; no run shows it, but a passing run checks how far
each is, and the models contain the behaviour:

* `sftpadmin/session.go:20-21` caps the failed logins of an address at
  `maxLoginAttempts`. Logins in parallel pass the check together and are counted
  afterwards. `FailuresBounded`: the cap is exceeded by at most the logins that were
  let in before the others were counted.
* `openspec/specs/file-sharing/spec.md:139-140` says that the contents of a link's
  target outside the namespaces are not returned. `openPath` refuses links, but
  `handleDownload` opens the path by name again (`server.go:102`) and follows a link
  that took the file's place in between; `got` is then `Outside`. `DownloadRight`
  speaks of paths that did not change since the request came.
* `openspec/changes/manage-sftp-admin-keys/specs/sftp-admin/spec.md:7,57` says that
  comments do not affect a key's identity and a removed key can no longer
  authenticate. `deleteKey` drops the first entry with the fingerprint only
  (`server.go:450`), so of a key listed with and without a comment one entry stays.
  `OnlyNamedKeyLeaves`: what goes has the named fingerprint, be it one entry or all.
* `sftpadmin/store.go:160-162` says that notes on surviving keys are preserved. A
  repair or a deletion of a user loads the keys to keep in one critical section and
  prunes in another, and drops the note of a key that was added and annotated in
  between. `NotesSurvive`: no other surviving key loses its note.
* `server/server.go:64-65` says that links changed by the admin become visible
  without a restart. A page of the web container served between the rename and the
  chmod of a later save misses also earlier changes that its memory does not have.
  `FreshView`: with one process every page is fresh.

Smaller disagreements met while modelling: the spec says
that submitting the same key again does not create a duplicate, but a key listed
with a comment (as in the schema example of `reconcile.sh`) and then added again
is stored twice. `openspec/changes/manage-sftp-admin-keys/design.md`
says that ordinary updates never repair silently, while removing the last usable
key of an enabled user drops its invalid entries with it. When one
field of a settings form is invalid nothing is saved, yet the page says "Saved:"
of the others and the log has them as updated. And a settings page shown before
another administrator's change puts all old values back when it is submitted.

### Bounds

* Links: two ids (the link under test and another that shares its save), two
  slots (two requests of one process, or one of each; `links_exclusive` has two of
  web and one of admin, and leaves out views, which change nothing), one body, time 0 to 2 (a
  link that is alive, dies, and is dead; 0 in `links_exclusive`). With the body fixed, links differ by
  expiry; `MaxTries` is the code's three.
* Manifest: two fingerprints, each in both forms, and an invalid entry; one user
  and two concurrent requests, since requests race on one user. A manifest found at
  start-up has any subset of these entries. Notes and repair are manifest-wide:
  what they do to several users at once is covered by the proofs. `served` needs no
  bound: a generated key is put up once.
* Reconciler: two users, five documents that cover every kind of entry and change
  of index, three versions, one restart. Three versions are the least for a
  change during the run that reacts to a change. `Repeats` is FALSE in the
  passing run: identical bytes published twice are what `reconcile_toggle` is
  about.
* Access: three fields (one that validation can refuse, token, password), two
  values, three forms (a new token with a blank secret, the old token again with
  a new password, one good and one bad field). Five mixes: two saves with the
  login that opens a session; one save with two logins from one address and the
  clock; a save and a login with a visitor, and with an API client; a visitor
  with an API client, who changes the link's password, and the clock. Two failures are
  the limit, time 0 to 2 with lifetimes and window of 1, so that sessions,
  cookies and failures end within a behaviour. Two logins under way and a limit
  of two is the least where the limit is overrun. `access_old_token` has two
  saves with an API client and a visitor, without faults.
* Share: two paths in one directory, two contents of equal size and two times
  (so a file can come back with an old stat), two changes of the tree at any
  steps, one request that downloads under three configurations and one that
  lists. Two changes are the least for a file that changes after its stat and is
  scanned again as another; two paths for a conflict. `share_dead_link` needs
  one change.
* Deadlock is checked in every run.

### Fairness

`LinkStore!Fairness`: a request that has started goes on (weak fairness: the
goroutine is runnable), and one that wants the mutex gets it in the end (strong
fairness: Go's mutex hands itself to a waiter that starves). No request, fault or
tick is promised. `Reconciler!FairSpec`: the loop polls and the script's commands
return; nothing is promised of the admin or of faults. `Converges` exempts
behaviours whose very last run had failed provisioning or writes, since the loop
does not retry. `Access!FairSpec`: the container runtime restarts the admin
(`restart: unless-stopped`), whose start-up then ends, and a save that holds the
mutex goes on; nothing is promised of clients, faults, logins or time, so
`WebCatchesUp` rests on the chmod or the restart alone. ShareStore states safety
only.

## Proofs

All for every value of the constants that satisfies the module's
named assumptions, hence any number of users, keys, requests and versions.

**LinkStoreProofs.** `TypeCorrect`. `SerialSavesLoseNothing` and
`SerialSaveTouchesOneLink` assume `Serial`: one process, or operators that never
change links through both at once and no save that stops between rename and
chmod; `links_lost_update` shows the need for it. The
inductive invariant adds to the two properties: who is past `BeginSave` holds its
mutex (`MutexInv`); only one process has changes under way (`OneSide`); the file
is 0600 only while a request stands at `renamed` (`WindowInv`), so a reload
outside that window reads the file; and `Agree`: a process about to save, or in
the midst of it, has a memory that equals the file except for expired links, the
link being changed and those in `unsaved`. `Written` says what is in the file
between rename and chmod, and what a pending promise will become.
`SerialDeletesStay` comes from the same invariant. `OneProcessViewsAreFresh`
assumes one process, whose file is never closed to it: a process that always
reads its own file also keeps every promise in memory, between reloads as well as
after them (`MemFresh`), and inside the critical section the memory holds the
link that was asked for (`MemWritten`); what a page has taken out of it is then
what was promised when its request came, or a promise has been given up since.

**ManifestProofs.** `TypeCorrect`; `DeletionNeedsDisabled` and
`KeylessMeansDisabled` for any interleaving and all faults, both from one lemma
on what any step can do to a user (`SafeChange`). `KeylessNeedsRace` and
`NotesOutliveCleanUps` are for any interleaving and all faults too. Their invariant
`KnowsInv` says what a request's knowledge is worth: the user that an enabling has
checked still has a usable key, or a key of that user is in `missed`; and every key
is on the list that a clean-up has loaded, or in `missed`. `manifest_enable_race` shows that the exception of
the first is real. `KeysServedOnce`: a
generated key pair is with the one request that made it, or up for download, or
served (`OnceInv`). `KeysLeaveByName` needs no
invariant beyond the types: each callback computes its result from the manifest
it has just loaded, and `EditKeys` says what it drops: usable entries of one
fingerprint, the one the request names.
`OneAtATimeNoOrphans` is for one slot: the keys a clean-up has loaded are then
still those of the manifest (`KeepInv`), and `NotesInv` says
for each place in a handler which notes may be without a key. It assumes
that neither the notes file nor the process fails. Without these hypotheses an
orphan note stays until the next clean-up, which the code accepts as best effort;
no run checks it.

**ReconcilerProofs.** `TypeCorrect`, whose invariant says that the index is below
the count wherever an entry is read; and `LoginNeedsHome`, whose invariant says
that a script about to write has provisioned the user whose name it holds.
`UndisturbedRunMatches` and `ExitZeroIsExact` are the correctness of the script,
for manifests of any length in which no name comes twice. Their invariant
`RunInv` is the loop invariant one would write at the `while` of `reconcile.sh`,
for runs during which nothing is published: users with an entry before the index
are done with (`Done`: revoked and off the keep list; refused or not provisioned,
with the old keys and a failure counted; or with the new keys), all others are
untouched (`Untouched`), and what the jqs so far have found out about the current
entry is true of it (`EntryInv`). The clean-up then concerns only users off the
keep list. `RunMatches` also says what a run has done that a failing write cut
short under `set -e`: the users with an entry before the one it stood at have
their result (`DoneMatches`), and nobody after it was touched (`AbortedRun`). TLC checked `RunInv` on the instance of `reconcile` before it was
proved. `NoVersionMissed` is the safety part of `Converges`, for loops whose
manifest never takes an earlier value again (`reconcile_toggle` shows the need):
if the hash the loop has taken is that of the file, nothing was published since
(`HashInv`), so that the run was undisturbed, and such a run is cut short only by
a failing write (`EndInv`).

**SettingsProofs.** The invariant `SettingsInv`: who is between load and chmod
holds the mutex, a loaded base *is* the file (nobody else can write it), its form
has no errors, and nothing is replaced before there is a file. From it
`ReplacedStaysReplaced` (a save keeps only values that are in the file now, and
those are not retired) and `SettingsRefine`, step by step against
`AtomicSettings`: the rename applies the pending form to the abstract
configuration because base and file agree. `WebStaysInStep`, the safety part of
`WebCatchesUp`, needs that under a running admin the file is closed only by a save
that has renamed and still holds the mutex (`ChmodPending`), or by a failed chmod.

**AccessProofs.** `AccessImplementsSettings`: every step of the composition is a
settings step or leaves the settings alone, so both theorems carry over.
`ReplacedSecretsRefused` then needs only that a login under way means a running
admin, hence a file, and `NoResurrection` of it; `CookiesEnd` that a cookie's end
is its issue plus the lifetime. `AccessTypes` is the type invariant of the whole.
`LoginLimitHolds` counts: a login is let in below the limit and into a free slot,
a failure that is recorded leaves the slots as it enters the window, and time, a
success and a restart only make both sets smaller. Of the constants it needs that
the slots are finitely many.

**ShareStoreProofs.** Three layers. `TypeInv`: types, and what a request may rely
on at each place (the lock and the configuration are its own while it scans; its
stat is one the path has had). `CacheInv`: every cached stat is one in `seen`, so
a new file has a stat that is not cached or is `blurred`; and what is stored under
a stat that still holds is the hash of what is there. `ScanInv`: what is found so
far is hashed under the request's own configuration, algorithm and target
(`HashedUnder`), is right and complete for unchanged paths before the position, and what
resolution chose is the only unchanged file named. `CacheIsFresh`,
`ScansDoNotMix`, `ListingsAreRight` and `DownloadsAreRight` follow, for trees of
any size and any number of requests.

**Only model-checked:** liveness (`EveryRequestAnswered`, `Converges`,
`WebCatchesUp`), which is out of the prover's reach; of the last two the safety
parts `CaughtUp` and `WebInStep` are proved. Every invariant and every action
property that a passing run checks is stated by a theorem. Some theorems have
hypotheses, and violated runs show what happens without them: `Serial`
(`links_lost_update`), no version twice (`reconcile_toggle`),
and an undisturbed run, which is a hypothesis of `RunMatches` itself
(`reconcile_torn`). `OneProcess` of the views and the one slot of
`OneAtATimeNoOrphans` are needed for the reasons given above.

## Abstractions

* Environment values are valid and the same in both containers; file owners and
  groups are set up as the images do, so 0640 is readable to the web container.
* One protected link stands for all; session ids, form tokens and cookies cannot
  be guessed or forged. Comparing a login and reading the password it is compared
  with are one step.
* Hashes do not collide, and a digest tells its algorithm by its length; a URL's two digests are of one algorithm. Only
  the settings that change hashes are in ShareStore's configurations; a change of
  another clears the cache too, which is the same as a cache that is still empty.
* Directories stay readable and in place, and a symbolic link leads outside all
  namespaces. Eligible namespaces do not change, as they depend on start-up
  values only.

## Not modelled

HTML templates (`ui.go`); parsing of environment variables (`config.go`) and the
text of keys (`validate.go`, whose results are modelled); the sftp container's
start-up checks, which run before anything else; the health check and
`filterByScope`, a pure filter on the listing; `install.sh` and `upgrade.sh`,
which wrap Docker Compose.

## Plan

1. **Composition**: an abstract specification of authorisation (who may log in
   with which key) that Manifest with the reconciler implements between
   publications.
2. **Scopes**: `filterByScope` on ShareStore's listings, with the scope of
   LinkStore's links.
