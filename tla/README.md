# Formal models of Exe Image Forge

TLA+ models of the parts of Exe Image Forge that keep state, the TLC runs that
check them on small instances, and theorems about them whose proofs the
TLAPS proof system checks. Line numbers refer to this repository.

Exe Image Forge is an appliance: a Go service (`vend/`) that hands out pull
credentials for container images, a shell command (`exe-image-forge`) that
builds, bakes and collects them, a Docker registry behind both, and the systemd
units, timers and scripts that start it all. It is a small program with few
locks of its own; what can go wrong happens between its parts: two requests, a
request and a timer, a script and a signal, a write and a power failure.

## 1. Inventory

| Component | State it keeps | Operations | Modules |
|---|---|---|---|
| Pull grants (`vend/main.go`) | `byToken`, the state file, tags and labels in the registry, `registry.lock` | issue, serve, sweep, ticker, delete a tag, reconcile orphans, restart | `Grants`, `GrantLedger`, `RegistryLock` |
| Registry garbage collection (`exe-image-forge gc`) | the registry container, `registry.lock`, the script's flags and traps | lock, prune, stop, collect, restart, signals | `RegistryGC`, `RegistryLock` |
| Sign-in limiter (`vend/main.go`) | table of clients, hash slots | begin, finish, abort, evict | `AuthLimiter`, `SignInGate` |
| Passkeys (`vend/webauthn.go`, `admin.go`) | store and its file, one slot per ceremony | begin and finish of login and registration, remove, load | `Passkeys` |
| Passkey ceremonies in the browser (`vend/passkey.js`, called by `admin.html` and `index.html`) | where each page is, its session cookie, the passkeys on the authenticators | click, begin, dialog, finish, show the answer, load the list; delete | `PasskeyPages`, `Base64url` |
| Gemini login in an image (`image/files/gemini-export-creds.js`, `cmd_bake`) | the CLI's encrypted store, `oauth_creds.json`, the staged copies, the dev image | decrypt, pick a token, export; copy, bake, check | `Credentials` |
| Appliance state (`appliance/initialize.sh`, `first-login.sh`, password and token commands) | `config.json`, `forge.env`, `initial-password`, the marker, ownership | first boot, later boots, commands | `Appliance` |
| Admin console (`vend/admin.go`) | sessions, terminal slot, bake slot and log | sign in and out, terminal, bake | `AdminConsole` |
| Image jobs (`build`, `bake`, `refresh`, `bootstrap.sh`) | base and dev images, `:latest`, the bootstrap marker | build, tag, pack credentials, bake | `ImageBuilds` |
| Credential inspection (`vend/creds.go`) | three caches | classify, summarize | not modelled, section 7 |
| Variant naming (`variantFor`, `variant_args`) | none | tag of a feature set and back | not modelled, section 7 |
| Installer (`install.sh`), updater (`update-ai-clis`) | files on a host, tools in a machine | install, update | not modelled, section 7 |
| Rest of the web pages, demo mode, image contents, tests | none that the above do not hold | | not modelled, section 7 |

How they meet:

* `vend` and `gc` write the same registry under one file lock. `vend` polls it
  until its request ends; `gc` waits five minutes. The lock does not cover what
  `vend` does with the grant afterwards, and reads take no lock at all.
* The grants, the limiter, the passkeys and the sessions live in one process
  behind separate mutexes; none is held across a network call, a hash, a push
  or a child process, so every handler reads, works unlocked, and writes.
* A ceremony is a chain of three awaits in a page: begin (the service fills its
  slot), the authenticator's dialog (which the service knows nothing of), finish
  (the service empties the slot). Values cross between the page and the service
  as base64url in JSON, between the page and the authenticator as bytes.
* A bake runs the converter in a container on the same directory that the login
  programs write, then copies the files one by one.
* The console starts `exe-image-forge bake` as a child; the weekly timer and a
  shell start the same jobs without knowing of each other.
* `password` and `token` rewrite `config.json`, which `vend` reads only when it
  starts; they restart it afterwards. `initialize.sh` reads the same file at
  every boot to decide whether to initialise.
* A reboot or a crash may come between any two steps. Only the state file, the
  passkey file, the configuration, the images and the registry survive it.

What is hard, and where each model looks at it:

| Behaviour | Where |
|---|---|
| state read and used later | grants' orphan snapshot, limiter entries, passkey ceremonies, a page's exclusion list, session check |
| one step of several failing | push without save, save failing, `docker stop` failing, a bake stopped between variants, a conversion or its check failing, a lost answer |
| crash between two steps | push and save, hash and chown, write and rename, build and tag |
| retry of what was done | delete of a tag by sweep and by reconciliation, reboot of a half-initialised appliance |
| signals and traps | `gc` under `set -e` with `EXIT`, `INT` and `TERM` |
| a bound reached | table of clients, hash slots, one slot per ceremony, terminal and bake slots |
| something that must happen in the end | a dead tag leaves the registry, a waiter is answered, a slot comes back |

The full list, line by line with the properties that cover each, is `hazards` in
`PROJECT.json`; those no property covers yet say why.

### What makes each component correct

* **Grants**: an image that was granted stays pullable until it expires,
  whatever runs meanwhile; a grant survives a crash; an error answer leaves no
  usable grant; nothing the service did not make is deleted; an expired grant
  does not come back; everything dead is reclaimed.
* **Garbage collection**: the collector never runs beside a write or against a
  running registry, and the registry comes back afterwards.
* **Limiter**: one check per client, no forgotten failure, no check before the
  lock is over, bounded table and slots, and no lock-out longer than the maximum.
* **Passkeys**: a challenge is good once, a removed passkey stays out, a
  registered one stays.
* **Ceremonies in the browser**: a page says what the service did; only a cause
  refuses a ceremony the user approved, never a conversion; no registration
  replaces a stored passkey on its authenticator.
* **Gemini login**: the image carries a login that was current while it was
  baked, in the place its kind belongs, and the check at the end, if it looks into
  that image, tells the truth.
* **Appliance**: no boot leaves it without a known password or undoes what the
  operator did; a boot makes good what a failure left; the service checks the
  password that is configured.
* **Console**: one login program on the authentication home, one bake, no slot
  lost.
* **Image jobs**: `:latest` is the default variant, complete means complete,
  no dev image goes back to old credentials or older CLIs.

## 2. Modules

`X.tla` is a component, `MCX.tla` its instances for TLC with one `.cfg` per run,
`XProofs.tla` its theorems (`GrantsProofs` holds those of `GrantLedger` too,
`AuthLimiterProofs` those of `SignInGate`, `PasskeyPagesProofs` those of
`Passkeys` and `Base64url`). `GrantLedger`, `RegistryLock` and `SignInGate` are
abstract: they say what a component promises, and a detailed one implements
each. A component keeps its state as variables, one action per step that the
code can be interrupted at, and its properties at the end. Definitions whose
comment begins with "Mutant" are not part of the model: each is a plausible
mistake in the code, and `PROJECT.json` pairs it with the property that must
then fail.

Where the code keeps a promise only as long as something does not happen, a
history variable records whether it did, and the property is claimed for the
behaviours without it: `signals` and `failing` in `RegistryGC`, `file` in
`Passkeys`, `accepted`, `overlap` and `reverted` in `PasskeyPages`, `disturbed`
and `missed` in `Appliance`, `failed`, `torn`, `overlapped`, `mixed` and `early` in
`ImageBuilds`, `beside` in `Credentials`. Each condition is needed (section 3). The disturbance itself is
always possible in the run, so the properties that do not depend on it are
checked in its presence.

### GrantLedger and Grants

`GrantLedger` is what a client is promised: a request is refused or granted, a
granted token is accepted from the answer to the instant it expires except while
the process is down, and its image may be withdrawn only afterwards.

`Grants` is `handleGrant` in four steps (sweep and checks; wait for the lock;
push; enter and save), `gcLocked` in every place that calls it, the
one-minute ticker, one `deleteTag` goroutine per swept or failed grant, and
`reconcileOrphans` in six (snapshot, clock, list, look at one tag, lock,
delete). `Crash` loses memory, goroutines and lock; a push in flight may land or
not. `Restart` is `loadState`. Token and tag are random and never reused, so a
request, its token and its tag are one element of `Tags`. `Named` and
`Unlabelled` are the foreign tags: those whose name is no grant tag, and those
that look like one but carry no matching label.

`Grants` implements `GrantLedger` under the mapping at its end: `open` are the
unexpired grants in memory, `images` the tags of answered grants in the
registry.

Left out: the counter of uses (displayed only), local Docker copies, more than
one repository (tags of two repositories share nothing but the lock), and the
disk check, which is a free choice to refuse.

### RegistryGC

`cmd_gc` command by command, with `set -euo pipefail`, the `EXIT` and `INT TERM`
traps, `flock -w 300` and the local variables the traps read, beside `vend`'s
writes under the same lock. `failing` is the set of Docker commands that may
fail in a behaviour, chosen at its start; `MaxSignals` bounds the TERM signals,
which the shell handles between two commands. SIGKILL, and Docker's own
`--restart always` after a host reboot, are left out.

### RegistryLock

What `registry.lock` promises both sides, in four steps: ask, enter, leave,
withdraw. `free` is the lock, `inside` who believes to have it, and `OneInside`
says that they agree. Two modules implement it, each under a mapping at its end:

* in `RegistryGC` the users are the collections and the service's writers;
  inside are the commands from `prune` to the restart and the writes, and the
  lock is free when no descriptor holds it;
* in `Grants` a user is an operation with its tag (a push, a delete goroutine, a
  delete of the reconciliation pass). Several ask in one step, as one sweep
  starts a goroutine per dropped grant, and `Crash` withdraws all of them.

### SignInGate and AuthLimiter

`SignInGate` is the limiter without its table: clients are remembered, checked
one at a time, wait after a failure, and are forgotten only with a success or
when the table is full. It says what the limiter is for (`GuessesTakeTime`): the
failures remembered of a client took at least the sum of the waits they earned.

`begin`, `finish` and `abort` of the limiter with both stages of the eviction,
`checkPassword`'s wait for a hash slot, and the passkey login, which uses the
same table without a slot. `streak` and `lastFail` are history: what the table
ought to remember. Times are minutes; the failure that reaches the threshold
locks for one minute, each further one for a minute more, up to the maximum.

### Passkeys

The store with its file, `load` at start, the two ceremonies with their slots,
finish requests that take the slot, verify without a lock and then write, and
removal. `owner` is the account handle a passkey was made for and `device` the
counter in the authenticator. `SavesFail` and `ReadsFail` switch on failing
writes and an unreadable file; `file` says whether the last save worked. A start
after one that did not, or with a lost file, goes back to older passkeys:
`Forgive` strikes out the answers this contradicts, and only those, so what is
promised afterwards is checked again. One domain is modelled; a finish on another is
refused like one with another challenge.

### Base64url

The two conversions of `passkey.js`, with `btoa`, `atob` and Go's
`RawURLEncoding` spelled out on sequences of bytes and digits. `atob` throws on
the digits of base64url, and on a text whose length leaves one digit over.

### PasskeyPages

`pkRegisterCeremony` and `pkLoginCeremony` between their awaits, with `pkPost`,
`pkError` and the `finally` of their callers, composed with the actions of
`Passkeys`. A page is idle, in the dialog (`prompt`), holds the authenticator's
answer (`signed`) or waits for the service (`waiting`); `shows` is what it tells
its user. After a success the caller goes on in the same `try` (`loading`): the
administration page shows the registration and loads the list of passkeys, whose
refusal overwrites what it showed (admin.html:466-470), and a login is shown
once the session is known (`Loads`). `accepted` remembers that the ceremony was
answered with success. Challenges and passkeys are byte strings, and what a page
sends is what `Base64url` makes of them. An answer may be lost after the service
acted; the page may be closed in every step, and what it sent goes on. An
authenticator keeps one passkey of the account and replaces it unless it is
excluded (`authenticatorMakeCredential` with a resident key), so a passkey that
is registered again makes the old one useless.

`overlap` remembers the registrations that ran beside one another: the exclusion
list of the second cannot have the passkey of the first. `reverted` remembers
that a start read an outdated file. `disturbed` is set where a page gets a cause
to be refused: another one begins or finishes a ceremony of its kind, the service
restarts, its passkey is not stored, is removed, or is used by another login.

A registration and the passkey it makes share one byte string, both being random.
Left out: labels, `pkSupported`, and the relying party (one domain).

### Credentials

The Gemini CLI keeps its logins in a file encrypted with a key made from the
hostname, of no use in an image; `gemini-export-creds.js` turns it into
`oauth_creds.json` or prints an API key. `enc` is the encrypted file with the
host it was written on and its entries, `oauth` and `torn` the exported one, a
token or part of one. A bake (`pc`) converts if the encrypted file is there,
copies the two files one after the other, builds the image and runs the check in
it. Logins, an older CLI that writes `oauth_creds.json` itself, and a change of
the hostname may come between any two steps; `DockerFails` switches on converters
that fail before or in the middle of their write, checks whose container does
not run, and bakes that are cut off anywhere. The variant looked at includes the
CLI; a bake of it alone is checked in its image (`Check`), a bake of all variants
in `min`, which does not include it (`CheckElsewhere`). Two bakes may run at once, and then
their exports may leave a broken file.

`seen` collects the logins that were current while the bake read the home,
`image` is the dev image with what the bake said of it. Left out: signing out of
the CLI; the fields of a token beside its type; a converter container that
outlives a killed bake, which counts as a bake still running; the other tools'
files, which need no conversion.

### Appliance

Every file `initialize.sh` touches, in its order; `password` and `token` with the
read, the write and the restart apart; `vend`'s start. Power may fail between any
two steps of a boot or a command. Files that are moved into place appear at once;
those that are written in place may be left empty when `TornWrites`. Commands
start only once the boot is done. A command may also end by itself at any step
(`CommandCut`): `set -e` ends it at a failing `chown`, `rm` or restart, and a closed
terminal anywhere, while the service goes on with what it read. `fmt.Scanln`
(main.go:1095) stores the first word of a password that was typed with a blank in
it (`PasswordWriteWord`). `disturbed` collects what happened: a torn write, two
commands at once, a blank, a boot or a command cut off. `missed` says that a command
wrote and ended without its restart, and nothing has restarted the service since.

### AdminConsole

Sessions (unused, live, expired, gone), the terminal from the session check to
the release of the slot, with its program in both modes, the bake with its log,
and a restart of the service. `Container` tells the modes apart: a login program
in auth-host mode dies with the service, a container does not and is then one
of the `orphans`.

### ImageBuilds

`build`, `bake`, `refresh` and the bootstrap as jobs over the variants in their
order. A base image is the number of its build and the age of its CLIs, a dev image
the base image and the credentials it was made of. The CLIs come with one layer that all
variants share (image/Dockerfile:111-125): a job with `--fresh`, and every refresh, has a
`CLI_REFRESH` of its own and makes that layer once; the plain builds and the
bootstrap have `CLI_REFRESH=0` and find the one a plain build made (`cached`), or
make another when Docker has dropped it or the Ubuntu below is newer. A variant is built in
two steps, `BuildVariant` takes the layer and `BuildName` names the image, and is baked
in two, because the base image is read when its bake begins.

`AutoBuild` is the appliance's first boot. The bootstrap waits for the network and the
registry, so with `Early` the operator may start jobs before it. `Failures` switches on
failing Docker commands and reboots. `failed` remembers that a job did not reach its
end, `torn` whose `:latest` such a job did not come to set, `overlapped` that two jobs
baked at once, `mixed` that a variant was built upon a layer older than it had, or by
two jobs at once, `early` that somebody built before the boot's bootstrap had started.

## 3. Runs

All bounds are constants of the modules and stand in the `.cfg`. Symmetry is
used only where the permuted values are interchangeable and no liveness
property is checked. Deadlock checking is off where jobs, commands or requests
are bounded and the system may therefore come to rest.

| Run | Instance | Shows |
|---|---|---|
| `grants` | 2 requests, 1 foreign tag of each sort, lifetimes 1 and 3, grace 2, publish 1, clock to 4, 1 crash | the safety properties; `Grants` implements `GrantLedger` and `RegistryLock` |
| `grants_live` | 2 requests, lifetime 1, clock to 3, 1 crash | dead tags are reclaimed, waiters answered |
| `registry_gc` | 2 jobs, 2 writers, any commands failing, 1 signal | stop-the-world, the registry is brought back, nobody waits for ever; `RegistryGC` implements `RegistryLock` |
| `auth_limiter` | 3 clients, 3 handlers, table of 2, 2 slots, threshold 2, clock to 5 | table and slots within their bounds, guesses take the time of their locks; `AuthLimiter` implements `SignInGate` |
| `passkeys` | 3 ceremonies, 1 old passkey, 2 finish requests, 2 restarts, failing files | single use, removal, durability, stored keys usable |
| `passkey_pages` | 2 pages, 2 authenticators, 2 ceremonies, 1 old passkey, 2 finish requests, 1 restart, failing files | pages tell the truth, refuse for cause, keep stored passkeys usable |
| `credentials` | 2 bakes, 2 logins, 2 hostnames, everything may fail | the image carries a current login of the right kind, the check is right |
| `appliance` | 2 operators, 3 boots, 3 commands, torn writes, commands that end early | passwords and operator changes survive, boots repair, the service comes up and checks the configured password |
| `admin_console` | 2 sessions, 3 requests, 2 bakes, 2 restarts, container mode | one terminal, one bake, right log, slots accounted for, terminals close |
| `image_builds` | 2 variants, 2 jobs at once, 3 in all, 1 login, early jobs, failures and reboots | `:latest` follows, an undisturbed bootstrap is complete, no dev image goes back |

Why these bounds are enough to meet the interesting cases:

* *grants*: two requests give one that is live while the other is refused, swept
  or waiting. Grace 2, lifetimes 1 and 3 and a clock to 4 let a grant die
  young, outlive a reconciliation pass begun before it, and be old enough to be
  taken for an orphan; one crash may fall at every step.
* *registry_gc*: two jobs and two writers are the timer, an operator and two
  requests; a third of either only waits. One signal may fall at every step of
  either job.
* *auth_limiter*: three clients on a table of two force the eviction, three
  handlers on two slots force the wait, threshold 2 with a longest lock of 2
  reaches an ordinary and a capped lock; with the clock to 5 the capped lock is
  served and the failure after it counted, so that the cap enters the sum of
  `GuessesAreSlow`.
* *passkeys*: two finish requests are the least that can race, three ceremonies
  let a login, a second login and a registration overlap; two restarts let a
  failed save be made up for, or not, between them.
* *passkey_pages*: two ceremonies on two pages are the least that can take each
  other's slot, overlap, or log in with a passkey while it is removed; with two
  authenticators a passkey can be on the other one. The byte strings have the
  digits 62 and 63 and every length modulo three.
* *credentials*: two bakes overlap in every step, a second login comes before,
  between and after the steps of a bake and may be of the other kind; a third
  login or bake repeats what a second one does.
* *appliance*: three boots, so that a failure can strike the recovery from a
  failure; two operators and three commands, so that two commands overlap and a
  third follows.
* *admin_console*: three requests contend for the slot, one of them from an
  earlier session; the second restart finds what the first left behind.
* *image_builds*: the default variant and one after it, so that a job can end
  before, at and after the default; a variant before it, as in the script, is in the
  run that ends in a violation. Three jobs are a build and two bakes that overlap, or a plain
  build, a refresh and a plain build again; with a fourth TLC finds the older CLIs of the
  conditions below. One login between them makes the older
  credentials tell.

### Runs that end in a violation

Each states what a comment or a document of the repository says and shows a
behaviour of the code that does not fit. `findings` in `PROJECT.json` quotes the
lines.

| Run | Property | What happens |
|---|---|---|
| `registry_gc_signal_lost` | `RegistryBack` | TERM between the flag and `docker stop`: the trap clears the flag and nothing starts the registry again |
| `image_builds_bootstrap` | `BootstrapComplete` | a bootstrap stopped after `min` counts as complete at the next boot |

### Conditions that are needed

Without its condition each of these properties is violated, too, and TLC finds
the behaviour when the condition is taken out. The lines quoted say it without
the condition.

| Property | Condition | What happens without it |
|---|---|---|
| `StopTheWorld` (docs/operations.md:262) | `docker inspect` does not fail | the one that asks whether the registry runs stands in a test, where `set -e` does not look (exe-image-forge:585): the script takes the registry for stopped and collects against it |
| `StopTheWorld` | no signal | the TERM trap (exe-image-forge:583) restarts the registry and does not exit; the script goes on to collect against it |
| `RegistryBackUndisturbed` (docs/operations.md:264) | `docker stop` does not fail | it fails at :592, the `EXIT` trap reads a local variable that is gone (:578), aborts, and the registry stays down |
| `RegisteredKept` (docs/api.md:346) | no start after a failed save | saveLocked only logs the error (webauthn.go:62); the registration was answered "ok" |
| `OperatorKept` (initialize.sh:31) | no torn write | a password change leaves `config.json` empty (main.go:1106); the next boot writes over the operator's environment file |
| `OperatorKept` (docs/appliance.md:65) | no overlapping commands | a token command writes back the password it read before a password change (exe-image-forge:435) |
| `OperatorKept`, `PasswordKnown` | a password of one word | `fmt.Scanln` (main.go:1095) reads up to a blank: the word that is stored is not what the operator typed |
| `BootRepairs` | no torn write together with a boot cut off | a command leaves `config.json` empty, the boot that makes a new one is cut off before its hash, and the boot after that takes it for initialised: marker and file are there (initialize.sh:33) |
| `ServesConfigured` (exe-image-forge:466) | no command ended between its write and its restart | `set -e` at a failing chown or rm, or a closed terminal (exe-image-forge:462-465): the new password is stored, the running service checks the old one until it starts again |
| `MarkerMeansPassword` (initialize.sh:31) | no torn write | the old marker vouches for the configuration without a password that the next boot puts in place |
| `ComesUp` (docs/appliance.md:138) | no boot cut off | power fails between the hash and the chown (initialize.sh:139); no later boot hands the files to the service's user |
| `StoredIsHeld` | no overlapping registrations | the second's exclusion list (passkey.js:45) was read before the first was stored; the authenticator replaces the first passkey, which stays listed |
| `StoredIsHeld` | no start with an outdated file | a passkey that was removed and replaced on its authenticator is stored again |
| `ShownIsTrue` (passkey.js:34) | the list of passkeys is not refused | the session ends after the registration was accepted: the page's list is refused, and that overwrites "registered" with an error (admin.html:467) |
| `RefusedHasCause` (admin.go:37) | no cause | another page's begin or finish takes the one slot per kind (webauthn.go:290) |
| `BakedIsCurrent` (exe-image-forge:276) | the bake told of no failure | a failed conversion leaves an older `oauth_creds.json`, or part of one, which is copied |
| `BakedIsCurrent` | no overlapping bakes | the converter truncates the file the other bake copies |
| `CheckIsRight` (docs/operations.md:165) | the check was made in the image | a bake without an argument bakes every variant and checks `min` alone (exe-image-forge:320), which does not include the Gemini CLI: it ends with "verified" although no login was carried |
| `CheckIsRight` (exe-image-forge:318) | the check's container ran | its output is empty, every tool counts as not included (:345), the image is called verified |
| `CheckIsRight` | the conversion worked | the encrypted file alone counts as a login (:337), on a host that cannot decrypt it |
| `OneTerminal` (admin.go:355) | auth-host mode | a login container outlives the service and a second one starts beside it |
| `BootstrapCompleteUndisturbed` | no failed job | the run `image_builds_bootstrap`: a bootstrap stopped after `min` leaves the default's image, which is all the next boot looks for |
| `BootstrapCompleteUndisturbed` (bootstrap.sh:2) | nobody built before the bootstrap | nothing fails; the operator builds `min` while the bootstrap waits for the registry, and the bootstrap takes it for all variants (bootstrap.sh:18) |
| `LatestIsDefault` (exe-image-forge:150) | the last job to replace images did not fail | a build stopped after `min` leaves `:latest` behind, until another build reaches its end |
| `DevNeverBack` (exe-image-forge:488) | no overlapping bakes | of two, the one that packed its credentials first finishes last |
| `DevNeverBack` (exe-image-forge:488) | no build upon older CLIs than the variant had | after a refresh a plain build finds the layer of an earlier plain build (exe-image-forge:128), and the next bake puts its older CLIs into the dev image |

Four more things the models say of the code and no property states: a terminal
goes on after its session has ended, since the session is looked at once
(admin.go:105; docs/operations.md:252 says "require an active session"); and the
finish of any login, of any visitor, empties the one slot of the login begun last
(webauthn.go:290; admin.go:37 says that "one slot each is enough"); of two
logins with one passkey that verify side by side the older sign count may be
stored last (webauthn.go:117; its comment wants the count "so clone detection
keeps working"); and an image with an API key may carry an `oauth_creds.json` of
an earlier login beside it, since only an OAuth login writes that file
(gemini-export-creds.js:45).

## 4. Fairness

Safety properties need none. The liveness properties assume:

* **Grants.** Goroutines and handlers that can take a step take one (the Go
  scheduler), the unit is restarted (`Restart=always`), the ticker and the
  reconciliation loop run (both are loops without an exit): weak fairness. Time
  goes on, a tag is looked at in some pass, a listing and a delete succeed
  now and then: strong fairness, since each is enabled again and again and not
  continuously. The last two are about the registry, not the code: against
  a registry that never deletes anything nothing can be reclaimed.
* **RegistryGC.** A script runs on to its next command, a request that waits
  takes a free lock or gives up. `flock -w 300` and the request's context give up
  by themselves; that a waiter meets a free lock is not assumed.
* **Appliance.** A script, a command and a start that can go on do (`systemd`
  tries the service again every two seconds).
* **AdminConsole.** The goroutines of a terminal are scheduled. Nothing is
  assumed of the browser, which may never close its connection, nor of the
  login program, which may never exit.

## 5. Theorems

TLC finds out on small instances; the theorems hold for every value of the
constants that satisfies the modules' assumptions.

**Grants** (`GrantsProofs`). `TypeCorrect`,
`ImageServedUntilExpiry`, `GrantKeptUntilExpiry`, `RefusedStoredNowhere`,
`ForeignNeverDeleted`, `NoResurrection`, `GrantsImplementLedger`, and
`GrantsAcceptCurrent`: while the service is up it accepts exactly the unexpired
granted tokens, and their images can be pulled. The last is proved of the ledger
(`LedgerAccepts`) and carried over by the refinement.

The properties are not inductive. That a live image is in the registry depends
on what the reconciliation pass will do next, and the pass works from a snapshot
of `byToken` that may be older than the grant. The inductive invariant `IInv`
calls a tag unsettled while its request is in `handleGrant` or its grant is
live, and adds:

* `StoredIssued`, `LiveGrantKept`: memory and file hold issued grants only, and
  all that are live;
* `PushedInReg`: an image pushed and not yet settled is in the registry;
* `DeletersHoldDead`: a delete goroutine has a dead tag;
* `PublishIsYoung`: a request between push and save has an image created at most
  `MaxPublish` ago;
* `MissedIsProtected`: whatever the pass did not see as active and is unsettled
  was created so late that the grace period protects it;
* `TargetSettled`: the tag the pass is about to delete is settled.

The argument rests on `GraceCoversPublish == MaxPublish < Grace`. `main` refuses
a grace below one hour, and a push of one metadata layer and the write of one
small file take seconds, but no timer in the code enforces it: a publish that
stalled for longer than the grace could lose its image. It also rests on the
order of `reconcileOrphans`: snapshot first, then clock, then list. The
refinement takes `IInv`, maps each action to the ledger step or the stutter it
is, and concludes. `GrantsImplementLock` does the same for `RegistryLock`. Its
invariant `LockMatches` says that the lock is taken exactly while one operation is
in its critical section; that a tag just swept is not already being deleted
(`SweptIsOut`) makes the step that starts the goroutines an `Ask`.
`GrantsLockNotOrphaned` follows: no failure, cancellation or crash leaves the lock
taken without a holder. With the fairness of section 4 that is what
`WaiterAnswered` rests on.

**RegistryGC** (`RegistryGCProofs`). `CollectionTypeCorrect`, `CollectionIsAlone`
(whatever fails and is signalled), `CollectionStopsTheWorld`,
`CollectionRestoresRegistry`. The invariant says who works under the lock and is
therefore its holder (`LockExcludes`, lemma `OthersAreOut`), that `was_running`
and the flag still agree with the container when the script acts on them
(`ReadIsCurrent`), and that only a real collection of a running registry asks for a
restart (`NeedsMeansRan`). The signals break `ReadIsCurrent`, which is why the
theorems about the registry exclude them and the others do not.
`CollectionImplementsLock` and `CollectionLockNotOrphaned` are the script's side of
`RegistryLock`: whatever fails and is signalled, who holds the descriptor is a job
or a writer at work (`HolderWorks`), which is the safety half of
`NobodyWaitsForever`.

**SignInGate and AuthLimiter** (`AuthLimiterProofs`). One theorem per property of the
`auth_limiter` run; of the table itself, `OneCheckPerClient`, `NoFailureForgotten`
and `LockIsServed`; and `LocksAreShort`: no lock reaches further than the maximum
into the future. The invariant relates each busy handler to the entry of its
client: `inFlight` is set exactly by one handler, an entry in flight is never
evicted, and a slot is held exactly by the handlers that hash; the bound on the
table needs the cardinality lemmas for its finite subsets.
`LimiterImplementsGate` maps `begin` to an admission or to a visit turned away,
abort and finish to the end of a check, and the wait for a slot to a stutter: from
the invariant, whoever is evicted was not being checked (`PushedOut`), and whoever
is turned away has an entry. That guesses are slow is proved of the gate alone
(`GateIsSlow`): a check under way began after the wait its client owed
(`CheckedHasWaited`), which is inductive because a client being checked is neither
forgotten nor checked twice, and each failure adds one wait to the sum
(`WaitsAddUp`). `GuessingIsSlow` carries it over by the refinement.

**Appliance** (`ApplianceProofs`). `ApplianceTypeCorrect` and one theorem per
invariant of the `appliance` run. The invariant follows the password: without a
marker no operator has set anything and a marker stands for a usable configuration
(`BootReached`); until an operator chooses a password, the file, the configuration
and every command that will write it back have the initial one (`InitialKept`);
the initial one outlives a chosen one only while the command that chose it runs
(`InitialForgotten`). `OneCommand` says that without overlap what a command has read
is still the configuration, `OldServiceRestarts` that a service with an older
password meets a command that restarts it, or one ended before it did (`missed`).
`ApplianceBootRepairs` proves an action property: with torn writes but no boot cut off a
configuration has a password wherever none is being made (`UncutRepairs`), and somebody
knows it (`UncutKnown`); with boots cut off but nothing torn, `BootReached` and
`InitialKept` say the same.

**Passkeys** (`PasskeyPagesProofs`). `PasskeysTypeCorrect`, `AcceptedOnce`,
`StoredKeysUsable`, `RemovalFinal`, `RegistrationDurable`, all for any pattern of
failing saves, lost files and restarts. The strengthening `PInv` says that a
challenge is in at most one of slot, handler and history (`OnePlace`) and that
what is stored under a ceremony's name came from that ceremony
(`FromCeremony`); `Agreed` adds that memory and file agree after a save that
worked.

**AdminConsole** (`AdminConsoleProofs`). `ConsoleTypeCorrect`, `SlotNeverLeaks`,
`BakesAreSerial`, `ProgramsAreSerial` in both modes, and `TerminalsAreSerial` in
auth-host mode (in container mode it is false, section 3). The flag and the
request that holds the slot imply each other, and a program belongs to a request
in the slot; that at most one runs needs the cardinality of the set of running
programs.

**ImageBuilds** (`ImageBuildsProofs`). `BuildsTypeCorrect`,
`BuildsLatestIsDefault`, `BuildsBootstrapComplete`, and `BuildsNeverGoBack` for the action property
`DevNeverBack`. No credentials are newer than the home's
(`NothingFromTheFuture`); as long as nothing is `mixed` no dev image has newer CLIs than
its base image, and who builds a variant is alone and not behind it (`AgesAgree`); the
one job that bakes holds a base image and credentials at least as new as the dev images
(`BakerIsAhead`, which needs that no other job bakes); and while `:latest` is behind, a
job is under way that sets it or one that failed would have (`LatestIsDue`). For the
bootstrap, as long as nothing failed and nobody was early (`BootstrapDue`): before it has
started there is no image and nobody builds, with the marker there are all base images,
and in between a bootstrap is under way that has yet to build every variant that is
missing.

**Base64url** (`PasskeyPagesProofs`). `PageReadsServer`: `pkB64uToBuf` gives back
every byte string from what `RawURLEncoding` writes. `PageWritesServer`:
`pkBufToB64u` writes what `RawURLEncoding` writes. Neither needs induction: each
digit and each byte depends on one group of three bytes, so the argument is
arithmetic on one group and a count of the digits left over in the last.

**PasskeyPages** (`PasskeyPagesProofs`). One theorem per property of the
`passkey_pages` run. The invariant ties three views of one ceremony together:
what its page shows and waits for, which slot or request holds its challenge, and
whether it was accepted. A page in the dialog or with an answer has an unused
challenge, one that loads what has changed has an accepted one (`Told`); the former is in
its slot unless the page is disturbed (`InSlot`); the answer of an undisturbed login
counts higher than the store (`SignedWell`, which rests on `CountsBehind`). `RefusedHasCause`
adds that the conversions leave every challenge and identifier as they were,
which the two theorems about `Base64url` say. `StoredIsHeld` adds that the
exclusion list of an open registration holds every stored passkey outside
`overlap` (`Excluded`) and that a passkey made but not yet stored is on its
authenticator (`MadePresent`). The lemma `PageStep` carries the invariant of `Passkeys`
over to the composition, whose steps are steps of `Passkeys` or leave it alone.

**Credentials** (`CredentialsProofs`). One theorem per property of the
`credentials` run. A bake that runs beside no other carries its evidence along:
while it reads, the current login is in `seen` (`Witnessed`); what it is about to
write is the leading token of the one store there is (`Fresh`, `HomeInv`, lemma
`FirstIsLeading`); what it has staged, or the key it holds, is in `seen` unless it
warned (`MidInv`); and an encrypted file it copied was there together with a login
(`HeldInv`), which is why the check, which only looks for a file that is not
empty, is right about it. That two bakes overlap is known to both
(`ApartInv`); only such a bake may meet a file another one is writing.

**Assumptions of the proofs.** `GraceCoversPublish` in `Grants`; for the others
only that constants are of their kind, that new ceremonies are not old passkeys,
that passkeys are byte strings, that handlers are finitely many, that writes are
not jobs, that the default variant is in the list, and that there is a ceremony and
a hostname.

**Only model-checked.** The liveness properties (`DeadTagReclaimed`,
`WaiterAnswered`, `NobodyWaitsForever`, `ComesUp`, `TerminalCloses`): fairness and
`ENABLED` are beyond the prover. All other properties of passing runs are
theorems. Proved and in no run are the `TypeOK` of every component and
`AuthLimiter`'s `LockIsShort`; further `LiveGrantKept`, `CollectsAlone`,
`SingleFlight`, `FailuresCounted` and `LockedOutWaits`, for which the runs check
what they are parts of: the refinements of `GrantLedger`, `RegistryLock` and
`SignInGate`.

## 6. What is assumed of the outside

Definitions marked external in `PROJECT.json` stand for what is not in this
repository, modelled from how the code uses it: systemd restarts and reboots,
Docker (a push may land although it failed, `docker stop` may stop and still
fail, a container is a child of the daemon), buildx (stamps an image no earlier
than its build began), the shell (a trap runs between two commands), browsers
and authenticators (may repeat an answer, may vanish), and the login programs.

## 7. Not modelled

* **Credential inspection** (`creds.go`): it computes a state from one file's
  fields and asks the command-line tools, whose answers would be invented; its
  caches are filled again whenever a file changed. `Credentials` uses what it says of the
  CLI's old and new files.
* **Variant naming**: two tables of sixteen names in two languages, which a test
  compares name by name; a model would repeat the tables.
* **Installer and updater**: sequential scripts whose steps are calls of apt,
  systemd, docker and npm; what a stop between two steps leaves is theirs to say.
* **The refresh guard** (exe-image-forge:503): `refresh` bakes only if one of five
  files exists, and the encrypted Gemini file is not one of them, so a refresh
  with only that login does not bake. A condition on files, no behaviour.
* **The end of a ceremony** as a liveness property: that a page in a ceremony
  starts over if its user answers the dialog and the service works. The run takes
  too long with the fairness it needs.
* **A container that cannot be removed**: the console ignores a failing
  `docker rm -f` (admin.go:413); Docker is taken to remove what it is told to.
* **Rest of the web pages, demo mode, image contents, text files**: no protocol
  of their own. The pages show what the API answers, and every gate in them is
  enforced again by the server.
* **Tests, workflows and unit files**: declarations. Their ordering is used in
  `Appliance`, `Grants`, `ImageBuilds` and `RegistryGC`.
* **Sizes**: disk space, compression and cache limits, except as a refusal that
  may come at any time.

## 8. State and plan

Written in this order: `GrantLedger`, `Grants`, `RegistryGC`, `AuthLimiter`,
`Passkeys`, `Appliance`, `AdminConsole`, `ImageBuilds`, `Base64url`,
`PasskeyPages`, `Credentials`, each with the proofs of section 5; then
`RegistryLock` under `Grants` and `RegistryGC`, and `SignInGate` under
`AuthLimiter`. Every safety property a passing run checks is a theorem.

What would come next:

1. `Credentials` as the credentials of `ImageBuilds`, which has them as one
   number now.
2. Grants, limiter and sessions composed, for the order of authentication,
   sweep, validation and publish in `handleGrant`.
3. What a remembered client can do in a window of the clock, from
   `GuessingIsSlow`, for a table that is never full.

## 9. Running

    tlc -config MCGrants.cfg MCGrants
    tlapm GrantsProofs.tla

`PROJECT.json` lists the runs with their properties, the mutants, the source
lines of every definition, the findings, the hazards and the theorems.
