# TLA+ specifications of the DataByte IKEv2 gateway

Specifications of the stateful parts of this repository, with TLC instances that
check them and TLAPS proofs about all eight systems. Every definition is translated
from the code; `PROJECT.json` says which lines each one stands for. Paths
below are relative to the repository.

## 1. The system

An IKEv2 VPN gateway sells access to customers. Its parts meet in four shared
places: the MariaDB database `radius`, charon's secrets file `rw-eap.conf`, the
quota monitor's sidecar file, and charon itself.

| Component | State it keeps | Operations | Interacts through |
|---|---|---|---|
| charon (strongSwan, docker) | SAs, in-memory IP pool, loaded secrets | lease a VIP, authenticate over RADIUS, `--load-creds` | pool listing, rw-eap.conf, FreeRADIUS |
| FreeRADIUS | none of its own | accepts what `radcheck` says | `radcheck` |
| nftables | two meters of bytes per VIP | count, lose everything on reload | `nft list meter` |
| Quota monitor (`quota/quota-monitor.py`, root daemon, every 10 s) | sidecar of baselines, counters in `customers` | bill, refresh session tracking, kill expired customers | database, meters, pool, rw-eap.conf, DAE |
| Portal (`host/vpn-portal/app.py`, FastAPI under gunicorn) | none in memory but rate limits | create, update, rotate, archive, unarchive, reset, delete, bulk actions | database, SSH commands, rw-eap.conf |
| Portal authentication (`portal_auth.py`) | `portal_sessions`, operator sessions | login, verify with sliding expiry, revoke, purge | database |
| Installer tokens (`installer_tokens.py`) | `installer_tokens`, bakes | create, consume once, verify a bake | database, rw-eap.conf |
| Atomic writer (`host/safe_write_rw_eap.py`) | rw-eap.conf, temporary files, backups, flock | remote and local write | all of the above |
| Operations scripts (`ops/`, `quota/update_rw_eap_conf.py`) | none | rotate or add a secret | rw-eap.conf, database |
| Bandwidth monitor (`quota/bandwidth-monitor.py`, `bandwidth-monitor-nft.py`, root daemon, every 60 s) | none of its own: nft rules, tc filters and classes | shape the VIPs that have a session, un-shape the others | `swanctl --list-sas`, SQLite file, nft, tc |
| Telegram bot (`host/vpn-portal/bot.py`; a webhook of the portal, or `bot_polling.py`) | wizards in memory, timers of blocks | two wizards, disconnect with a block, delete, clean up, reclaim, renew, enable and disable | portal functions, database, `iptables`, `radclient` |
| Bot persistence (`bot_persistence.py`) | `bot_persistence` | write and load conversations and choices | database |
| Exporters, installer builder, front end, deployment | none that matters | read, format, deploy | - |

What is hard about it: nothing is one process. A portal request is a row of
separately committed statements and SSH commands. The main unit starts four
workers, the drop-in `systemd/vpn-portal.service.d/workers.conf` one of them,
which is replaced after `--max-requests`; either way synchronous handlers run
at the same time in the thread pool, so the modules speak of threads. The
daemon does the same to the same rows in one long transaction with remote
commands inside; the bot takes one update after the other, in a process of its own
or in a worker; charon and the clients go on meanwhile. Files are replaced by
writers of which some take a lock and some do not. Each process can die at any
point, and any remote command can fail. The hazards this leads to are listed
with their lines in `PROJECT.json`.

What makes each component right:

* billing: nobody pays for bytes that others moved, or twice; bytes that are
  due arrive; who is suspended is not charged; the daemon keeps going;
* rw-eap.conf: never half a file, no edit lost, charon has what the file says,
  no writer is stuck;
* lifecycle: who is not an active customer cannot log in, who is has one
  password everywhere, who is gone leaves nothing, who is overdue goes;
* sessions: who is active stays in, who has logged out is out, and nobody is
  in for longer than the window;
* installer links: a customer that may fetch its password gets it, a link is not
  spent on nothing and does not bring the password twice;
* temporary blocks: they hold until they are due and end then;
* wizards: the operator gets what the summary shows;
* shaping: each session has its customer's rates until it ends, then nothing is left.

## 2. Modules

| Module | Stands for |
|---|---|
| `QuotaBilling` | the accounting half of `run_once`, with charon, meters, resets and crashes around it |
| `MeteredLedger` | what the accounting promises: bytes are moved, then counted, at most once |
| `QuotaBillingProofs` | theorems about it, the refinement of `MeteredLedger` among them |
| `RwEapConf` | all writers of rw-eap.conf, at the grain of the single command |
| `RwEapConfProofs` | theorems about it |
| `CustomerLifecycle` | all requests that change a customer, and the kill of expired ones |
| `CustomerLifecycleProofs` | theorems about it |
| `Sessions` | login sessions of customers and operators, and the loop that purges them |
| `SessionsProofs` | theorems about it |
| `InstallerTokens` | one-time links: creating, fetching, the lookup of the password for a baked script |
| `InstallerTokensProofs` | theorems about it |
| `TempBlocks` | the bot's disconnect with a block: radcheck row, iptables rule, timer, startup recovery |
| `TempBlocksProofs` | theorems about it |
| `BotConversations` | the wizards `/create` and `/renew_orphan` and what is kept of them |
| `BotConversationsProofs` | theorems about it |
| `Shaping` | one iteration of the bandwidth monitor over nft and tc |
| `ShapingProofs` | theorems about it |
| `MC*` | instances: model values, symmetry, and for `RwEapConf` which names are prefixes of which |

The modules are not composed. What one needs of another's state is a small
environment in it: `InstallerTokens` has the changes `CustomerLifecycle` makes to
a customer as one action (`Change`), `TempBlocks` the portal's writes of radcheck as
`Rewrite`, `QuotaBilling` the meters and leases.

### QuotaBilling

One iteration is the sequence of `pc`: `idle` (list the leases), `src`, `dst`
(sample one meter each), `load` (the per-lease loop), `update` (the `UPDATE`s,
which lock rows), `commit`, `save` and `write` (the two halves of `write_text`),
`tail`. Everything else may happen between any two of these. `delta`, `fresh`,
`lease` and `seen` are the locals of `run_once`; `EndIteration` drops them, as an
exception caught by `run_daemon` does. `sidecar` keys are one customer per VIP
(a VIP appears once in the lease list), which is the `customer:vip` key of the
code since each iteration writes the file anew. The counter
`data_used_bytes` is split by VIP, so that a property can say whose bytes it
holds. `carried` is a history variable, the bytes that may be in it; `anomaly`
records the three events after which over-billing is known to be possible:

* `half_read`: one meter was read and the other was not (lines 101-140);
* `crash_unsaved`: killed between commit and save (line 692);
* `remap`: a VIP changed hands under a live baseline or while being sampled.

`NoOverBilling` claims that these three are the only ones. The tail (session
tracking, kill) is one step here; the kill is in `CustomerLifecycle`.
Operators never change status (archive and delete refuse them).

### RwEapConf

A document is a function from identities to the state of their block. A writer
is a record: where it is, what it read, what it composed, the second in its
temporary file's name and which file its open descriptor writes to (`out`):
`tee` and `cp` write to the inode they opened, whatever a rename has made of it
(`Redirected`, `Orphaned`), and what is longer than what is written over it keeps its
rest (`Over`). `Portals` are threads, of one worker or of several: a portal write
(`atomic_write_conf_remote`) takes no lock, reads when its request begins, takes the time for
the name of its temporary file later (`Stamp`), and every portal write has the label
`portal`, so two threads of one second have one temporary file. Locals
(`atomic_write_conf_local`) hold the flock from the backup to the verification,
and have read before. Sizes are compared as the number of blocks: secrets are of
one length. Only the backups that `reset_quota` may pick
(`bak-quotamon-*`) are kept, one per label, because only the last in string order
is ever used. A `cp` may break off, and its source may be empty.

`ideal` applies each edit, at the moment of its rename, to an up-to-date document. What the
properties about the file at rest except is recorded where it happens, and no wider:

* `raced`: a rename replaced a document other than the one its writer had read, or a
  restore brought more than the secret it was asked for, or broke off;
* `shared`: a thread opened a temporary file that another had open, checked or about
  to be renamed;
* `torn`: the last write into the live file failed, or had nothing to write, until the next
  replacement;
* `unloaded`: since the last reload a replacement went without the one it needs
  (a command failed after the rename, or a cleanup or rollback, which reload nothing).

A request whose check of the live file's size fails, since another writer has
replaced it, ends without a reload, too; that is no exception, because whoever replaced it
reloads, which is what `LoadedIsLive` claims.

### CustomerLifecycle

`Programs` lists the steps each request takes after its checks; a step is one
committed statement, one transaction or one remote command. Steps that the code
wraps in `try ... log` go on after a failure, the others end the request
(`Failing`); `Killed` ends a worker anywhere. Rows carry the operation that
created them, so a statement by id misses a row that was created anew under the
same name while one by name does not. `kill` is the daemon's transaction: it
works on the snapshot of its first SELECT (REPEATABLE READ), locks what it has
deleted (`Locked`) and commits all at once. Passwords are numbered by the operation
that minted them.

`enabled` is `customers.is_active`, which the kill asks for besides the expiry;
archive and unarchive set it with the status, the bot's `/enable` and
`/disable` alone (`Switch`). The bot's `/deleteuser`, `/cleanup_orphans` and
`/renew_orphan` are programs like the portal's (`DeleteUser`, `CleanupOrphans`,
`RenewOrphan`), of which one runs at a time (`BotFree`): they collect what they
will delete before they delete it, and `/renew_orphan` commits before it writes
the block. `renew_orphan_core` finds names with a dash ambiguous and customers
by their prefix; the model's names do not contain each other.

Six things are known not to be safe, and a customer that has been through
one of them is marked in `taint`. The properties about customers at rest speak
of the others:

* `overlap`: a request that writes a password unconditionally (rotate,
  unarchive, reset, reclaim) ran at the same time as another one or the kill, or
  a name was reused while something was still running for its former customer;
* `failure`: a step failed, or a process was killed;
* `rename`: the device was renamed (see `delete_revokes`);
* `bulk`: a bulk archive or unarchive changed the status alone;
* `reset`: `reset_quota` re-enabled radcheck whatever the status;
* `renewed`: the bot's `/renew` (bot.py:1408-1498) set an archived customer active. It looks
  for the prefix `DISABLED-` in user names, where archiving puts it into the
  password, and leaves `is_active` at 0: the customer is shown active, cannot
  log in and will not expire.

Overlaps of archive, delete, bulk delete, the bot's delete and cleanup, the kill, renewals and
two creations are not excluded: those have to work.

### Sessions

Both tables are one function from ids to rows; ids are random and handed out
once. A request reads the time when it arrives (`now`), waits for its row, and
then updates, reads and commits in one transaction (`Verify`). So requests apply in another order
than they read the time in, and a late one sets the window back. How late is
bounded by `MaxWait`, InnoDB's lock wait timeout. Customers' sessions have an
age cap, operators' a revoked flag; the guard of the UPDATE says which.
`seen` remembers the latest time at which a request was accepted: it is
what the properties measure the row against. A logout of a customer verifies
first, an operator's does not. `events_stream` is a request that is served for as long as the
browser likes.

### InstallerTokens

`proc[t].at` is the statement the request is about to make. A fetch looks the
link up joined with its customer, then the device, the users row, the
block in rw-eap.conf over SSH, and burns the link last; nothing holds these
together, and there is no guard in the burn. `Change` is anything an operator or
the quota monitor does to the customer meanwhile. `held` and `broken` record for
each running request which of its conditions held at some moment of it, or
failed at some moment: a request that overlaps a change may go either way, and the
properties ask for no more than that. `overlapped` are the links of which two fetches were
between lookup and burn at once, which both get the password: `OnceUnlessOverlapped`
says that nothing else brings it twice, neither a lost answer nor a fetch tried again
nor a change to the customer. Which secret the block has is not modelled: what
is read goes out, and an older file that `reset_quota` copies back may well hold a
password that was replaced. Time is in days, since links live for
days and nothing else here is timed.

### TempBlocks

`reject` is the set of users with an `Auth-Type := Reject` row, `rules` counts
the DROP rules of an address, `timers` has the `threading.Timer` of each block
with the process it lives in. Processes build the bot when they start: a worker of the
portal at its startup (app.py:187-198), the polling process on import
(bot_polling.py:20) (`Start`, `Recover`). They may stop at any time; rows and rules stay,
timers do not. `rowLost`, `ruleLost`, `stuck` and `leaked` remember what other
writers, the recovery and failures have taken from a block, and the properties
say exactly how far that excuses it. A block counts until it is due even when its
process has stopped (`Blocked`): another block's timer that deletes the user's row
then has taken it from this one, too. An earlier form of `Blocked` counted
waiting timers alone, and the proof of `BlockHolds` failed at
`RemoveRow`; TLC finds the counterexample with three troubles, one more than any run had. The feature is off by default
(`DISCONNECT_BLOCK_SECONDS` is 0); without it `disconnect_via_coa` ends after
`Disconnect`.

### BotConversations

One chat with one operator. `conv` is the state of each wizard, `data` the
`ct_*` and `ro_*` keys of `user_data`, `cards` the summaries in the chat whose
buttons can still be tapped. A command that the state has no handler for ends
the conversation (`Unmatched`, from `MultiWorkerConversationHandler`). `Flush`
is the library's write of both; `Restart` loads what was written. Times at which it
writes are the library's, so `Flush` may come between any two updates. Edits of a
message that fail are shown where the code's answer depends on them (`CtConfirm`).

### Shaping

A VIP is its last octet, marks and class ids are the numbers the code computes
from it, and `Digits` reads a decimal id as tc does, in hexadecimal. `Apply` is the
loop body for one VIP with every command it issues, of which one may fail;
`Remove` what the code does for a VIP without a session, `Finish` the pass
over rules for public addresses. `good` remembers the VIPs that were shaped
without a failure since anything about them changed. Most numbers of an address are those of
another one: `.o` goes down with the mark with which `.o+128` goes both ways,
and 99 of the upload classes are download classes, too. So `used` remembers which VIPs have been set up and still
have a filter, and `met` those that have met another one of these: when they were
set up, or since by its being set up or removed. `StaysShaped` speaks of the
others. It is conditioned on what was in use, not on what the pool could give: any address may be in `met`
and get out again, with the first pass after the other VIP is gone. Two oddities are within
the property: from `.128` on both ways have one mark and hence one of the two rates, and `.8`, whose
upload mark 0x8 is found in its download mark 0x88, may stay without an upload limit
after one failed command. The removal of nft rules finds no
handles, or looks in the wrong chain, and so leaves them (harmless, since their marks
lead nowhere once filter and class are gone): the model has them stay. The SQLite
file the monitor reads its rates from is written by nobody any more but an
operator (`EditRates`), as the customers have moved to MariaDB.

## 3. Runs

| Run | Expect | Question |
|---|---|---|
| `quota` | pass | one VIP shared by a customer and an operator: `NoOverBilling`, `BillsOnlyBillable`, `CatchesUp`, `OnlyTornStops`, and `ImplementsLedger` (the refinement of `MeteredLedger`; the three anomalies are what excuses the ledger) |
| `rweap` | pass | two portal threads and two local writers, every kind of edit, two edits, two failures: `WholeAtRest`, `LoadedIsLive`, `UnracedEditsKept`, `BackupIsReplaced`, `Settles` |
| `rweap_shared` | violation | `NeverTruncated`: two creations of one second, and one renames the temporary file the other has just truncated |
| `lifecycle` | pass | four operations of fifteen kinds by two workers and the bot on one customer, kill, one failure: `NoOrphanAccess`, `OnePassword`, `NoLitter` |
| `lifecycle_expiry` | pass | two customers, renewals and `is_active` switched: `ExpiredGoes` |
| `delete_revokes` | violation | `DeleteRevokes`: a renamed device survives its customer |
| `kill_disconnects` | violation | `KillDisconnects`: disconnect first, revoke later |
| `sessions` | pass | a customer's or an operator's session under two threads, logout, revocation and cleanup: `ActiveStaysIn`, `NotAfterEnd`, `AcceptedInWindow`, `ExpiredPurged` |
| `tokens` | pass | two links, two threads, two changes to the customer at any point: `ServedWhenOpen`, `RefusedForCause`, `FailedFetchKeepsLink`, `OnceUnlessOverlapped` |
| `blocks` | pass | two blocks, two users, addresses and processes, one thing going wrong: `BlockHolds`, `RulesHaveTimers`, `RejectsEnd` |
| `conversations` | pass | two wizards started, one Back, one write-out, one restart, two summaries: `KeysReady`, `MadeIsShown`, `TierOfChoices` |
| `shaping` | pass | four VIPs, of which three meet, two changes, one failure: `StaysShaped`, `ShapedEventually`, `OutRulesGo` |

Each of the passing runs' properties has a mutant in the module it is about: an
operator beside the original (its comment begins with "Mutant") that makes the
mistake the property is there to catch.

Bounds. `MaxBytes` = 2 lets a meter be at, below and above a baseline;
`MaxDisturb` = 2 lets a reset or failure meet a crash or restart, which is what
every known anomaly needs plus one. One VIP suffices for the accounting because
leases are billed one by one and the proofs cover any number; two holders are
needed for hand-overs. Two edits reach every order of two writers' reads, renames, verifications and
reloads, with a rollback or cleanup as a third; two seconds make temporary names
differ or not, and two failures break off an edit and its undoing. The same properties were checked with
three edits and one failure (two threads and two locals as symmetry sets, 2.6
million states) and with three edits of two threads and a local (4.6 million). Four
operations reach create, change, delete, create again; two workers make every
pair of requests overlap. The kill of two customers in one transaction needs two
customers and is checked in `lifecycle_expiry`. Two threads are
interchangeable in `lifecycle`, threads and links in `tokens`: both are symmetry
sets, as these runs check invariants only.

In `sessions` the windows are 2 and 3 ticks, the cap 4, the wait 1 and the time
6: a request can be late by a tick, slide twice, and run into the cap or out of
its window with time left for the purge. Rows do not affect each other, so one
login at a time is enough, of either kind. In `tokens` two fetches of
one link, or a fetch and the making of a second link, overlap with two changes,
which is what disabling and enabling, or a rotation after a rename, needs. In `blocks` two blocks
overlap at one address or of one user, in one process or two. `shaping` has
the addresses .1, .8, .80 and .129: the download class of .1 is 1:81, the upload class of .80; its
download mark is 0x81, the one mark of .129; .80 and .129 are apart, and .8 from all, but its own
marks begin alike. Two changes let a session come while another one is shaped, or take the
place of one that has left. Three changes were checked without .8 (1.6 million states).

Deadlock is checked in `quota`, `shaping` and `conversations`, which never stop. In the others
`CHECK_DEADLOCK FALSE`, because the edits and operations are bounded by a
number: when they are used up nothing is left to do.

Fairness. `QuotaBilling` assumes that an iteration, as a whole, goes on
(`run_daemon` loops for ever, subprocesses return or fail); nothing is assumed
of the surroundings, so no reset, re-assignment or crash has to happen, and no
particular branch inside a step has to be taken. `RwEapConf` assumes that a
writer that has begun goes on (timeouts bound every remote command; `flock`
waits are served because holders go on); nobody has to begin. `CustomerLifecycle`
assumes the same of a request, and of the daemon that it comes back to the kill.
`Sessions` assumes that the cleanup loop comes back every five minutes (it
catches what a purge raises) and that a waiting request gets its row or gives up. `TempBlocks` assumes that a
process that is to run runs, that timers fire, and that time passes; `Shaping`
that the monitor's loop goes on (`main` catches what an iteration raises, systemd
starts it again). No failure, connection or change has to happen, and
failures are bounded, so what has to happen eventually is what an iteration
without one does.

Disagreements that no run checks. Where the code does not do what its
comments say the models do what the code does, and the properties leave it out.
Besides the three violation runs these are known:

* a daemon killed inside `write_text` leaves an empty sidecar on which every
  later iteration fails (quota-monitor.py:602, 608), where 5B-architecture.md:182-183 has the
  daemon continue: `OnlyTornStops` says it is the only such case;
* local writers read before they ask for the flock (safe_write_rw_eap.py:113-130): the
  second of two overlapping edits discards the first (`raced`);
* the expiry of `bob-pc` takes the block of `bob-pc2` with it (quota-monitor.py:435);
* a customer renewed while the kill is at work is deleted all the same
  (quota-monitor.py:784);
* the password of an installer link is "only returned ONCE"
  (installer_tokens.py:365), and two fetches that overlap both get it;
* the startup recovery takes every reject for one of "a previous bot session that
  crashed mid-block" (bot.py:427), running blocks of other processes included;
* `vip_to_download_classid` adds 128 "to avoid collisions"
  (bandwidth-monitor-nft.py:79-90) and collides, as tc reads these ids, and the upload ones that are
  written in decimal, in hexadecimal; and "254 VIPs × 2 directions = 508 marks" (:75) are
  255 marks. Sessions that meet so take each other's rates while both are in use (`met`);
* a failed step of a scrape is "observable (per-step exception logs + g_up = 0)"
  (quota-exporter.py:778), but `db_query_mariadb` returns an empty list on an error
  (quota-exporter.py:261), so a database that is down leaves `vpn_exporter_up` at 1.

## 4. Proofs

`QuotaBillingProofs` proves for all customers, operators, VIPs and bounds:

* `TypeCorrect`: `Spec => []TypeOK`. The one hard part is that no count goes
  below zero: deltas are clamped, and differences are taken above a baseline only;
* `NeverOverBills`: `Spec => []NoOverBilling`;
* `AccountingIsLedger`: `Spec => ImplementsLedger`, with the same invariant: the
  commit is a `Count`, traffic a `Move`, the first statement of `reset_quota` a
  `Reset`, an anomaly the `Excuse`, all other steps stutter;
* `NeverBillsBarred`: `Spec => BillsOnlyBillable`.

The theorems rest on the named assumptions of `QuotaBilling` (operators are customers,
`Unmapped` and `Nobody` are neither, the bounds are natural numbers) and on nothing else.

`NoOverBilling` is not inductive: `used <= carried` says nothing about what is
about to be added. The invariant adds two things. `Shape` says what the locals
of an iteration look like at each `pc`. `Sound`, which is claimed while no
anomaly has happened, follows the bytes on their way: a customer's counted bytes
plus what its VIP's meter has gained over the live baseline (the sidecar's, or
the one about to be saved) stay within `carried`; during the sampling the same holds
of the samples, and between `update` and `save` of the pending delta. Each
action then either moves bytes along this chain, or drops them, or sets
`anomaly`. TLC checked the same invariant before the proof was written. For
`NeverBillsBarred` the additional fact is that no delta is pending for a customer
in `barred`.

`SessionsProofs` proves for all ids, threads, windows and caps:

* `TypeCorrect`: `Spec => []TypeOK`;
* `NothingAfterEnd`: `Spec => []NotAfterEnd`. An id that has ended has no row, or a
  revoked one, and neither comes back, because ids are handed out once and an UPDATE
  does not make rows;
* `ActivityKeeps`: `Spec => []ActiveStaysIn`;
* `WindowsHold`: `Spec => AcceptedInWindow`.

For the last two the invariant ties a row's `expires` to the history: it is at
most `seen` plus the window, and at least that less `MaxWait`, because the
request that set it back read the time no longer ago; and a request or purge
that is under way has read a time within `MaxWait` of the clock.

`InstallerTokensProofs` proves, for all links, threads, times to live and numbers of
changes to the customer:

* `TypeCorrect`: `Spec => []TypeOK`;
* `OnlyOpenLinks`: `Spec => []ServedWhenOpen`;
* `RefusalsHaveCauses`: `Spec => []RefusedForCause`;
* `FailuresKeepLinks`: `Spec => []FailedFetchKeepsLink`;
* `FetchedOnce`: `Spec => []OnceUnlessOverlapped`.

The properties speak of the answer, the invariant of every statement before it: `Seen`
lists for each place in a request the conditions that its earlier statements have
tested, and the invariant says that each is in `held`. `OthersKeep` and `MoverKeeps` split
a step into the thread that moves and the others; only the first needs the code.

`FetchedOnce` has an invariant of its own (`OInv`). `LinkInv` says that a link that has brought its
password, or is about to, is burnt, and that a link under fetch has a row: so a
lookup admits no fetch of a link that has brought anything. `Once` says that of the fetches past
their lookup there is one at most, and then nothing has come yet, unless two have overlapped.
The theorems rest on the module's assumptions alone: `NoToken` is no token, the bounds
are natural numbers, and a link lives for some time (`TokenTtl` is positive).

`RwEapConfProofs` proves, for any number of identities, portal threads, local writers, edits,
seconds and failures, without any further hypothesis:

* `TypeCorrect`: `Spec => []TypeOK`;
* `LocalsExclude`: `Spec => []LocksExclude`. No step between the backup and the
  last check tests the flock again, so the invariant (`Mutex`) says who holds it at each of them;
* `BackupReplaced`: `Spec => BackupIsReplaced`;
* `WholeFile`, `LoadedFile`, `EditsKept`: `Spec => []WholeAtRest`,
  `Spec => []LoadedIsLive` and `Spec => []UnracedEditsKept`.

The inductive invariant `SInv` follows the document. An empty file, under any
name, is being written by somebody who has it open, or was left so (`EmptyIsOpen`).
As long as nothing was shared a temporary file has one user and holds what
that one has composed (`OwnTemp`), and that is its edit of what it has read (`Faithful`). When charon has not loaded
the live file there is a writer that will make it (`Loads`, `WillLoad`): the last one
whose rename nobody undid finds in its verification that the file is its own,
and reloads. And when nobody is writing into the live file it is `ideal` (`Keeps`).
Most steps change none of this (`QuietSInv`); the six that open, write, drop, rename or
copy a file have a lemma each.

`ShapingProofs` proves, for all addresses, users, rates, changes and failures:

* `TypeCorrect`: `Spec => []TypeOK`;
* `StaysShapedAlways`: `Spec => []StaysShaped`.

`StaysShaped` says of a shaped VIP that its rules, filters and classes are right, which
is kept only because no other VIP's commands touch them. Three facts make it
inductive. A filter, whoever set it, leads the mark of some VIP in use to that VIP's class of the
same direction (`OwnFilters`). A VIP in use that has met none has its numbers to
itself among those in use (`OwnNumbers`), so a filter found for its mark is its own and
`apply_bandwidth` may skip it (`FilterFound`). And what the loops still have to
do agrees with what the iteration saw (`Loops`): only VIPs without a session are
removed, none of which is in `good`. `UpFilters` and `DownFilters` say where the marks of a VIP may
lead, the addresses with one mark included. That the two classes of an address differ is arithmetic
(`ClassesDiffer`: 156a + 6b = 127 has no solution).

`BotConversationsProofs` proves, for all names, choices, restarts, writes and summaries:

* `TypeCorrect`: `Spec => []TypeOK`;
* `KeysAreReady`: `Spec => []KeysReady`;
* `MadeAsSaid`: `Spec => []MadeIsShown`;
* `TierChosen`: `Spec => []TierOfChoices`.

The invariant says of what is kept in MariaDB what the properties say of the process
(`Chosen` of both in `Ready`), and more of each state than its handlers need, since
Back leads to earlier ones. `Shows` adds that the newest summary of a wizard that waits
for Confirm shows the choices as they are: whoever changes a choice leaves that
state, and a new summary has a new number.

`TempBlocksProofs` proves, for all users, addresses, finitely many processes, and any number of
blocks and troubles:

* `TypeCorrect`: `Spec => []TypeOK`;
* `RulesAccounted`: `Spec => []RulesHaveTimers`;
* `BlockHoldsAlways`: `Spec => BlockHolds`.

The invariant counts. What an address is owed (`Owed`) are the removals its timers will make,
those of the timers about to be started, and those that never came. It has no more
rules than that (`RulesHaveTimers`), and unless a rule could not be added
exactly as many (`Counted`): `-D` takes any rule of the address, but one timer takes
one. So as long as a block is not due, which means its timer has yet to remove a
rule or has ended without, its address has a rule whoever's rule was taken. The
row has no such count: `Started` and `Loops` say that it is there or has been deleted by
somebody else, for which `StillOut` goes through all that delete rows. That no
address ever has more rules than `MaxBlocks` needs that a block is counted once,
at its rule (`RuleBegun`), and that event loops have different numbers (`Loops`).

`CustomerLifecycleProofs` proves, for all customers, requests, operations and failures:

* `TypeCorrect`: `Spec => []TypeOK`;
* `DeletedStaysOut`: `Spec => []NoOrphanAccess`;
* `ActiveHasOnePassword`: `Spec => []OnePassword`;
* `NothingIsLeft`: `Spec => []NoLitter`.

The three properties speak of a customer at rest, so none is inductive: what is true at
rest is what the last request to leave has made true, and several may be at work until
then. `IInv` says of every customer that has not been through one of the six things
above (`Sound`):

* which writers are alone. A request that writes a password unconditionally is the only
  one at its customer (`WriterAlone`), and so is `create_client` once it has inserted
  (`CreatorAlone`); a second creation still waits for the name and will not get it;
* what a request of each kind knows at each step (`Stage`). A writer knows what
  users, radcheck and the block hold, as nobody else touches them. One that
  disables or removes knows less, since others of its kind and the kill run beside it, but
  what it knows only grows: the row it looked up is there or gone, never another; what it
  has deleted stays deleted;
* how far the kill is with its victims (`KillStage`): names it has found
  have lost their block once they are past, and one it has not found has no users row;
* what there is of a customer that has a row (`Present`) and what may be left of one
  that has none (`Left`): where device, users, radcheck and block do not agree,
  somebody is named who will finish, a `delete_customer` that knows the identity, an
  archive about to disable, a kill or a writer.

A step of one request preserves the stages of all the others for one of three reasons:
it is at another customer (`Elsewhere`), it is a remover's, which can only take
away (`RemoverFrame`), or it is a writer's, which is alone (`WriterFrame`). After that
each step has a lemma of its own for what it does to its own request and to `Present`
and `Left`. `PlacedRequest` and `ProgramsLead` reduce the programs, which are sequences, to
what step follows which. The proof failed twice on the first invariant, which TLC
had passed: it has to be said that a `delete_customer` that found no user name found no
device either, and that a bulk delete or `/deleteuser` past its transaction has deleted the
row. Nothing was wrong in the model. What is not proved of it is why `taint` is
needed: that is a judgement about the code, listed in section 2.

The theorems of these five modules rest on the named assumptions of the modules: bounds are
natural numbers, the values that stand for nothing are none of the others,
processes are finitely many, and the last octet of an address is between 1 and 254
(`OctetsOfAddresses`). `CustomerLifecycle` assumes that a disabled
password is none of the minted ones (`DisabledIsNoPassword`; archiving writes the
prefix `DISABLED-`) and that each operation has a program (`OpsHavePrograms`). The inductive invariants were checked by TLC on the
instances of the runs before they were proved, that of `TempBlocks` also with three
troubles and that of `CustomerLifecycle` also with five operations, three
requests at a time, and two customers with three operations.

Model-checked only: what must happen eventually (`CatchesUp`, `OnlyTornStops`,
`Settles`, `ExpiredGoes`, `ExpiredPurged`, `RejectsEnd`, `ShapedEventually`,
`OutRulesGo`), for which TLAPS has no rules for fairness. Every other property of the passing
runs has a theorem.

## 5. Not modelled

Further devices of a customer (the kill loops over them, the rest looks at the
first); the legacy 100% cut (its callers are gone, its KILLED blocks are an
initial state of `RwEapConf`); tiers, bandwidth, alerts and audit rows, which
nothing here reads back; session tracking, which projects radacct into
display columns; `backfill_orphans`, a migration run once by hand; password
hashing and the login rate limit, a counter in each process; the bot's lists,
statistics and reminders, `/bake` of an archived customer (it bakes the disabled
value), and the second application a webhook may build while the
first is starting; parsers, exporters, front end, installer text, deployment and
configuration (no state of their own).

## 6. Plan

In this order:

1. An abstract installer link (unused, used, expired) that `InstallerTokens`
   implements, and an abstract session.
2. `backfill_orphans` as a second writer of the sidecar in `QuotaBilling`.

Theorems about them go into the proof modules of their components.
