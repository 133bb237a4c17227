------------------------------ MODULE RwEapConf ------------------------------
(***************************************************************************)
(* The writers of rw-eap.conf, charon's file of EAP secrets.               *)
(*                                                                         *)
(* Portal threads edit it over SSH: read, compose, write a temporary file  *)
(* named after the current second, check its size, rename it over the live *)
(* file, check again, reload charon (atomic_write_conf_remote; no lock).   *)
(* The quota monitor and the ops scripts hold flock(2) from backup to      *)
(* rename, but read and compose before they ask for it                     *)
(* (atomic_write_conf_local).  reset_quota copies a backup over the live   *)
(* file in place.                                                          *)
(*                                                                         *)
(* A document maps each EAP identity to its block.  Secrets count as       *)
(* equally long, so documents with equally many blocks have equal sizes.   *)
(* An edit that does not find what it looks for ends without an effect and *)
(* is no step of the model.                                                *)
(***************************************************************************)
EXTENDS Naturals, FiniteSets

CONSTANTS Ids,          \* EAP identities
          Begins,       \* Begins[i]: the identities whose name begins with i's
          Portals,      \* portal request threads, of one worker or several
          Locals,       \* quota-monitor and the ops scripts
          PortalKinds,  \* the edits portal threads make
          LocalKinds,   \* the edits locals make
          Killed,       \* identities whose secret is KILLED- at the start
          NoDoc,        \* no such file
          Empty,        \* a file truncated and not yet written
          Nobody,       \* the flock is free; no identity
          MaxEdits,     \* bound: edits started
          MaxFail,      \* bound: failing commands
          MaxSecond     \* bound: seconds that pass

PortalEdits == {"append", "remove", "replace", "restore"}
LocalEdits  == {"add", "expire", "rotate"}

ASSUME KindsKnown == PortalKinds \subseteq PortalEdits /\ LocalKinds \subseteq LocalEdits
ASSUME WritersDistinct == Portals \cap Locals = {} /\ Nobody \notin Portals \cup Locals
ASSUME PrefixesReflexive == Begins \in [Ids -> SUBSET Ids] /\ \A i \in Ids : i \in Begins[i]

VARIABLES
  live,     \* the file under its name
  loaded,   \* the secrets charon has loaded
  tmp,      \* the portal's temporary files, by the second in their name
  backup,   \* the newest backup of each label reset_quota looks at
  lock,     \* holder of flock on /var/lock/rw-eap.lock
  now,      \* int(time.time())
  proc,     \* what each writer is doing
  ideal,    \* history: every edit applied to an up-to-date document
  raced,    \* history: a write discarded somebody's change, or broke off
  shared,   \* history: two portal threads had one temporary file
  torn,     \* history: the last write into the live file left nothing there
  unloaded, \* history: whoever should have reloaded since then did not
  edits, fails

files   == <<live, tmp, backup>>
history == <<ideal, raced, shared, torn, unloaded>>
bounds  == <<edits, fails>>
vars    == <<files, loaded, lock, now, proc, history, bounds>>

Writers == Portals \cup Locals
Blocks  == {"none", "first", "rotated", "killed"}
Docs    == [Ids -> Blocks]
Files   == Docs \cup {Empty, NoDoc}
Labels  == {"quotamon", "quotamon-expire", "quotamon-rollback"}

ASSUME NoFileIsNoDocument == NoDoc # Empty /\ NoDoc \notin Docs /\ Empty \notin Docs
ASSUME BoundsAreNaturals == MaxEdits \in Nat /\ MaxFail \in Nat /\ MaxSecond \in Nat

Idle == [at |-> "idle", kind |-> "none", id |-> Nobody, old |-> NoDoc, new |-> NoDoc,
         second |-> 0, out |-> "none"]

Procs == [at     : {"idle", "stamp", "open", "tee", "check", "move", "verify", "reload",
                    "pick", "cp", "lock", "replace"},
          kind   : PortalEdits \cup LocalEdits \cup {"none", "cleanup", "rollback"},
          id     : Ids \cup {Nobody},
          old    : Files,               \* the document it read
          new    : Files,               \* the document it composed
          second : 0 .. MaxSecond,      \* in its temporary file's name
          out    : {"none", "tmp", "live", "gone"}]  \* where its tee or cp writes

\* Every variable keeps its type.
TypeOK ==
  /\ live \in Docs \cup {Empty} /\ loaded \in Docs \cup {Empty}
  /\ tmp \in [0 .. MaxSecond -> Files] /\ backup \in [Labels -> Files]
  /\ lock \in Locals \cup {Nobody}
  /\ now \in 0 .. MaxSecond
  /\ proc \in [Writers -> Procs]
  /\ ideal \in Docs
  /\ raced \in BOOLEAN /\ shared \in BOOLEAN /\ torn \in BOOLEAN /\ unloaded \in BOOLEAN
  /\ edits \in 0 .. MaxEdits /\ fails \in 0 .. MaxFail

Initially == [i \in Ids |-> IF i \in Killed THEN "killed" ELSE "none"]

\* A kill left a backup labelled quotamon-<seconds>, which may be gone by now.
Init ==
  /\ live = Initially /\ loaded = Initially /\ ideal = Initially
  /\ tmp = [s \in 0 .. MaxSecond |-> NoDoc]
  /\ \E kept \in {NoDoc, [i \in Ids |-> IF i \in Killed THEN "first" ELSE "none"]} :
       backup = [b \in Labels |-> IF b = "quotamon" THEN kept ELSE NoDoc]
  /\ lock = Nobody
  /\ now = 0
  /\ proc = [w \in Writers |-> Idle]
  /\ raced = FALSE /\ shared = FALSE /\ torn = FALSE /\ unloaded = FALSE
  /\ edits = 0 /\ fails = 0

Fail == fails < MaxFail /\ fails' = fails + 1

Tick == /\ now < MaxSecond
        /\ now' = now + 1
        /\ UNCHANGED <<files, loaded, lock, proc, history, bounds>>

-----------------------------------------------------------------------------
(* Composing an edit from the document that was read.                      *)

Size(d) == IF d = Empty THEN 0 ELSE 1 + Cardinality({i \in Ids : d[i] # "none"})
SameSize(f, d) == f # NoDoc /\ Size(f) = Size(d)

\* What a file holds after d was written into it from its first byte on.  The
\* rest of a longer one stays; it counts as unchanged, and so has its size.
Over(f, d) == IF d = Empty \/ (f # Empty /\ Size(f) > Size(d)) THEN f ELSE d

\* Does the edit find what it looks for?  An empty read has no block, and
\* fails the tests for the file's sections.
Finds(k, i, d) ==
  /\ d # Empty
  /\ CASE k \in {"append", "add"} -> d[i] = "none"
       [] k = "restore" -> d[i] = "killed"
       [] k = "expire" -> \E j \in Begins[i] : d[j] # "none"
       [] OTHER -> d[i] # "none"

\* remove_customer_eap_blocks searches for "eap-<id>" without a delimiter.
Expired(i, d) == [j \in Ids |-> IF j \in Begins[i] THEN "none" ELSE d[j]]

Edited(k, i, d) ==
  CASE k \in {"append", "add"} -> [d EXCEPT ![i] = "first"]
    [] k \in {"remove", "cleanup"} -> [d EXCEPT ![i] = "none"]
    [] k = "expire" -> Expired(i, d)
    [] k = "restore" -> [d EXCEPT ![i] = "first"]
    [] OTHER -> [d EXCEPT ![i] = "rotated"]

\* Read the live file, and compose.
Begin(w, k, i, step) ==
  /\ proc[w] = Idle /\ edits < MaxEdits
  /\ Finds(k, i, live)
  /\ edits' = edits + 1
  /\ proc' = [proc EXCEPT ![w] =
                [at |-> step, kind |-> k, id |-> i, old |-> live,
                 new |-> IF k = "restore" THEN NoDoc ELSE Edited(k, i, live),
                 second |-> 0, out |-> "none"]]
  /\ UNCHANGED <<files, loaded, lock, now, history, fails>>

Finish(w) == proc' = [proc EXCEPT ![w] = Idle]

\* A rename over the live file orphans what was opened under its name.
Orphaned(procs) ==
  [w \in Writers |-> [procs[w] EXCEPT !.out = IF @ = "live" THEN "gone" ELSE @]]

\* The open temporary file of second s is now `then`.
Redirected(procs, s, then) ==
  [w \in Writers |->
     [procs[w] EXCEPT !.out = IF @ = "tmp" /\ procs[w].second = s THEN then ELSE @]]

\* History of w replacing the live file: an edit raced when the file is no
\* longer what w read.
Replaced(w) ==
  LET p == proc[w] IN
  /\ raced' = (raced \/ live # p.old)
  /\ ideal' = IF p.kind = "rollback" THEN p.new ELSE Edited(p.kind, p.id, ideal)
  /\ torn' = FALSE
  /\ UNCHANGED <<shared, unloaded>>

\* History of an edit that ends without the reload its replacement needs.
EndsUnloaded(yes) == /\ unloaded' = (unloaded \/ yes)
                     /\ UNCHANGED <<ideal, raced, shared>>

-----------------------------------------------------------------------------
(* A portal thread.                                                        *)

\* append_eap_block, _remove_eap_block and _replace_eap_secret.
PortalEdit(p, k, i) == k # "restore" /\ Begin(p, k, i, "stamp")

\* atomic_write_conf_remote takes the time for the name of its temporary file.
Stamp(p) ==
  /\ proc[p].at = "stamp"
  /\ proc' = [proc EXCEPT ![p].at = "open", ![p].second = now]
  /\ UNCHANGED <<files, loaded, lock, now, history, bounds>>

\* Is p between opening its temporary file and renaming it?
UsesTemp(p) == proc[p].at \in {"tee", "check", "move"}

\* Mutant: the live file itself is opened for writing.
OpenTempInPlace(p) ==
  /\ proc[p].at = "open"
  /\ live' = Empty
  /\ proc' = [proc EXCEPT ![p].at = "tee", ![p].out = "live"]
  /\ UNCHANGED <<tmp, backup, loaded, lock, now, history, bounds>>

\* The remote shell opens tee's output file, truncating it.
OpenTemp(p) ==
  /\ proc[p].at = "open"
  /\ tmp' = [tmp EXCEPT ![proc[p].second] = Empty]
  /\ proc' = [proc EXCEPT ![p].at = "tee", ![p].out = "tmp"]
  /\ shared' = (shared \/ \E q \in Portals \ {p} : UsesTemp(q) /\ proc[q].second = proc[p].second)
  /\ UNCHANGED <<live, backup, loaded, lock, now, ideal, raced, torn, unloaded, bounds>>

\* The content arrives in the file that was opened, whatever its name is now.
WriteTemp(p) ==
  /\ proc[p].at = "tee"
  /\ CASE proc[p].out = "tmp"  -> /\ tmp' = [tmp EXCEPT ![proc[p].second] = Over(@, proc[p].new)]
                                  /\ UNCHANGED <<live, torn>>
       [] proc[p].out = "live" -> /\ live' = Over(live, proc[p].new) /\ torn' = FALSE
                                  /\ UNCHANGED tmp
       [] OTHER                -> UNCHANGED <<tmp, live, torn>>
  /\ proc' = [proc EXCEPT ![p].at = "check", ![p].out = "none"]
  /\ UNCHANGED <<backup, loaded, lock, now, ideal, raced, shared, unloaded, bounds>>

\* tee or stat fails, or the temporary file has the wrong size: it is removed.
AbandonTemp(p) ==
  /\ \/ proc[p].at \in {"tee", "check"} /\ Fail
     \/ /\ proc[p].at = "check"
        /\ ~SameSize(tmp[proc[p].second], proc[p].new)
        /\ UNCHANGED fails
  /\ tmp' = [tmp EXCEPT ![proc[p].second] = NoDoc]
  /\ proc' = Redirected([proc EXCEPT ![p] = Idle], proc[p].second, "gone")
  /\ torn' = (torn \/ proc[p].out = "live")
  /\ UNCHANGED <<live, backup, loaded, lock, now, ideal, raced, shared, unloaded, edits>>

CheckTemp(p) ==
  /\ proc[p].at = "check"
  /\ SameSize(tmp[proc[p].second], proc[p].new)
  /\ proc' = [proc EXCEPT ![p].at = "move"]
  /\ UNCHANGED <<files, loaded, lock, now, history, bounds>>

\* mv of whatever file has the name now.
MoveTemp(p) ==
  /\ proc[p].at = "move" /\ tmp[proc[p].second] # NoDoc
  /\ live' = tmp[proc[p].second]
  /\ tmp' = [tmp EXCEPT ![proc[p].second] = NoDoc]
  /\ proc' = Redirected(Orphaned([proc EXCEPT ![p].at = "verify"]), proc[p].second, "live")
  /\ Replaced(p)
  /\ UNCHANGED <<backup, loaded, lock, now, bounds>>

\* Mutant: the reload after a removal is forgotten.
VerifyMoveForgetting(p) ==
  /\ proc[p].at = "verify" /\ SameSize(live, proc[p].new)
  /\ IF proc[p].kind \in {"cleanup", "remove"} THEN Finish(p)
     ELSE proc' = [proc EXCEPT ![p].at = "reload"]
  /\ UNCHANGED <<files, loaded, lock, now, history, bounds>>

\* The cleanup of a failed create_client is not followed by a reload.
VerifyMove(p) ==
  /\ proc[p].at = "verify" /\ SameSize(live, proc[p].new)
  /\ IF proc[p].kind = "cleanup" THEN Finish(p)
     ELSE proc' = [proc EXCEPT ![p].at = "reload"]
  /\ EndsUnloaded(proc[p].kind = "cleanup")
  /\ UNCHANGED <<files, loaded, lock, now, torn, bounds>>

\* The file to move is gone, the live file has another size than expected, or
\* mv or stat fails: the request ends with an error and no reload, even when
\* the live file was replaced.
MoveFails(p) ==
  /\ \/ proc[p].at = "move" /\ tmp[proc[p].second] = NoDoc /\ UNCHANGED fails
     \/ proc[p].at = "verify" /\ ~SameSize(live, proc[p].new) /\ UNCHANGED fails
     \/ proc[p].at \in {"move", "verify"} /\ Fail
  /\ Finish(p)
  /\ EndsUnloaded(proc[p].at = "verify" /\ fails' # fails)
  /\ UNCHANGED <<files, loaded, lock, now, torn, edits>>

\* reset_quota reads the file; one of the customer's secrets is KILLED.
PortalReset(p, i) == Begin(p, "restore", i, "pick")

\* The last of the names rw-eap.conf.bak-quotamon-*, sorted as strings:
\* "quotamon-<seconds>" < "quotamon-expire-" < "quotamon-rollback-".
Newest == CASE backup["quotamon-rollback"] # NoDoc -> backup["quotamon-rollback"]
            [] backup["quotamon-expire"] # NoDoc -> backup["quotamon-expire"]
            [] OTHER -> backup["quotamon"]

\* Mutant: the backup's content is taken without asking whether there is one.
StartCopyUnasked(p) ==
  /\ proc[p].at = "pick"
  /\ proc' = [proc EXCEPT ![p].at = "reload", ![p].new = Newest]
  /\ live' = Newest
  /\ UNCHANGED <<tmp, backup, loaded, lock, now, history, bounds>>

\* Without a backup there is nothing to restore; else cp truncates the file.
\* What was asked for is the identity's secret; the backup may bring more.
StartCopy(p) ==
  /\ proc[p].at = "pick"
  /\ IF Newest = NoDoc
     THEN Finish(p) /\ UNCHANGED <<live, ideal, raced>>
     ELSE /\ proc' = [proc EXCEPT ![p].at = "cp", ![p].new = Newest, ![p].out = "live"]
          /\ live' = Empty
          /\ ideal' = Edited("restore", proc[p].id, ideal)
          /\ raced' = (raced \/ live = Empty \/ Newest # Edited("restore", proc[p].id, live))
  /\ UNCHANGED <<tmp, backup, loaded, lock, now, shared, torn, unloaded, bounds>>

\* The content arrives.  Of an empty backup there is none.
FinishCopy(p) ==
  /\ proc[p].at = "cp"
  /\ IF proc[p].out = "live"
     THEN live' = Over(live, proc[p].new) /\ torn' = (live' = Empty)
     ELSE UNCHANGED <<live, torn>>
  /\ proc' = [proc EXCEPT ![p].at = "reload", ![p].out = "none"]
  /\ UNCHANGED <<tmp, backup, loaded, lock, now, ideal, raced, shared, unloaded, bounds>>

\* cp fails: reset_quota reports the step and goes on without the reload.
CopyFails(p) ==
  /\ proc[p].at = "cp" /\ Fail
  /\ LET into == proc[p].out = "live"
     IN  /\ torn' = (torn \/ into) /\ raced' = (raced \/ into)
         /\ unloaded' = (unloaded \/ into)
  /\ Finish(p)
  /\ UNCHANGED <<files, loaded, lock, now, ideal, shared, edits>>

\* swanctl --load-creds makes charon's secrets those of the file.
Reload(w) ==
  /\ proc[w].at = "reload"
  /\ loaded' = live
  /\ Finish(w)
  /\ unloaded' = FALSE
  /\ UNCHANGED <<files, lock, now, ideal, raced, shared, torn, bounds>>

\* Mutant: the cleanup starts from the document that was read for the edit.
PortalReloadFailsStale(p) ==
  /\ proc[p].at = "reload" /\ Fail
  /\ IF proc[p].kind = "append" /\ Finds("cleanup", proc[p].id, live)
     THEN proc' = [proc EXCEPT ![p].at = "stamp", ![p].kind = "cleanup",
                               ![p].old = live, ![p].new = proc[p].old]
     ELSE Finish(p)
  /\ EndsUnloaded(TRUE)
  /\ UNCHANGED <<files, loaded, lock, now, torn, edits>>

\* The reload fails.  Only create_client undoes its edit: it reads the file
\* again and removes the block if it is still there.
PortalReloadFails(p) ==
  /\ proc[p].at = "reload" /\ Fail
  /\ IF proc[p].kind = "append" /\ Finds("cleanup", proc[p].id, live)
     THEN proc' = [proc EXCEPT ![p].at = "stamp", ![p].kind = "cleanup", ![p].old = live,
                               ![p].new = Edited("cleanup", proc[p].id, live)]
     ELSE Finish(p)
  /\ EndsUnloaded(TRUE)
  /\ UNCHANGED <<files, loaded, lock, now, torn, edits>>

-----------------------------------------------------------------------------
(* A local writer.                                                         *)

\* The file is read and the new one composed before the lock is asked for.
LocalEdit(l, k, i) == Begin(l, k, i, "lock")

LabelOf(k) == IF k = "rollback" THEN "quotamon-rollback" ELSE "quotamon-expire"

\* Mutant: the lock is not exclusive.
LocalLockShared(l) ==
  /\ proc[l].at = "lock"
  /\ lock' = l
  /\ backup' = IF proc[l].kind \in {"expire", "rollback"}
               THEN [backup EXCEPT ![LabelOf(proc[l].kind)] = live] ELSE backup
  /\ proc' = [proc EXCEPT ![l].at = "replace"]
  /\ UNCHANGED <<live, tmp, loaded, now, history, bounds>>

\* flock, then the backup.  Those of rotate and updaterw have other labels.
LocalLock(l) ==
  /\ proc[l].at = "lock" /\ lock = Nobody
  /\ lock' = l
  /\ backup' = IF proc[l].kind \in {"expire", "rollback"}
               THEN [backup EXCEPT ![LabelOf(proc[l].kind)] = live] ELSE backup
  /\ proc' = [proc EXCEPT ![l].at = "replace"]
  /\ UNCHANGED <<live, tmp, loaded, now, history, bounds>>

\* The temporary file is this writer's own while it holds the lock.
LocalReplace(l) ==
  /\ proc[l].at = "replace"
  /\ live' = proc[l].new
  /\ proc' = Orphaned([proc EXCEPT ![l].at = "verify"])
  /\ Replaced(l)
  /\ UNCHANGED <<tmp, backup, loaded, lock, now, bounds>>

\* Mutant: an error leaves the lock held.
LocalFailsLocked(l) ==
  /\ \/ proc[l].at = "replace" /\ Fail
     \/ proc[l].at = "verify" /\ ~SameSize(live, proc[l].new) /\ UNCHANGED fails
  /\ Finish(l)
  /\ UNCHANGED <<files, loaded, lock, now, history, edits>>

\* The temporary file cannot be written, or the live file has another size
\* after the rename (a portal thread replaced it): the edit ends.
LocalFails(l) ==
  /\ \/ proc[l].at = "replace" /\ Fail
     \/ proc[l].at = "verify" /\ ~SameSize(live, proc[l].new) /\ UNCHANGED fails
  /\ lock' = Nobody
  /\ Finish(l)
  /\ UNCHANGED <<files, loaded, now, history, edits>>

\* A rollback is not followed by a reload.
LocalVerify(l) ==
  /\ proc[l].at = "verify" /\ SameSize(live, proc[l].new)
  /\ lock' = Nobody
  /\ IF proc[l].kind = "rollback" THEN Finish(l)
     ELSE proc' = [proc EXCEPT ![l].at = "reload"]
  /\ EndsUnloaded(proc[l].kind = "rollback")
  /\ UNCHANGED <<files, loaded, now, torn, bounds>>

\* Only the quota monitor rolls back, to the document it read before its edit.
LocalReloadFails(l) ==
  /\ proc[l].at = "reload" /\ Fail
  /\ IF proc[l].kind = "expire"
     THEN proc' = [proc EXCEPT ![l].at = "lock", ![l].kind = "rollback",
                               ![l].old = proc[l].new, ![l].new = proc[l].old]
     ELSE Finish(l)
  /\ EndsUnloaded(TRUE)
  /\ UNCHANGED <<files, loaded, lock, now, torn, edits>>

-----------------------------------------------------------------------------
PortalContinues(p) ==
  Stamp(p) \/ OpenTemp(p) \/ WriteTemp(p) \/ AbandonTemp(p) \/ CheckTemp(p) \/ MoveTemp(p)
  \/ VerifyMove(p) \/ MoveFails(p) \/ StartCopy(p) \/ FinishCopy(p) \/ CopyFails(p)
  \/ Reload(p) \/ PortalReloadFails(p)

LocalContinues(l) ==
  LocalLock(l) \/ LocalReplace(l) \/ LocalFails(l) \/ LocalVerify(l) \/ Reload(l)
  \/ LocalReloadFails(l)

Next ==
  \/ Tick
  \/ \E p \in Portals, i \in Ids : \E k \in PortalKinds :
       IF k = "restore" THEN PortalReset(p, i) ELSE PortalEdit(p, k, i)
  \/ \E l \in Locals, i \in Ids : \E k \in LocalKinds : LocalEdit(l, k, i)
  \/ \E p \in Portals : PortalContinues(p)
  \/ \E l \in Locals : LocalContinues(l)

\* Nothing makes anybody start an edit, but one that has started goes on.
Fairness == /\ \A p \in Portals : WF_vars(PortalContinues(p))
            /\ \A l \in Locals : WF_vars(LocalContinues(l))

Spec == Init /\ [][Next]_vars /\ Fairness

-----------------------------------------------------------------------------
(* Properties.                                                             *)

AllIdle == \A w \in Writers : proc[w] = Idle

\* The live file is empty only while somebody writes into it: a restore, or a
\* tee whose temporary file another thread of the same second has renamed; or
\* where the last of them failed or had nothing to write.  Nobody else ever
\* leaves it empty, whoever renames what in between.
WholeAtRest ==
  live = Empty => \/ \E p \in Portals : proc[p].at = "cp" /\ proc[p].out = "live"
                  \/ shared /\ \E p \in Portals : proc[p].at = "tee" /\ proc[p].out = "live"
                  \/ torn

\* When every writer has finished, charon has the secrets of the file, whatever
\* order the replacements and the reloads came in and whichever writers were
\* told that their write had been overtaken; unless, since the last reload, a
\* command failed after a replacement or one was undone, neither of which is
\* followed by a reload, or two threads had one temporary file.
LoadedIsLive == AllIdle /\ ~unloaded /\ ~shared => loaded = live

\* Unless two edits overlapped, or a restore brought back more than the secret
\* it was asked for, the file is the result of all edits, applied in the order
\* in which they replaced it, failures and rollbacks included.
UnracedEditsKept == AllIdle /\ ~raced /\ ~shared => live = ideal

\* While a local is between its backup and its last check no other local moves
\* the file or the backups: the backup is of the very document replaced, but
\* for what portal threads do, who take no lock.
BackupIsReplaced ==
  [][\A l, k \in Locals :
       l # k /\ proc[l].at \in {"replace", "verify"} /\ proc'[k].at # proc[k].at
       => UNCHANGED <<live, backup>>]_vars

\* The header of safe_write_rw_eap.py: "The live conf file is NEVER opened in 'w'
\* mode, NEVER truncated mid-write."  Nobody finds it empty, where only such
\* writers are at work.
NeverTruncated == live # Empty

\* Every edit ends: no failure leaves the lock behind.
Settles == \A w \in Writers : proc[w] # Idle ~> proc[w] = Idle
=============================================================================
