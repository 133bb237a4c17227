-------------------------- MODULE CustomerLifecycle --------------------------
(***************************************************************************)
(* A customer's life: the portal creates, rotates, archives, unarchives,   *)
(* renews, resets and deletes it (host/vpn-portal/app.py, portal_auth.py,  *)
(* scripts/bulk_action.py), an operator deletes, cleans up, reclaims and   *)
(* renews it by Telegram (host/vpn-portal/bot.py), the quota monitor kills *)
(* it when it expires (quota/quota-monitor.py), charon asks FreeRADIUS     *)
(* whether its device may connect.                                         *)
(*                                                                         *)
(* One request is a list of steps, each a committed statement, a           *)
(* transaction or a remote command, and other requests and the daemon run  *)
(* between them.  A customer has one device, as create_client makes it;    *)
(* its EAP identity is users.name, which create_client composes of the     *)
(* customer's and the device's names and the deletes compose again.        *)
(* rw-eap.conf is written atomically here: RwEapConf has its races.        *)
(***************************************************************************)
EXTENDS Naturals, Sequences

CONSTANTS Customers,  \* customer names
          Requests,   \* request threads of the portal's workers
          Ops,        \* the operations operators use: see Programs
          Singles,    \* the one-transaction operations they use
          Disabled,   \* a radcheck value DISABLED-<hex>
          Nobody,     \* no customer
          MaxOps,     \* bound: operations started
          MaxFail     \* bound: failures

ASSUME NobodyIsNoCustomer == Nobody \notin Customers
ASSUME BoundsAreNaturals == MaxOps \in Nat /\ MaxFail \in Nat
ASSUME DisabledIsNoPassword == Disabled \notin 0 .. MaxOps

VARIABLES
  cust,      \* customers.status, "absent" when there is no row
  enabled,   \* customers.is_active
  row,       \* customers.id: the operation that created the row
  overdue,   \* expires_at < NOW()
  device,    \* devices row: "none", "own" name, or "renamed"
  user,      \* users row: the password its hash is of
  radcheck,  \* the password FreeRADIUS accepts, or Disabled
  block,     \* the secret in the customer's block of rw-eap.conf
  saved,     \* the newest secret in a quotamon-* backup of rw-eap.conf
  sa,        \* the device is connected
  proc,      \* what each request is doing
  kill,      \* what _kill_expired_customers is doing
  taint,     \* history: what a customer has been through, see Taints
  ops, fails

stores == <<cust, enabled, row, overdue, device, user, radcheck, block, saved>>
vars   == <<stores, sa, proc, kill, taint, ops, fails>>

None      == 0
Passwords == 1 .. MaxOps     \* the password minted by the n-th operation
Taints    == {"overlap", "failure", "rename", "bulk", "reset", "renewed"}

\* What cmd_deleteuser, cmd_cleanup_orphans and renew_orphan_core do after
\* their checks.  The bot serves one update at a time.
DeleteUser     == <<"fullsweep", "unblock", "reload">>
CleanupOrphans == <<"retire", "unblock", "reload">>
RenewOrphan    == <<"reclaim", "preclean", "append", "reload">>
BotOps         == {"deleteuser", "cleanup", "reclaim"}

\* The steps of the portal's operations after their checks.
CreateClient    == <<"insert", "append", "reload", "commit">>
RotateEap       == <<"user", "conf", "reload", "radcheck">>
ArchiveCustomer == <<"status", "disable">>
Unarchive       == <<"status", "user", "conf", "radcheck", "reload">>
RestoreRadcheck == <<"radcheck">>
HardDelete      == <<"users", "sweep", "devices", "unblock", "purge", "reload", "customer">>
BulkHardDelete  == <<"transaction", "unblock", "reload">>

Programs == [
  create     |-> CreateClient,    rotate     |-> RotateEap,
  archive    |-> ArchiveCustomer, unarchive  |-> Unarchive,
  reset      |-> RestoreRadcheck, delete     |-> HardDelete,
  bulkdelete |-> BulkHardDelete,  deleteuser |-> DeleteUser,
  cleanup    |-> CleanupOrphans,  reclaim    |-> RenewOrphan]

ASSUME OpsHavePrograms == Ops \subseteq DOMAIN Programs

Idle  == [op |-> "none", of |-> Nobody, todo |-> <<>>, id |-> None, pw |-> None,
          named |-> FALSE]
Quiet == [at |-> "idle", todo |-> {}, victims |-> {}, known |-> {}, now |-> Nobody,
          ids |-> [c \in Customers |-> None]]

\* Every variable keeps its type.
TypeOK ==
  /\ cust \in [Customers -> {"absent", "active", "archived"}]
  /\ enabled \in [Customers -> BOOLEAN]
  /\ row \in [Customers -> 0 .. MaxOps]
  /\ overdue \in [Customers -> BOOLEAN]
  /\ device \in [Customers -> {"none", "own", "renamed"}]
  /\ user \in [Customers -> 0 .. MaxOps]
  /\ radcheck \in [Customers -> 0 .. MaxOps \cup {Disabled}]
  /\ block \in [Customers -> 0 .. MaxOps] /\ saved \in [Customers -> 0 .. MaxOps]
  /\ sa \in [Customers -> BOOLEAN]
  /\ \A r \in Requests :
       /\ proc[r].op \in DOMAIN Programs \cup {"none"}
       /\ proc[r].of \in Customers \cup {Nobody}
       /\ proc[r].pw \in 0 .. MaxOps /\ proc[r].id \in 0 .. MaxOps /\ proc[r].named \in BOOLEAN
  /\ kill.at \in {"idle", "cut", "unblock", "commit"}
  /\ kill.victims \subseteq Customers /\ kill.todo \subseteq kill.victims
  /\ kill.ids \in [Customers -> 0 .. MaxOps]
  /\ kill.known \subseteq kill.victims /\ kill.now \in Customers \cup {Nobody}
  /\ taint \in [Customers -> SUBSET Taints]
  /\ ops \in 0 .. MaxOps /\ fails \in 0 .. MaxFail

Init ==
  /\ cust = [c \in Customers |-> "absent"]
  /\ enabled = [c \in Customers |-> FALSE]
  /\ row = [c \in Customers |-> None]
  /\ overdue = [c \in Customers |-> FALSE]
  /\ device = [c \in Customers |-> "none"]
  /\ user = [c \in Customers |-> None]
  /\ radcheck = [c \in Customers |-> None]
  /\ block = [c \in Customers |-> None]
  /\ saved = [c \in Customers |-> None]
  /\ sa = [c \in Customers |-> FALSE]
  /\ proc = [r \in Requests |-> Idle]
  /\ kill = Quiet
  /\ taint = [c \in Customers |-> {}]
  /\ ops = 0 /\ fails = 0

Taint(c, t) == taint' = [taint EXCEPT ![c] = @ \cup {t}]
Fail(c)     == fails < MaxFail /\ fails' = fails + 1 /\ Taint(c, "failure")
NoFailure   == UNCHANGED <<fails, taint>>

-----------------------------------------------------------------------------
(* A request begins with its checks.                                       *)

\* Those that write a password whatever has become of the customer.
Writers == {"rotate", "unarchive", "reset", "reclaim"}

Overlaps(op, c) ==
  \/ \E r \in Requests : proc[r].of = c /\ (op \in Writers \/ proc[r].op \in Writers)
  \/ op \in Writers /\ c \in kill.victims

\* A disabled identity whose secret is in a backup, for reset_quota.
Restorable(c) == /\ cust[c] # "absent" /\ device[c] # "none" /\ user[c] # None
                 /\ radcheck[c] = Disabled /\ saved[c] # None

\* A users row without a device.
Orphan(c) == user[c] # None /\ device[c] = "none"

Accepts(op, c) ==
  CASE op = "create"    -> cust[c] = "absent" /\ user[c] = None /\ block[c] = None
    [] op = "rotate"    -> cust[c] = "active" /\ device[c] # "none" /\ user[c] # None
    [] op = "archive"   -> cust[c] = "active"
    [] op = "unarchive" -> cust[c] = "archived"
    [] op = "reset"     -> Restorable(c)
    [] op = "cleanup"   -> Orphan(c)
    [] op = "reclaim"   -> Orphan(c) /\ cust[c] = "absent"
    [] OTHER            -> cust[c] # "absent"

\* Will the request's deletes find the identity?  Those of the portal compose
\* its name, cmd_deleteuser collects what begins with the customer's name.
Named(op, c) ==
  CASE op = "deleteuser" -> user[c] # None \/ radcheck[c] # None
    [] op \in BotOps     -> TRUE
    [] OTHER             -> device[c] = "own"

BotFree == \A r \in Requests : proc[r].op \notin BotOps

\* reset_quota re-enables a radcheck row with the secret it finds in a backup,
\* whatever the customer's status; the other writers mint a password.
Start(r, op, c) ==
  /\ proc[r] = Idle /\ ops < MaxOps
  /\ Accepts(op, c) /\ (op \in BotOps => BotFree)
  /\ ops' = ops + 1
  /\ proc' = [proc EXCEPT ![r] =
                [op |-> op, of |-> c, todo |-> Programs[op], id |-> row[c],
                 pw |-> IF op = "reset" THEN saved[c] ELSE ops + 1,
                 named |-> Named(op, c)]]
  /\ taint' = [taint EXCEPT ![c] = @ \cup (IF Overlaps(op, c) THEN {"overlap"} ELSE {})
                                     \cup (IF op = "reset" THEN {"reset"} ELSE {})]
  /\ UNCHANGED <<stores, sa, kill, fails>>

At(r, step) == proc[r].todo # <<>> /\ Head(proc[r].todo) = step
Of(r)       == proc[r].of

\* Is the customer's row still the one the request looked up?  The users row
\* comes with it, and outlives it when the quota monitor deletes it.
SameRow(c, id)  == row[c] = id
SameUser(c, id) == user[c] # None /\ row[c] \in {id, None}

\* The kill's transaction has deleted the customer's rows and not committed:
\* other statements on them wait.
Locked(c) == c \in kill.victims \ (kill.todo \cup {kill.now})

Finish(r)   == proc' = [proc EXCEPT ![r] = Idle]
Go(r)       == IF Len(proc[r].todo) = 1 THEN Finish(r)
               ELSE proc' = [proc EXCEPT ![r].todo = Tail(@)]
Jump(r, s)  == proc' = [proc EXCEPT ![r].todo = s]

\* What a failure does to the request: create_client cleans up, rotate_eap,
\* delete_customer and the bot raise, the others log and go on.
Failing(r) ==
  CASE proc[r].op = "create" -> Jump(r, <<"cleanup">>)
    [] proc[r].op \in {"rotate", "delete", "deleteuser", "reclaim"} -> Finish(r)
    [] OTHER -> Go(r)

-----------------------------------------------------------------------------
(* create_client: one transaction around the edit of rw-eap.conf.          *)

\* Has another create_client inserted the same name without committing?
Inserting(r) ==
  \E s \in Requests \ {r} :
    /\ proc[s].op = "create" /\ Of(s) = Of(r)
    /\ \E step \in {"append", "reload", "commit"} : At(s, step)

\* Is something still running for the former customer of this name?
Reused(r) ==
  \/ Of(r) \in kill.victims
  \/ \E s \in Requests : Of(s) = Of(r) /\ proc[s].op # "create"

\* INSERT INTO customers waits for the unique name and fails if it is taken.
Insert(r) ==
  /\ At(r, "insert") /\ ~Inserting(r) /\ ~Locked(Of(r))
  /\ IF cust[Of(r)] # "absent" \/ user[Of(r)] # None THEN Finish(r) ELSE Go(r)
  /\ taint' = [taint EXCEPT ![Of(r)] = IF Reused(r) THEN @ \cup {"overlap"} ELSE @]
  /\ UNCHANGED <<stores, sa, kill, ops, fails>>

\* append_eap_block; an exception rolls the transaction back and is not taken
\* for a written block, not even the one of the stat after the rename.
Append_(r) ==
  LET written == [block EXCEPT ![Of(r)] = proc[r].pw]
  IN /\ At(r, "append")
     /\ \/ block[Of(r)] = None /\ block' = written /\ Go(r) /\ NoFailure
        \/ block[Of(r)] # None /\ Finish(r) /\ UNCHANGED block /\ NoFailure
        \/ block[Of(r)] = None /\ Fail(Of(r)) /\ Finish(r) /\ block' \in {block, written}
     /\ UNCHANGED <<cust, enabled, row, overdue, device, user, radcheck, saved, sa, kill, ops>>

\* A COMMIT that fails leaves none of the rows; the block is cleaned up.
Commit(r) ==
  /\ At(r, "commit")
  /\ \/ /\ cust' = [cust EXCEPT ![Of(r)] = "active"]
        /\ enabled' = [enabled EXCEPT ![Of(r)] = TRUE]
        /\ row' = [row EXCEPT ![Of(r)] = proc[r].pw]
        /\ device' = [device EXCEPT ![Of(r)] = "own"]
        /\ user' = [user EXCEPT ![Of(r)] = proc[r].pw]
        /\ radcheck' = [radcheck EXCEPT ![Of(r)] = proc[r].pw]
        /\ overdue' = [overdue EXCEPT ![Of(r)] = FALSE]
        /\ Finish(r) /\ NoFailure
     \/ /\ UNCHANGED <<cust, enabled, row, device, user, radcheck, overdue>>
        /\ Failing(r) /\ Fail(Of(r))
  /\ UNCHANGED <<block, saved, sa, kill, ops>>

\* After the append a failure takes the block out again.
Cleanup(r) ==
  /\ At(r, "cleanup")
  /\ \/ block' = [block EXCEPT ![Of(r)] = None] /\ NoFailure
     \/ UNCHANGED block /\ Fail(Of(r))
  /\ Finish(r)
  /\ UNCHANGED <<cust, enabled, row, overdue, device, user, radcheck, saved, sa, kill, ops>>

-----------------------------------------------------------------------------
(* Steps that several requests share.                                      *)

Reload(r) ==
  /\ At(r, "reload")
  /\ \/ Go(r) /\ NoFailure
     \/ Failing(r) /\ Fail(Of(r))
  /\ UNCHANGED <<stores, sa, kill, ops>>

\* UPDATE users: no row, no effect.
SetUser(r) ==
  /\ At(r, "user")
  /\ user' = IF SameUser(Of(r), proc[r].id)
             THEN [user EXCEPT ![Of(r)] = proc[r].pw] ELSE user
  /\ Go(r)
  /\ UNCHANGED <<cust, enabled, row, overdue, device, radcheck, block, saved, sa, kill, taint, ops, fails>>

\* _replace_eap_secret raises 404 when the block is not there.
ReplaceSecret(r) ==
  LET written == [block EXCEPT ![Of(r)] = IF @ = None THEN None ELSE proc[r].pw]
  IN /\ At(r, "conf")
     /\ \/ block[Of(r)] # None /\ block' = written /\ Go(r) /\ NoFailure
        \/ block[Of(r)] = None /\ Failing(r) /\ UNCHANGED block /\ NoFailure
        \/ Fail(Of(r)) /\ Failing(r) /\ block' \in {block, written}
     /\ UNCHANGED <<cust, enabled, row, overdue, device, user, radcheck, saved, sa, kill, ops>>

\* Mutant: an UPDATE that leaves a disabled row alone.
WriteRadcheckEnabled(r) ==
  /\ At(r, "radcheck") /\ ~Locked(Of(r))
  /\ radcheck' = [radcheck EXCEPT ![Of(r)] = IF @ = Disabled THEN @ ELSE proc[r].pw]
  /\ Go(r) /\ NoFailure
  /\ UNCHANGED <<cust, enabled, row, overdue, device, user, block, saved, sa, kill, ops>>

\* DELETE and INSERT in one transaction: the row is there afterwards, whether
\* it was before or not.  Failures are logged only.
WriteRadcheck(r) ==
  /\ At(r, "radcheck") /\ ~Locked(Of(r))
  /\ \/ radcheck' = [radcheck EXCEPT ![Of(r)] = proc[r].pw] /\ NoFailure
     \/ UNCHANGED radcheck /\ Fail(Of(r))
  /\ Go(r)
  /\ UNCHANGED <<cust, enabled, row, overdue, device, user, block, saved, sa, kill, ops>>

\* The customer's device and its users row are found.
HasIdentity(r) ==
  /\ SameRow(Of(r), proc[r].id) /\ SameUser(Of(r), proc[r].id) /\ device[Of(r)] # "none"

\* UPDATE customers: archive and unarchive change status and is_active.
SetStatus(r) ==
  /\ At(r, "status") /\ ~Locked(Of(r))
  /\ IF SameRow(Of(r), proc[r].id)
     THEN /\ cust' = [cust EXCEPT ![Of(r)] = IF proc[r].op = "archive" THEN "archived" ELSE "active"]
          /\ enabled' = [enabled EXCEPT ![Of(r)] = proc[r].op # "archive"]
     ELSE UNCHANGED <<cust, enabled>>
  \* unarchive goes on only for a device with a users row
  /\ IF proc[r].op = "unarchive" /\ ~HasIdentity(r) THEN Finish(r) ELSE Go(r)
  /\ UNCHANGED <<row, overdue, device, user, radcheck, block, saved, sa, kill, taint, ops, fails>>

\* disable_customer_radcheck for the identity of the customer's device.
Disable(r) ==
  /\ At(r, "disable") /\ ~Locked(Of(r))
  /\ \/ /\ radcheck' = IF HasIdentity(r)
                       THEN [radcheck EXCEPT ![Of(r)] = Disabled] ELSE radcheck
        /\ NoFailure
     \/ UNCHANGED radcheck /\ Fail(Of(r))
  /\ Go(r)
  /\ UNCHANGED <<cust, enabled, row, overdue, device, user, block, saved, sa, kill, ops>>

-----------------------------------------------------------------------------
(* delete_customer, and the bulk delete.                                   *)

\* Rows of the identities composed of the customer's and the device's names.
DeleteUsers(r) ==
  /\ At(r, "users")
  /\ user' = IF proc[r].named THEN [user EXCEPT ![Of(r)] = None] ELSE user
  /\ Go(r)
  /\ UNCHANGED <<cust, enabled, row, overdue, device, radcheck, block, saved, sa, kill, taint, ops, fails>>

\* users rows without a device whose name begins with the customer's.
SweepOrphans(r) ==
  LET orphan == device[Of(r)] = "none" /\ user[Of(r)] # None
  IN /\ At(r, "sweep") /\ ~Locked(Of(r))
     /\ user' = IF orphan THEN [user EXCEPT ![Of(r)] = None] ELSE user
     /\ \/ /\ radcheck' = IF orphan THEN [radcheck EXCEPT ![Of(r)] = None] ELSE radcheck
           /\ NoFailure
        \/ orphan /\ UNCHANGED radcheck /\ Fail(Of(r))
     /\ Go(r)
     /\ UNCHANGED <<cust, enabled, row, overdue, device, block, saved, sa, kill, ops>>

DeleteDevices(r) ==
  /\ At(r, "devices") /\ ~Locked(Of(r))
  /\ device' = IF SameRow(Of(r), proc[r].id) THEN [device EXCEPT ![Of(r)] = "none"] ELSE device
  /\ Go(r)
  /\ UNCHANGED <<cust, enabled, row, overdue, user, radcheck, block, saved, sa, kill, taint, ops, fails>>

\* _remove_eap_block; failures are logged only, except by cmd_deleteuser.
RemoveBlock(r) ==
  /\ At(r, "unblock")
  /\ \/ block' = (IF proc[r].named THEN [block EXCEPT ![Of(r)] = None] ELSE block) /\ NoFailure
     \/ UNCHANGED block /\ Fail(Of(r))
  /\ IF proc[r].op = "deleteuser" /\ fails' # fails THEN Finish(r) ELSE Go(r)
  /\ UNCHANGED <<cust, enabled, row, overdue, device, user, radcheck, saved, sa, kill, ops>>

\* remove_customer_radcheck_and_usergroup; failures are logged only.
PurgeRadcheck(r) ==
  /\ At(r, "purge") /\ ~Locked(Of(r))
  /\ \/ radcheck' = (IF proc[r].named THEN [radcheck EXCEPT ![Of(r)] = None] ELSE radcheck)
        /\ NoFailure
     \/ UNCHANGED radcheck /\ Fail(Of(r))
  /\ Go(r)
  /\ UNCHANGED <<cust, enabled, row, overdue, device, user, block, saved, sa, kill, ops>>

DeleteCustomer(r) ==
  /\ At(r, "customer") /\ ~Locked(Of(r))
  /\ IF SameRow(Of(r), proc[r].id)
     THEN cust' = [cust EXCEPT ![Of(r)] = "absent"] /\ row' = [row EXCEPT ![Of(r)] = None]
     ELSE UNCHANGED <<cust, row>>
  /\ Go(r)
  /\ UNCHANGED <<enabled, overdue, device, user, radcheck, block, saved, sa, kill, taint, ops, fails>>

\* Mutant: the script does not return the identities whose blocks must go.
BulkDeleteSilently(r) ==
  /\ At(r, "transaction") /\ SameRow(Of(r), proc[r].id) /\ ~Locked(Of(r))
  /\ user' = [user EXCEPT ![Of(r)] = None]
  /\ radcheck' = [radcheck EXCEPT ![Of(r)] = None]
  /\ device' = [device EXCEPT ![Of(r)] = "none"]
  /\ cust' = [cust EXCEPT ![Of(r)] = "absent"] /\ row' = [row EXCEPT ![Of(r)] = None]
  /\ Finish(r)
  /\ UNCHANGED <<enabled, overdue, block, saved, sa, kill, taint, ops, fails>>

\* bulk_action.py deletes all rows in one transaction, reading the names in it.
BulkDelete(r) ==
  LET c == Of(r)
      hit == device[c] = "own" \/ (device[c] = "none" /\ user[c] # None)
  IN /\ At(r, "transaction") /\ ~Locked(Of(r))
     /\ IF ~SameRow(c, proc[r].id)
        THEN Finish(r) /\ UNCHANGED <<cust, row, device, user, radcheck>>
        ELSE /\ user' = IF hit THEN [user EXCEPT ![c] = None] ELSE user
             /\ radcheck' = IF hit THEN [radcheck EXCEPT ![c] = None] ELSE radcheck
             /\ device' = [device EXCEPT ![c] = "none"]
             /\ cust' = [cust EXCEPT ![c] = "absent"]
             /\ row' = [row EXCEPT ![c] = None]
             /\ proc' = [proc EXCEPT ![r].named = device[c] = "own", ![r].todo = Tail(@)]
     /\ UNCHANGED <<enabled, overdue, block, saved, sa, kill, taint, ops, fails>>

-----------------------------------------------------------------------------
(* The bot's commands.                                                     *)

\* cmd_deleteuser: every row that it collected, in one transaction.
FullSweep(r) ==
  LET c == Of(r) IN
  /\ At(r, "fullsweep") /\ ~Locked(c)
  /\ radcheck' = IF proc[r].named THEN [radcheck EXCEPT ![c] = None] ELSE radcheck
  /\ user' = IF SameUser(c, proc[r].id) THEN [user EXCEPT ![c] = None] ELSE user
  /\ IF SameRow(c, proc[r].id)
     THEN /\ device' = [device EXCEPT ![c] = "none"]
          /\ cust' = [cust EXCEPT ![c] = "absent"] /\ row' = [row EXCEPT ![c] = None]
     ELSE UNCHANGED <<device, cust, row>>
  /\ Go(r)
  /\ UNCHANGED <<enabled, overdue, block, saved, sa, kill, taint, ops, fails>>

\* cmd_cleanup_orphans: radcheck by the name, users by the id.
Retire(r) ==
  LET c == Of(r) IN
  /\ At(r, "retire") /\ ~Locked(c)
  /\ radcheck' = [radcheck EXCEPT ![c] = None]
  /\ user' = IF SameUser(c, proc[r].id) THEN [user EXCEPT ![c] = None] ELSE user
  /\ Go(r)
  /\ UNCHANGED <<cust, enabled, row, overdue, device, block, saved, sa, kill, taint, ops, fails>>

\* renew_orphan_core's transaction: a new customer for an old identity.
Reclaim(r) ==
  LET c == Of(r) IN
  /\ At(r, "reclaim") /\ ~Inserting(r) /\ ~Locked(c)
  /\ IF cust[c] # "absent"
     THEN Finish(r) /\ UNCHANGED <<cust, enabled, row, overdue, device, user, radcheck>>
     ELSE /\ cust' = [cust EXCEPT ![c] = "active"] /\ row' = [row EXCEPT ![c] = proc[r].pw]
          /\ enabled' = [enabled EXCEPT ![c] = TRUE] /\ overdue' = [overdue EXCEPT ![c] = FALSE]
          /\ device' = [device EXCEPT ![c] = "own"]
          /\ user' = [user EXCEPT ![c] = proc[r].pw]
          /\ radcheck' = [radcheck EXCEPT ![c] = proc[r].pw]
          /\ Go(r)
  /\ UNCHANGED <<block, saved, sa, kill, taint, ops, fails>>

\* The identity's old block goes before append_eap_block, which refuses to
\* write a second one; a failure is logged.
PreClean(r) ==
  /\ At(r, "preclean")
  /\ \/ block' = [block EXCEPT ![Of(r)] = None] /\ NoFailure
     \/ UNCHANGED block /\ Fail(Of(r))
  /\ Go(r)
  /\ UNCHANGED <<cust, enabled, row, overdue, device, user, radcheck, saved, sa, kill, ops>>

\* The worker is killed: what it committed stays, an open transaction is
\* rolled back, and nothing is cleaned up.
Killed(r) ==
  /\ proc[r] # Idle
  /\ Fail(Of(r))
  /\ Finish(r)
  /\ UNCHANGED <<stores, sa, kill, ops>>

-----------------------------------------------------------------------------
(* Requests of one transaction.                                            *)

Operated == ops < MaxOps /\ ops' = ops + 1

\* update_device: the users row keeps the old name.
Rename(c) ==
  /\ device[c] = "own" /\ ~Locked(c) /\ Operated
  /\ device' = [device EXCEPT ![c] = "renamed"]
  /\ Taint(c, "rename")
  /\ UNCHANGED <<cust, enabled, row, overdue, user, radcheck, block, saved, sa, proc, kill, fails>>

\* update_customer with a tier: expires_at counts from now again.
Renew(c) ==
  /\ cust[c] # "absent" /\ overdue[c] /\ ~Locked(c) /\ Operated
  /\ overdue' = [overdue EXCEPT ![c] = FALSE]
  /\ UNCHANGED <<cust, enabled, row, device, user, radcheck, block, saved, sa, proc, kill, taint, fails>>

\* cmd_renew: the status and the expiry; is_active stays, and so does radcheck,
\* where no user name begins with DISABLED-.
BotRenew(c) ==
  /\ cust[c] # "absent" /\ device[c] # "none" /\ ~Locked(c) /\ BotFree /\ Operated
  /\ cust[c] = "archived" \/ overdue[c]
  /\ cust' = [cust EXCEPT ![c] = "active"] /\ overdue' = [overdue EXCEPT ![c] = FALSE]
  /\ taint' = [taint EXCEPT ![c] = @ \cup (IF cust[c] = "archived" THEN {"renewed"} ELSE {})]
  /\ UNCHANGED <<enabled, row, device, user, radcheck, block, saved, sa, proc, kill, fails>>

\* cmd_disable, cmd_enable: is_active alone.
Switch(c) ==
  /\ cust[c] # "absent" /\ ~Locked(c) /\ BotFree /\ Operated
  /\ enabled' = [enabled EXCEPT ![c] = ~@]
  /\ UNCHANGED <<cust, row, overdue, device, user, radcheck, block, saved, sa, proc, kill, taint, fails>>

\* bulk_action.py archive and unarchive: the status alone.
BulkStatus(c) ==
  /\ cust[c] # "absent" /\ ~Locked(c) /\ Operated
  /\ cust' = [cust EXCEPT ![c] = IF @ = "active" THEN "archived" ELSE "active"]
  /\ enabled' = [enabled EXCEPT ![c] = cust[c] # "active"]
  /\ Taint(c, "bulk")
  /\ UNCHANGED <<row, overdue, device, user, radcheck, block, saved, sa, proc, kill, fails>>

-----------------------------------------------------------------------------
(* The quota monitor's _kill_expired_customers.                            *)

\* Mutant: customers that are connected are let finish.
SelectExpiredOffline ==
  LET found == {c \in Customers : cust[c] # "absent" /\ enabled[c] /\ overdue[c] /\ ~sa[c]} IN
  /\ kill = Quiet /\ found # {}
  /\ kill' = [Quiet EXCEPT !.at = "cut", !.todo = found, !.victims = found, !.ids = row,
                           !.known = found]
  /\ UNCHANGED <<stores, sa, proc, taint, ops, fails>>

\* Both conditions are tested here and never again: the transaction goes on
\* reading the snapshot that this first SELECT takes, users.name included.
SelectExpired ==
  LET found == {c \in Customers : cust[c] # "absent" /\ enabled[c] /\ overdue[c]} IN
  /\ kill = Quiet /\ found # {}
  /\ kill' = [Quiet EXCEPT !.at = "cut", !.todo = found, !.victims = found, !.ids = row,
                           !.known = {c \in found : user[c] # None}]
  /\ taint' = [c \in Customers |->
                 IF c \in found /\ \E r \in Requests : Of(r) = c /\ proc[r].op \in Writers
                 THEN taint[c] \cup {"overlap"} ELSE taint[c]]
  /\ UNCHANGED <<stores, sa, proc, ops, fails>>

\* send_dae_disconnect and terminate_customer_sas look the connection up by the
\* name they are given, which is users.name; their failures are logged only.
HangUp(c) ==
  \/ sa' = [sa EXCEPT ![c] = @ /\ c \notin kill.known] /\ NoFailure
  \/ UNCHANGED sa /\ Fail(c)

CutOff(c) ==
  /\ kill.at = "cut" /\ c \in kill.todo
  /\ kill' = [kill EXCEPT !.at = "unblock", !.now = c, !.todo = @ \ {c}]
  /\ HangUp(c)
  /\ UNCHANGED <<stores, proc, ops>>

\* Mutant: the secret is replaced by a marker and the block stays, as in
\* kill_customer_credentials.
UnblockMarking ==
  /\ kill.at = "unblock"
  /\ kill' = [kill EXCEPT !.at = IF kill.todo = {} THEN "commit" ELSE "cut", !.now = Nobody]
  /\ block' = [block EXCEPT ![kill.now] = IF @ = None THEN None ELSE Disabled]
  /\ UNCHANGED <<cust, enabled, row, overdue, device, user, radcheck, saved, sa, proc, ops>> /\ NoFailure

\* remove_customer_eap_blocks backs the file up and takes the block out; when
\* it fails there may be a backup, but the block stays.
Unblock ==
  LET c == kill.now
      backup == [d \in Customers |-> IF block[d] # None THEN block[d] ELSE saved[d]]
      found == c \in kill.known /\ block[c] # None
  IN /\ kill.at = "unblock"
     /\ kill' = [kill EXCEPT !.at = IF kill.todo = {} THEN "commit" ELSE "cut", !.now = Nobody]
     /\ \/ /\ saved' = IF found THEN backup ELSE saved
           /\ block' = IF found THEN [block EXCEPT ![c] = None] ELSE block
           /\ NoFailure
        \/ found /\ saved' \in {saved, backup} /\ UNCHANGED block /\ Fail(c)
     /\ UNCHANGED <<cust, enabled, row, overdue, device, user, radcheck, sa, proc, ops>>

\* Mutant: the RADIUS rows of the customer are left behind.
CommitKillForgetting ==
  LET gone == {c \in kill.victims : SameRow(c, kill.ids[c])} IN
  /\ kill.at = "commit"
  /\ device' = [c \in Customers |-> IF c \in gone THEN "none" ELSE device[c]]
  /\ cust' = [c \in Customers |-> IF c \in gone THEN "absent" ELSE cust[c]]
  /\ row' = [c \in Customers |-> IF c \in gone THEN None ELSE row[c]]
  /\ kill' = Quiet
  /\ UNCHANGED <<enabled, overdue, user, radcheck, block, saved, sa, proc, taint, ops, fails>>

\* The rows deleted and Locked since are gone, users rows excepted.
CommitKill ==
  LET gone == {c \in kill.victims : SameRow(c, kill.ids[c])} IN
  /\ kill.at = "commit"
  /\ radcheck' = [c \in Customers |-> IF c \in kill.known THEN None ELSE radcheck[c]]
  /\ device' = [c \in Customers |-> IF c \in gone THEN "none" ELSE device[c]]
  /\ cust' = [c \in Customers |-> IF c \in gone THEN "absent" ELSE cust[c]]
  /\ row' = [c \in Customers |-> IF c \in gone THEN None ELSE row[c]]
  /\ kill' = Quiet
  /\ UNCHANGED <<enabled, overdue, user, block, saved, sa, proc, taint, ops, fails>>

\* The daemon dies or loses the database: the transaction is rolled back.
KillAborted ==
  /\ kill # Quiet
  /\ fails < MaxFail /\ fails' = fails + 1
  /\ taint' = [c \in Customers |->
                 IF c \in kill.victims THEN taint[c] \cup {"failure"} ELSE taint[c]]
  /\ kill' = Quiet
  /\ UNCHANGED <<stores, sa, proc, ops>>

-----------------------------------------------------------------------------
(* The surroundings.                                                       *)

\* Time passes a customer's expires_at.
Expire(c) ==
  /\ cust[c] # "absent" /\ ~overdue[c]
  /\ overdue' = [overdue EXCEPT ![c] = TRUE]
  /\ UNCHANGED <<cust, enabled, row, device, user, radcheck, block, saved, sa, proc, kill, taint, ops, fails>>

\* charon's eap-radius: FreeRADIUS accepts the password of radcheck.
Connect(c) ==
  /\ ~sa[c] /\ radcheck[c] \in Passwords
  /\ sa' = [sa EXCEPT ![c] = TRUE]
  /\ UNCHANGED <<stores, proc, kill, taint, ops, fails>>

Disconnect(c) ==
  /\ sa[c]
  /\ sa' = [sa EXCEPT ![c] = FALSE]
  /\ UNCHANGED <<stores, proc, kill, taint, ops, fails>>

Step(r) ==
  \/ Insert(r) \/ Append_(r) \/ Commit(r) \/ Cleanup(r) \/ Reload(r) \/ SetUser(r)
  \/ ReplaceSecret(r) \/ WriteRadcheck(r) \/ SetStatus(r) \/ Disable(r)
  \/ DeleteUsers(r) \/ SweepOrphans(r) \/ DeleteDevices(r) \/ RemoveBlock(r)
  \/ PurgeRadcheck(r) \/ DeleteCustomer(r) \/ BulkDelete(r)
  \/ FullSweep(r) \/ Retire(r) \/ Reclaim(r) \/ PreClean(r)

KillStep == SelectExpired \/ (\E c \in Customers : CutOff(c)) \/ Unblock \/ CommitKill

Next ==
  \/ \E r \in Requests, c \in Customers : \E op \in Ops : Start(r, op, c)
  \/ \E r \in Requests : Step(r) \/ Killed(r)
  \/ \E c \in Customers : \/ "rename" \in Singles /\ Rename(c)
                          \/ "renew" \in Singles /\ Renew(c)
                          \/ "bulk" \in Singles /\ BulkStatus(c)
                          \/ "botrenew" \in Singles /\ BotRenew(c)
                          \/ "switch" \in Singles /\ Switch(c)
  \/ KillStep \/ KillAborted
  \/ \E c \in Customers : Expire(c) \/ Connect(c) \/ Disconnect(c)

\* run_daemon comes back every minute, a request runs to its end.
Spec == /\ Init /\ [][Next]_vars
        /\ WF_vars(KillStep) /\ \A r \in Requests : WF_vars(Step(r))

-----------------------------------------------------------------------------
(* Properties.                                                             *)

AtRest(c) == (\A r \in Requests : Of(r) # c) /\ c \notin kill.victims

\* A customer that is archived, deleted or expired is not let in again once
\* everybody is done with it, even if those operations, the kill and two
\* creations overlapped; a request that writes a password must not have.
NoOrphanAccess ==
  \A c \in Customers :
    AtRest(c) /\ taint[c] = {} /\ cust[c] # "active" => radcheck[c] \notin Passwords

\* An active customer has one password: portal login (users), RADIUS and
\* rw-eap.conf agree, and the device row is there.
OnePassword ==
  \A c \in Customers :
    AtRest(c) /\ taint[c] = {} /\ cust[c] = "active"
      => /\ radcheck[c] \in Passwords /\ user[c] = radcheck[c] /\ block[c] = radcheck[c]
         /\ device[c] = "own"

\* A customer that is gone leaves no block in rw-eap.conf and no device.
NoLitter ==
  \A c \in Customers :
    AtRest(c) /\ taint[c] = {} /\ cust[c] = "absent" => block[c] = None /\ device[c] = "none"

\* A customer with is_active=1 that is overdue is deleted, unless it is renewed,
\* archived or disabled first: an aborted or half-done kill is done again.
ExpiredGoes ==
  \A c \in Customers :
    enabled[c] /\ cust[c] # "absent" /\ overdue[c]
      ~> ~enabled[c] \/ cust[c] = "absent" \/ ~overdue[c]

\* host/vpn-portal/app.py:2864 "HARD delete. Cascades: devices, [...] EAP secret
\* from rw-eap.conf": nobody can log in as a customer whose delete went through.
DeleteRevokes ==
  [][\A r \in Requests : At(r, "customer") /\ proc'[r] = Idle /\ fails' = fails
       => radcheck[Of(r)] \notin Passwords /\ block[Of(r)] = None]_vars

\* quota/quota-monitor.py:776-779 revokes the credentials (1, 2) before it cuts
\* the connection (3, 4): no expired customer is connected when the kill ends.
KillDisconnects ==
  [][kill.at = "commit" /\ kill' = Quiet /\ fails' = fails
       => \A c \in kill.victims : ~sa[c]]_vars
=============================================================================
