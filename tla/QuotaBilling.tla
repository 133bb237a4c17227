---------------------------- MODULE QuotaBilling ----------------------------
(***************************************************************************)
(* The data-accounting half of one quota-monitor iteration                 *)
(* (src/quota/quota-monitor.py): leases are listed, the two nft meters are *)
(* sampled, the deltas against the sidecar file's baselines are added to   *)
(* customers.data_used_bytes in one transaction, and the sidecar is        *)
(* rewritten.  Around it run charon, the clients' traffic, firewall        *)
(* reloads, the portal's reset_quota, and crashes of the daemon or host.   *)
(*                                                                         *)
(* The DB column is split by the VIP whose bytes it counts: the column of  *)
(* customer c is the sum of used[c][v] over v (DataUsed).                  *)
(***************************************************************************)
EXTENDS Integers

CONSTANTS Customers,     \* rows of `customers`
          Operators,     \* those with is_operator = 1
          Vips,          \* addresses of the charon pool
          Unmapped,      \* any EAP identity without a customer (legacy EAP)
          Nobody,        \* no holder, no sidecar key, no reset in progress
          MaxBytes,      \* bound: bytes a VIP's holders send in all
          MaxDisturb     \* bound: crashes, failures, restarts, resets

ASSUME OperatorsAreCustomers == Operators \subseteq Customers
ASSUME HoldersDistinct ==
         Unmapped # Nobody /\ Unmapped \notin Customers /\ Nobody \notin Customers
ASSUME BoundsAreNaturals == MaxBytes \in Nat /\ MaxDisturb \in Nat

VARIABLES
  holder,    \* the identity charon last gave each VIP to
  leased,    \* whether the pool lists a lease (online or offline) for it
  meter,     \* bytes in nft's client_src / client_dst element of each VIP
  status,    \* "active", "suspended" (is_active = 0) or "deleted"
  used,      \* customers.data_used_bytes, split by VIP
  sidecar,   \* /var/run/quota-monitor.session: baseline and its customer
  torn,      \* the sidecar is the empty file an open('w') leaves behind
  pc,        \* where the daemon's iteration stands
  lease,     \* the iteration's copy of the lease list
  seen,      \* the iteration's meter samples
  failed,    \* the meters whose `nft list meter` failed in this iteration
  delta,     \* the iteration's uncommitted UPDATEs
  fresh,     \* new_totals: the sidecar about to be written
  barred,    \* history: the leases' customers not billable since they were read
  reset,     \* the customer whose reset_quota has not yet removed the sidecar
  carried,   \* history: bytes c moved on v and that may be counted in `used`
  anomaly,   \* history: the events after which over-billing is possible
  disturbed  \* history: how many disturbances happened

charonVars == <<holder, leased>>
daemonVars == <<pc, lease, seen, failed, delta, fresh, barred>>
fileVars   == <<sidecar, torn>>
histVars   == <<anomaly, disturbed>>
vars == <<charonVars, meter, status, used, fileVars, daemonVars, reset,
          carried, histVars>>

Dirs    == {"src", "dst"}
Holders == Customers \cup {Unmapped, Nobody}
Entries == [cust : Customers \cup {Nobody}, base : Nat]
NoEntry == [cust |-> Nobody, base |-> 0]
Steps   == {"idle", "src", "dst", "load", "update", "commit", "save", "write", "tail"}
Status  == {"active", "suspended", "deleted"}
Events  == {"half_read", "crash_unsaved", "remap"}

Total(m, v) == m[v]["src"] + m[v]["dst"]
NoLeases    == [v \in Vips |-> Nobody]
NoBytes     == [v \in Vips |-> 0]
EmptyMeter  == [v \in Vips |-> [d \in Dirs |-> 0]]
EmptyFile   == [v \in Vips |-> NoEntry]

TypeOK ==
  /\ holder \in [Vips -> Holders]
  /\ leased \in [Vips -> BOOLEAN]
  /\ meter \in [Vips -> [Dirs -> Nat]]
  /\ status \in [Customers -> Status]
  /\ used \in [Customers -> [Vips -> Nat]]
  /\ sidecar \in [Vips -> Entries]
  /\ torn \in BOOLEAN
  /\ pc \in Steps
  /\ lease \in [Vips -> Holders]
  /\ seen \in [Vips -> [Dirs -> Nat]]
  /\ failed \subseteq Dirs
  /\ delta \in [Vips -> Nat]
  /\ fresh \in [Vips -> Entries]
  /\ barred \subseteq Customers
  /\ reset \in Customers \cup {Nobody}
  /\ carried \in [Customers -> [Vips -> Nat]]
  /\ anomaly \subseteq Events
  /\ disturbed \in Nat

Init ==
  /\ holder = NoLeases
  /\ leased = [v \in Vips |-> FALSE]
  /\ meter = EmptyMeter
  /\ status = [c \in Customers |-> "active"]
  /\ used = [c \in Customers |-> NoBytes]
  /\ sidecar = EmptyFile
  /\ torn = FALSE
  /\ pc = "idle"
  /\ lease = NoLeases
  /\ seen = EmptyMeter
  /\ failed = {}
  /\ delta = NoBytes
  /\ fresh = EmptyFile
  /\ barred = {}
  /\ reset = Nobody
  /\ carried = [c \in Customers |-> NoBytes]
  /\ anomaly = {}
  /\ disturbed = 0

Disturb == disturbed < MaxDisturb /\ disturbed' = disturbed + 1

-----------------------------------------------------------------------------
(* The surroundings: charon, the clients, the firewall, the portal.        *)

\* Is customer c's meter baseline of v still in use somewhere?
LiveBaseline(c, v) == sidecar[v].cust = c \/ (pc # "idle" /\ lease[v] = c)

\* charon hands an unleased VIP to an identity.  Two hand-overs mislead the
\* daemon: back to a customer whose old baseline survived another holder,
\* and to anyone while an iteration is sampling for the previous holder.
Remapped(v, h) ==
  \/ holder[v] # h /\ h \in Customers /\ LiveBaseline(h, v)
  \/ pc \in Dirs /\ lease[v] \in Customers \ {h}

Assign(v, h) ==
  /\ ~leased[v]
  /\ leased' = [leased EXCEPT ![v] = TRUE]
  /\ holder' = [holder EXCEPT ![v] = h]
  /\ anomaly' = IF Remapped(v, h) THEN anomaly \cup {"remap"} ELSE anomaly
  /\ UNCHANGED <<meter, status, used, fileVars, daemonVars, reset, carried,
                 disturbed>>

\* The container restarts: the in-memory pool forgets every lease.
CharonRestart ==
  /\ \E v \in Vips : leased[v]
  /\ Disturb
  /\ leased' = [v \in Vips |-> FALSE]
  /\ UNCHANGED <<holder, meter, status, used, fileVars, daemonVars, reset,
                 carried, anomaly>>

\* The VIP's holder sends or receives a byte.
Traffic(v, d) ==
  /\ leased[v]
  /\ Total(meter, v) < MaxBytes
  /\ \A c \in Customers : carried[c][v] < MaxBytes
  /\ meter' = [meter EXCEPT ![v][d] = @ + 1]
  /\ carried' = IF holder[v] \in Customers
                THEN [carried EXCEPT ![holder[v]][v] = @ + 1]
                ELSE carried
  /\ UNCHANGED <<charonVars, status, used, fileVars, daemonVars, reset, histVars>>

\* nftables is reloaded: both meters lose their elements.
FirewallReload ==
  /\ meter # EmptyMeter
  /\ Disturb
  /\ meter' = EmptyMeter
  /\ UNCHANGED <<charonVars, status, used, fileVars, daemonVars, reset, carried,
                 anomaly>>

\* An uncommitted UPDATE of the daemon holds the row lock of c.
RowLocked(c) == pc = "commit" /\ \E v \in Vips : lease[v] = c /\ delta[v] > 0

\* The portal archives, unarchives or deletes the customer, never an operator.
SetStatus(c, s) ==
  /\ c \notin Operators
  /\ status[c] \notin {s, "deleted"}
  /\ ~RowLocked(c)
  /\ status' = [status EXCEPT ![c] = s]
  /\ barred' = IF s = "active" THEN barred \ {c} ELSE barred
  /\ UNCHANGED <<charonVars, meter, used, fileVars, pc, lease, seen, failed, delta,
                 fresh, reset, carried, histVars>>

\* reset_quota, its first statement: data_used_bytes = 0.
ResetDb(c) ==
  /\ reset = Nobody
  /\ status[c] # "deleted"
  /\ ~RowLocked(c)
  /\ Disturb
  /\ used' = [used EXCEPT ![c] = NoBytes]
  /\ carried' = [carried EXCEPT ![c] = [v \in Vips |->
                   IF used[c][v] <= carried[c][v]
                   THEN carried[c][v] - used[c][v] ELSE 0]]
  /\ reset' = c
  /\ UNCHANGED <<charonVars, meter, status, fileVars, daemonVars, anomaly>>

\* reset_quota, its last remote step: rm -f of the sidecar, which may fail.
ResetSidecar ==
  /\ reset # Nobody
  /\ reset' = Nobody
  /\ \/ sidecar' = EmptyFile /\ torn' = FALSE
     \/ UNCHANGED fileVars
  /\ UNCHANGED <<charonVars, meter, status, used, daemonVars, carried, histVars>>

-----------------------------------------------------------------------------
(* One iteration of QuotaMonitor.run_once.                                 *)

\* The iteration is over, or an exception left it: run_daemon logs it,
\* the open transaction is rolled back and nothing of it survives.
EndIteration ==
  /\ pc' = "idle"
  /\ lease' = NoLeases /\ seen' = EmptyMeter /\ failed' = {}
  /\ delta' = NoBytes /\ fresh' = EmptyFile /\ barred' = {}

\* Mutant: is_active is not looked at.
BillableIgnoringStatus(c) == c \notin Operators

\* Operators and suspended customers are re-baselined, never billed.
Billable(c) == c \notin Operators /\ status[c] = "active"

\* History: who must not be billed, among the holders of the leases.
Barred(leases) ==
  {c \in Customers : (c \in Operators \/ status[c] # "active") /\ \E v \in Vips : leases[v] = c}

\* Mutant: an empty pool ends the iteration at once, before its tail.
ReadLeasesOrReturn ==
  /\ pc = "idle"
  /\ \E v \in Vips : leased[v]
  /\ lease' = [v \in Vips |-> IF leased[v] THEN holder[v] ELSE Nobody]
  /\ pc' = "src"
  /\ barred' = Barred(lease')
  /\ UNCHANGED <<charonVars, meter, status, used, fileVars, seen, failed, delta,
                 fresh, reset, carried, histVars>>

\* list_pool_leases: offline leases count; a failing swanctl looks like an
\* empty pool.  Without leases the sidecar is overwritten with {}.
ReadLeases ==
  /\ pc = "idle"
  /\ \/ /\ lease' = [v \in Vips |-> IF leased[v] THEN holder[v] ELSE Nobody]
        /\ UNCHANGED disturbed
     \/ lease' = NoLeases /\ Disturb
  /\ pc' = IF lease' = NoLeases THEN "save" ELSE "src"
  /\ barred' = Barred(lease')
  /\ UNCHANGED <<charonVars, meter, status, used, fileVars, seen, failed, delta,
                 fresh, reset, carried, anomaly>>

\* sample_counters reads client_src, then client_dst; a failing read of one
\* of them returns {} and the other one's bytes are used alone.
SampleMeter(d) ==
  /\ pc = d
  /\ \/ /\ seen' = [v \in Vips |-> [seen[v] EXCEPT ![d] = meter[v][d]]]
        /\ UNCHANGED <<failed, disturbed>>
     \/ /\ failed' = failed \cup {d}
        /\ Disturb
        /\ UNCHANGED seen
  /\ pc' = IF d = "src" THEN "dst" ELSE "load"
  /\ UNCHANGED <<charonVars, meter, status, used, fileVars, lease, delta, fresh,
                 reset, carried, anomaly, barred>>

\* A lease that reaches the arithmetic: its VIP has a meter element and its
\* identity has a customer row (lookup_customer_for_username).
Mapped(v) == Total(seen, v) > 0 /\ lease[v] \in Customers /\ status[lease[v]] # "deleted"

\* Mutants: a first observation bills the whole meter; the difference is not
\* clamped when the meter went backwards.
OwedUnclamped(v) ==
  IF sidecar[v].cust = lease[v] THEN Total(seen, v) - sidecar[v].base ELSE 0
OwedFromFirstSight(v) ==
  LET base == IF sidecar[v].cust = lease[v] THEN sidecar[v].base ELSE 0
  IN IF Total(seen, v) > base THEN Total(seen, v) - base ELSE 0

\* The bytes to add for a lease: nothing on the first observation of this
\* (customer, VIP) pair nor when the meter went backwards.
Owed(v) ==
  IF sidecar[v].cust = lease[v] /\ Total(seen, v) > sidecar[v].base
  THEN Total(seen, v) - sidecar[v].base
  ELSE 0

\* Mutant: a meter that went backwards keeps its old baseline.
NewEntryKeepingMax(v) ==
  [cust |-> lease[v],
   base |-> IF sidecar[v].cust = lease[v] /\ sidecar[v].base > Total(seen, v)
            THEN sidecar[v].base ELSE Total(seen, v)]

\* new_totals: leases skipped by the loop lose their baseline.
NewEntry(v) == [cust |-> lease[v], base |-> Total(seen, v)]

\* The per-lease loop.  The first lookup of a customer takes the snapshot that
\* the transaction's other lookups read.  Both meters empty: accounting is
\* skipped.  A torn sidecar makes json.loads raise, a lost database too.
ComputeDeltas ==
  /\ pc = "load"
  /\ \E v \in Vips : Total(seen, v) > 0
  /\ ~torn
  /\ delta' = [v \in Vips |-> IF Mapped(v) /\ Billable(lease[v]) THEN Owed(v) ELSE 0]
  /\ fresh' = [v \in Vips |-> IF Mapped(v) THEN NewEntry(v) ELSE NoEntry]
  /\ anomaly' = IF failed # {} THEN anomaly \cup {"half_read"} ELSE anomaly
  /\ pc' = "update"
  /\ UNCHANGED <<charonVars, meter, status, used, fileVars, lease, seen, failed,
                 reset, carried, disturbed, barred>>

SkipAccounting ==
  /\ pc = "load"
  /\ \A v \in Vips : Total(seen, v) = 0
  /\ pc' = "tail"
  /\ barred' = {}
  /\ UNCHANGED <<charonVars, meter, status, used, fileVars, lease, seen, failed,
                 delta, fresh, reset, carried, histVars>>

UnreadableSidecar ==
  /\ pc = "load"
  /\ \E v \in Vips : Total(seen, v) > 0
  /\ torn
  /\ EndIteration
  /\ UNCHANGED <<charonVars, meter, status, used, fileVars, reset, carried, histVars>>

DatabaseError ==
  /\ pc \in {"load", "update", "commit"}
  /\ Disturb
  /\ EndIteration
  /\ UNCHANGED <<charonVars, meter, status, used, fileVars, reset, carried, anomaly>>

\* update_used_bytes: a status may have changed since the lookup, but cannot
\* any more until the commit.
UpdateRows ==
  /\ pc = "update"
  /\ pc' = "commit"
  /\ UNCHANGED <<charonVars, meter, status, used, fileVars, lease, seen, failed,
                 delta, fresh, reset, carried, histVars, barred>>

\* db.commit(); the UPDATE of a deleted customer matches no row.
Commit ==
  /\ pc = "commit"
  /\ used' = [c \in Customers |-> [v \in Vips |->
                IF lease[v] = c /\ status[c] # "deleted"
                THEN used[c][v] + delta[v] ELSE used[c][v]]]
  /\ pc' = "save"
  /\ barred' = {}
  /\ UNCHANGED <<charonVars, meter, status, fileVars, lease, seen, failed, delta,
                 fresh, reset, carried, histVars>>

\* _save_session, write_text: open('w') truncates ...
TruncateSidecar ==
  /\ pc = "save"
  /\ sidecar' = EmptyFile
  /\ torn' = TRUE
  /\ pc' = "write"
  /\ UNCHANGED <<charonVars, meter, status, used, lease, seen, failed, delta, fresh,
                 reset, carried, histVars, barred>>

\* ... and the write fills the file, unless reset_quota unlinked it meanwhile.
WriteSidecar ==
  /\ pc = "write"
  /\ sidecar' = IF torn THEN fresh ELSE sidecar
  /\ torn' = FALSE
  /\ pc' = "tail"
  /\ UNCHANGED <<charonVars, meter, status, used, lease, seen, failed, delta, fresh,
                 reset, carried, histVars, barred>>

\* Session tracking and the kill of expired customers run last.
FinishIteration ==
  /\ pc = "tail"
  /\ EndIteration
  /\ UNCHANGED <<charonVars, meter, status, used, fileVars, reset, carried, histVars>>

\* The daemon is killed in mid-iteration.  Between commit and save the bytes
\* are in the database while the sidecar still has the old baseline.
Crash ==
  /\ pc # "idle"
  /\ Disturb
  /\ EndIteration
  /\ anomaly' = IF pc = "save" /\ delta # NoBytes
                THEN anomaly \cup {"crash_unsaved"} ELSE anomaly
  /\ UNCHANGED <<charonVars, meter, status, used, fileVars, reset, carried>>

\* The host reboots: leases, meters and the tmpfs file go with the daemon.
Reboot ==
  /\ Disturb
  /\ EndIteration
  /\ leased' = [v \in Vips |-> FALSE]
  /\ meter' = EmptyMeter
  /\ sidecar' = EmptyFile
  /\ torn' = FALSE
  /\ UNCHANGED <<holder, status, used, reset, carried, anomaly>>

Iteration ==
  \/ ReadLeases
  \/ SampleMeter("src")
  \/ SampleMeter("dst")
  \/ ComputeDeltas
  \/ UpdateRows
  \/ SkipAccounting
  \/ UnreadableSidecar
  \/ Commit
  \/ TruncateSidecar
  \/ WriteSidecar
  \/ FinishIteration

Surroundings ==
  \/ \E v \in Vips, h \in Customers \cup {Unmapped} : Assign(v, h)
  \/ CharonRestart
  \/ \E v \in Vips, d \in Dirs : Traffic(v, d)
  \/ FirewallReload
  \/ \E c \in Customers, s \in Status : SetStatus(c, s)
  \/ \E c \in Customers : ResetDb(c)
  \/ ResetSidecar

Next == Iteration \/ DatabaseError \/ Crash \/ Reboot \/ Surroundings

\* run_daemon loops for ever: each step of an iteration is taken eventually.
Spec == Init /\ [][Next]_vars /\ WF_vars(Iteration)

-----------------------------------------------------------------------------
(* Properties.                                                             *)

\* A customer is never billed for more bytes than its own devices moved,
\* whatever the order of traffic, sampling, commits, reloads, resets and
\* crashes, as long as none of three events happened: one meter unreadable
\* while the other was read, a crash between commit and sidecar, a VIP
\* re-given under a live baseline (src/quota/quota-monitor.py run_once).
NoOverBilling ==
  anomaly = {} => \A c \in Customers, v \in Vips : used[c][v] <= carried[c][v]

\* The iteration, the crashes and the resets implement the ledger that
\* MeteredLedger promises; the three events are what excuses it.  A customer's
\* count never falls but by a reset.
Ledger == INSTANCE MeteredLedger WITH excused <- (anomaly # {})
ImplementsLedger == Ledger!Spec

\* Whoever is suspended, deleted or an operator from the moment an iteration
\* lists the leases is charged nothing by it, although the status is looked up
\* in the middle and the rows are updated and committed later still.
BillsOnlyBillable ==
  [][\A c \in Customers :
       (\E v \in Vips : used'[c][v] > used[c][v]) => c \notin barred]_vars

\* Once an active customer keeps its lease, its baseline catches up with the
\* meter again and again, so its bytes reach the database, unless iterations
\* keep starting from a torn sidecar.
TornAtRest == torn /\ pc = "idle"
Steady(c, v) == leased[v] /\ holder[v] = c /\ Billable(c) /\ Total(meter, v) > 0
CatchesUp ==
  \A c \in Customers, v \in Vips :
    <>[]Steady(c, v)
      => []<>(TornAtRest \/ sidecar[v] = [cust |-> c, base |-> Total(meter, v)])

\* Nothing but a torn sidecar keeps iterations from reaching their tail,
\* where expired customers are cut off.
OnlyTornStops == []<>(pc = "tail" \/ TornAtRest)
=============================================================================
