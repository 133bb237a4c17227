------------------------ MODULE QuotaBillingProofs ------------------------
(***************************************************************************)
(* Type correctness of the accounting, and: without the three anomalies no *)
(* customer is billed for more than it moved, and the accounting           *)
(* implements MeteredLedger, for any number of customers, VIPs, bytes and  *)
(* disturbances.                                                           *)
(*                                                                         *)
(* The argument: a baseline b of (c, v) is Safe when billing everything    *)
(* the meter shows above it would not bill more than c moved.  Every       *)
(* baseline the sidecar holds or an iteration is about to write is Safe    *)
(* while c holds v, and a pending delta fits under what c moved.           *)
(***************************************************************************)
EXTENDS QuotaBilling, TLAPS

Safe(c, v, b) == used[c][v] + Total(meter, v) <= carried[c][v] + b

\* Before its deltas are computed an iteration has nothing to write, and it
\* only ever writes baselines of the leases it has read.
Shape ==
  /\ pc \in {"idle", "src", "dst", "load"} => delta = NoBytes /\ fresh = EmptyFile
  /\ \A v \in Vips : fresh[v].cust \in {lease[v], Nobody}

\* The file's baseline is safe, but between a commit and the save.
FileSafe(c, v) ==
  /\ sidecar[v].cust = c /\ holder[v] = c
  /\ ~(pc = "save" /\ delta[v] > 0)
  => Safe(c, v, sidecar[v].base)

SamplingSafe(c, v) ==
  lease[v] = c =>
    /\ pc \in Dirs => holder[v] = c
    /\ pc = "dst" /\ failed = {} =>
         /\ used[c][v] + meter[v]["src"] <= carried[c][v] + seen[v]["src"]
         /\ sidecar[v].cust = c =>
              used[c][v] + seen[v]["src"] + meter[v]["dst"]
                <= carried[c][v] + sidecar[v].base
    /\ pc = "load" /\ failed = {} =>
         /\ holder[v] = c => Safe(c, v, Total(seen, v))
         /\ sidecar[v].cust = c =>
              used[c][v] + Total(seen, v) <= carried[c][v] + sidecar[v].base

PendingSafe(c, v) ==
  /\ pc \in {"update", "commit"} /\ lease[v] = c =>
       /\ used[c][v] + delta[v] <= carried[c][v]
       /\ fresh[v].cust = c /\ holder[v] = c =>
            used[c][v] + delta[v] + Total(meter, v) <= carried[c][v] + fresh[v].base
  /\ pc \in {"save", "write"} /\ fresh[v].cust = c /\ holder[v] = c =>
       Safe(c, v, fresh[v].base)

Sound ==
  \A c \in Customers, v \in Vips :
    /\ used[c][v] <= carried[c][v]
    /\ FileSafe(c, v)
    /\ SamplingSafe(c, v)
    /\ PendingSafe(c, v)

IInv == TypeOK /\ Shape /\ (anomaly = {} => Sound)

-----------------------------------------------------------------------------
\* The values that a restart, a reload or the end of an iteration resets the
\* lease list, the meters, the deltas and the sidecar to have their types.
LEMMA EmptiesTyped ==
  /\ NoLeases \in [Vips -> Holders]
  /\ NoBytes \in [Vips -> Nat]
  /\ EmptyMeter \in [Vips -> [Dirs -> Nat]]
  /\ EmptyFile \in [Vips -> Entries]
  BY DEF NoLeases, NoBytes, EmptyMeter, EmptyFile, Holders, Entries, NoEntry

\* A freshly booted host with an empty sidecar is well typed.
LEMMA InitTypeOK == Init => TypeOK
<1>. SUFFICES ASSUME Init PROVE TypeOK
  OBVIOUS
<1>1. /\ leased \in [Vips -> BOOLEAN]
      /\ status \in [Customers -> Status]
      /\ used \in [Customers -> [Vips -> Nat]]
      /\ carried \in [Customers -> [Vips -> Nat]]
  BY EmptiesTyped DEF Init, Status
<1>. QED
  BY <1>1, EmptiesTyped DEF Init, TypeOK, Steps

\* Every step of the daemon and of its surroundings keeps the types: no counter
\* becomes negative, no sidecar entry names somebody who is no customer.
LEMMA StepTypeOK == TypeOK /\ [Next]_vars => TypeOK'
<1>. SUFFICES ASSUME TypeOK, [Next]_vars PROVE TypeOK'
  OBVIOUS
<1>. USE HoldersDistinct, OperatorsAreCustomers, BoundsAreNaturals
     DEF TypeOK, Holders, Entries, NoEntry, Steps, Status, Events, Dirs
<1>. USE DEF charonVars, daemonVars, fileVars, histVars
<1>1. ASSUME NEW v \in Vips, NEW h \in Customers \cup {Unmapped}, Assign(v, h)
      PROVE  TypeOK'
  BY <1>1 DEF Assign, Remapped
<1>2. CASE CharonRestart
  BY <1>2 DEF CharonRestart, Disturb
<1>3. ASSUME NEW v \in Vips, NEW d \in Dirs, Traffic(v, d)
      PROVE  TypeOK'
  BY <1>3 DEF Traffic
<1>4. CASE FirewallReload
  BY <1>4 DEF FirewallReload, EmptyMeter, Disturb
<1>5. ASSUME NEW c \in Customers, NEW s \in Status, SetStatus(c, s)
      PROVE  TypeOK'
  BY <1>5 DEF SetStatus
<1>6. ASSUME NEW c \in Customers, ResetDb(c)
      PROVE  TypeOK'
  <2>. DEFINE left == [v \in Vips |-> IF used[c][v] <= carried[c][v]
                                      THEN carried[c][v] - used[c][v] ELSE 0]
  <2>1. left \in [Vips -> Nat]
    OBVIOUS
  <2>2. carried' \in [Customers -> [Vips -> Nat]]
    BY <1>6, <2>1 DEF ResetDb
  <2>3. used' \in [Customers -> [Vips -> Nat]]
    BY <1>6, EmptiesTyped DEF ResetDb
  <2>. QED
    BY <1>6, <2>2, <2>3 DEF ResetDb, Disturb
<1>7. CASE ResetSidecar
  BY <1>7, EmptiesTyped DEF ResetSidecar
<1>8. CASE ReadLeases
  BY <1>8 DEF ReadLeases, Barred, NoLeases, Disturb
<1>9. ASSUME NEW d \in Dirs, SampleMeter(d)
      PROVE  TypeOK'
  <2>1. seen' \in [Vips -> [Dirs -> Nat]]
    BY <1>9 DEF SampleMeter
  <2>2. failed' \subseteq Dirs
    BY <1>9 DEF SampleMeter
  <2>. QED
    BY <1>9, <2>1, <2>2 DEF SampleMeter, Disturb
<1>10. CASE ComputeDeltas
  BY <1>10 DEF ComputeDeltas, Mapped, Owed, NewEntry, Total
<1>11. CASE SkipAccounting
  BY <1>11 DEF SkipAccounting
<1>12. CASE UnreadableSidecar
  BY <1>12, EmptiesTyped DEF UnreadableSidecar, EndIteration
<1>13. CASE DatabaseError
  BY <1>13, EmptiesTyped DEF DatabaseError, EndIteration, Disturb
<1>14. CASE Commit
  BY <1>14 DEF Commit
<1>21. CASE UpdateRows
  BY <1>21 DEF UpdateRows
<1>15. CASE TruncateSidecar
  BY <1>15 DEF TruncateSidecar, EmptyFile
<1>16. CASE WriteSidecar
  BY <1>16 DEF WriteSidecar
<1>17. CASE FinishIteration
  BY <1>17, EmptiesTyped DEF FinishIteration, EndIteration
<1>18. CASE Crash
  <2>1. anomaly' \subseteq Events /\ disturbed' \in Nat
    BY <1>18 DEF Crash, Disturb
  <2>. QED
    BY <1>18, <2>1, EmptiesTyped DEF Crash, EndIteration
<1>19. CASE Reboot
  <2>1. leased' \in [Vips -> BOOLEAN] /\ disturbed' \in Nat
    BY <1>19 DEF Reboot, Disturb
  <2>. QED
    BY <1>19, <2>1, EmptiesTyped DEF Reboot, EndIteration
<1>20. CASE UNCHANGED vars
  BY <1>20 DEF vars
<1>. QED
  BY <1>1, <1>2, <1>3, <1>4, <1>5, <1>6, <1>7, <1>8, <1>9, <1>10, <1>11, <1>12,
     <1>13, <1>14, <1>15, <1>16, <1>17, <1>18, <1>19, <1>20, <1>21
  DEF Next, Iteration, Surroundings

\* Type correctness of every behaviour of the accounting.
THEOREM TypeCorrect == Spec => []TypeOK
<1>. QED
  BY InitTypeOK, StepTypeOK, PTL DEF Spec

-----------------------------------------------------------------------------
\* An idle daemon has nothing to write.
LEMMA InitShape == Init => Shape
  BY DEF Init, Shape, EmptyFile, NoEntry

\* run_once keeps its local variables in order: deltas and new baselines appear
\* with the per-lease loop, for leases it read, and go with the iteration.
LEMMA StepShape == TypeOK /\ Shape /\ [Next]_vars => Shape'
<1>. SUFFICES ASSUME TypeOK, Shape, [Next]_vars PROVE Shape'
  OBVIOUS
<1>. USE DEF Shape, charonVars, daemonVars, fileVars, histVars
<1>1. CASE ReadLeases
  BY <1>1 DEF ReadLeases, EmptyFile, NoEntry
<1>2. ASSUME NEW d \in Dirs, SampleMeter(d) PROVE Shape'
  BY <1>2 DEF SampleMeter, Dirs
<1>3. CASE ComputeDeltas
  BY <1>3 DEF ComputeDeltas, NewEntry, NoEntry
<1>4. CASE SkipAccounting
  BY <1>4 DEF SkipAccounting
<1>5. CASE EndIteration
  BY <1>5 DEF EndIteration, EmptyFile, NoEntry
<1>6. CASE Commit
  BY <1>6 DEF Commit
<1>11. CASE UpdateRows
  BY <1>11 DEF UpdateRows
<1>7. CASE TruncateSidecar
  BY <1>7 DEF TruncateSidecar
<1>8. CASE WriteSidecar
  BY <1>8 DEF WriteSidecar
<1>9. CASE UNCHANGED <<pc, lease, seen, failed, delta, fresh>>
  BY <1>9
<1>10. Surroundings => UNCHANGED <<pc, lease, seen, failed, delta, fresh>>
  BY DEF Surroundings, Assign, CharonRestart, Traffic, FirewallReload, SetStatus,
         ResetDb, ResetSidecar
<1>. QED
  BY <1>1, <1>2, <1>3, <1>4, <1>5, <1>6, <1>7, <1>8, <1>9, <1>10, <1>11
  DEF Next, Iteration, UnreadableSidecar, DatabaseError, FinishIteration, Crash,
      Reboot, vars, Dirs

\* Before any byte has moved no baseline can over-bill.
LEMMA InitSound == Init => Sound
  BY HoldersDistinct DEF Init, Sound, FileSafe, SamplingSafe, PendingSafe, Safe, Dirs, NoBytes,
         EmptyFile, NoEntry, NoLeases

\* The history of anomalies only grows.
LEMMA AnomalyGrows == [Next]_vars /\ anomaly' = {} => anomaly = {}
  BY DEF Next, vars, Iteration, Surroundings, Assign, CharonRestart, Traffic,
         FirewallReload, SetStatus, ResetDb, ResetSidecar, ReadLeases, SampleMeter,
         ComputeDeltas, UpdateRows, SkipAccounting, UnreadableSidecar, DatabaseError, Commit,
         TruncateSidecar, WriteSidecar, FinishIteration, Crash, Reboot, histVars

\* A step that is none of the three anomalies keeps every baseline safe and every
\* pending delta covered by what its customer moved.
LEMMA StepSound ==
  ASSUME TypeOK, TypeOK', Shape, Sound, [Next]_vars, anomaly' = {}
  PROVE  Sound'
<1>. SUFFICES ASSUME NEW c \in Customers, NEW v \in Vips
              PROVE  /\ used'[c][v] <= carried'[c][v]
                     /\ FileSafe(c, v)'
                     /\ SamplingSafe(c, v)'
                     /\ PendingSafe(c, v)'
  BY DEF Sound
<1>t. /\ used[c][v] \in Nat /\ carried[c][v] \in Nat
      /\ meter[v]["src"] \in Nat /\ meter[v]["dst"] \in Nat
      /\ seen[v]["src"] \in Nat /\ seen[v]["dst"] \in Nat
      /\ delta[v] \in Nat /\ sidecar[v].base \in Nat /\ fresh[v].base \in Nat
      /\ sidecar[v].cust \in Customers \cup {Nobody}
  BY DEF TypeOK, Dirs, Entries
<1>s. /\ used[c][v] <= carried[c][v]
      /\ FileSafe(c, v) /\ SamplingSafe(c, v) /\ PendingSafe(c, v)
  BY DEF Sound
<1>h. fresh[v].cust \in {lease[v], Nobody} /\ c # Nobody /\ c # Unmapped
  BY HoldersDistinct DEF Shape
<1>. USE <1>t, <1>s, <1>h DEF FileSafe, SamplingSafe, PendingSafe, Safe, Total
<1>. USE DEF charonVars, daemonVars, fileVars, histVars
<1>1. ASSUME NEW w \in Vips, NEW h \in Customers \cup {Unmapped}, Assign(w, h)
      PROVE  /\ used'[c][v] <= carried'[c][v] /\ FileSafe(c, v)'
             /\ SamplingSafe(c, v)' /\ PendingSafe(c, v)'
  <2>1. ~Remapped(w, h)
    BY <1>1 DEF Assign
  <2>2. CASE w # v
    BY <1>1, <2>2 DEF Assign, TypeOK
  <2>3. CASE w = v /\ h # c
    BY <1>1, <2>1, <2>3 DEF Assign, TypeOK, Remapped, Dirs
  <2>4. CASE w = v /\ h = c /\ holder[v] = c
    BY <1>1, <2>4 DEF Assign, TypeOK
  <2>5. CASE w = v /\ h = c /\ holder[v] # c
    <3>1. sidecar[v].cust # c /\ (pc = "idle" \/ lease[v] # c)
      BY <2>1, <2>5 DEF Remapped, LiveBaseline
    <3>. QED
      BY <1>1, <2>5, <3>1 DEF Assign, TypeOK
  <2>. QED
    BY <2>2, <2>3, <2>4, <2>5
<1>2. CASE CharonRestart
  BY <1>2 DEF CharonRestart
<1>3. ASSUME NEW w \in Vips, NEW d \in Dirs, Traffic(w, d)
      PROVE  /\ used'[c][v] <= carried'[c][v] /\ FileSafe(c, v)'
             /\ SamplingSafe(c, v)' /\ PendingSafe(c, v)'
  <2>1. CASE w # v
    BY <1>3, <2>1 DEF Traffic, TypeOK, Dirs
  <2>2. CASE w = v /\ holder[v] = c /\ d = "src"
    <3>1. /\ meter'[v]["src"] = meter[v]["src"] + 1
          /\ meter'[v]["dst"] = meter[v]["dst"]
          /\ carried'[c][v] = carried[c][v] + 1
      BY <1>3, <2>2 DEF Traffic, TypeOK, Dirs
    <3>. QED
      BY <1>3, <2>2, <3>1 DEF Traffic
  <2>3. CASE w = v /\ holder[v] = c /\ d = "dst"
    <3>1. /\ meter'[v]["src"] = meter[v]["src"]
          /\ meter'[v]["dst"] = meter[v]["dst"] + 1
          /\ carried'[c][v] = carried[c][v] + 1
      BY <1>3, <2>3 DEF Traffic, TypeOK, Dirs
    <3>. QED
      BY <1>3, <2>3, <3>1 DEF Traffic
  <2>4. CASE w = v /\ holder[v] # c
    <3>1. carried'[c][v] = carried[c][v]
      BY <1>3, <2>4 DEF Traffic, TypeOK
    <3>. QED
      BY <1>3, <2>4, <3>1 DEF Traffic, Dirs
  <2>. QED
    BY <2>1, <2>2, <2>3, <2>4 DEF Dirs
<1>4. CASE FirewallReload
  BY <1>4 DEF FirewallReload, EmptyMeter, Dirs
<1>5. ASSUME NEW e \in Customers, NEW st \in Status, SetStatus(e, st)
      PROVE  /\ used'[c][v] <= carried'[c][v] /\ FileSafe(c, v)'
             /\ SamplingSafe(c, v)' /\ PendingSafe(c, v)'
  BY <1>5 DEF SetStatus
<1>6. ASSUME NEW e \in Customers, ResetDb(e)
      PROVE  /\ used'[c][v] <= carried'[c][v] /\ FileSafe(c, v)'
             /\ SamplingSafe(c, v)' /\ PendingSafe(c, v)'
  BY <1>6 DEF ResetDb, NoBytes, RowLocked, TypeOK
<1>7. CASE ResetSidecar
  BY <1>7 DEF ResetSidecar, EmptyFile, NoEntry
<1>8. CASE ReadLeases
  BY <1>8 DEF ReadLeases, Shape, NoBytes, NoLeases, EmptyFile, NoEntry, Dirs
<1>9. CASE SampleMeter("src")
  <2>1. CASE failed' # {}
    BY <1>9, <2>1 DEF SampleMeter, Dirs
  <2>2. CASE failed' = {}
    <3>1. /\ failed = {}
          /\ seen'[v] = [seen[v] EXCEPT !["src"] = meter[v]["src"]]
      BY <1>9, <2>2 DEF SampleMeter
    <3>2. /\ seen'[v]["src"] = meter[v]["src"]
          /\ seen'[v]["dst"] = seen[v]["dst"]
      BY <3>1 DEF TypeOK, Dirs
    <3>. QED
      BY <1>9, <3>1, <3>2 DEF SampleMeter, Dirs
  <2>. QED
    BY <2>1, <2>2
<1>10. CASE SampleMeter("dst")
  <2>1. CASE failed' # {}
    BY <1>10, <2>1 DEF SampleMeter, Dirs
  <2>2. CASE failed' = {}
    <3>1. /\ failed = {}
          /\ seen'[v] = [seen[v] EXCEPT !["dst"] = meter[v]["dst"]]
      BY <1>10, <2>2 DEF SampleMeter
    <3>2. /\ seen'[v]["dst"] = meter[v]["dst"]
          /\ seen'[v]["src"] = seen[v]["src"]
      BY <3>1 DEF TypeOK, Dirs
    <3>. QED
      BY <1>10, <3>1, <3>2 DEF SampleMeter, Dirs
  <2>. QED
    BY <2>1, <2>2
<1>11. CASE ComputeDeltas
  <2>1. pc = "load" /\ pc' = "update" /\ failed = {}
    BY <1>11 DEF ComputeDeltas
  <2>2. UNCHANGED <<used, carried, meter, holder, sidecar, lease>>
    BY <1>11 DEF ComputeDeltas
  <2>3. FileSafe(c, v)' /\ SamplingSafe(c, v)'
    BY <2>1, <2>2 DEF Dirs
  <2>4. CASE lease[v] # c
    BY <2>1, <2>2, <2>3, <2>4
  <2>5. CASE lease[v] = c
    <3>1. fresh'[v].cust = c => fresh'[v].base = Total(seen, v)
      BY <1>11, <2>5 DEF ComputeDeltas, NewEntry, NoEntry
    <3>2. CASE delta'[v] = 0
      BY <2>1, <2>2, <2>3, <2>5, <3>1, <3>2
    <3>3. CASE delta'[v] # 0
      <4>1. /\ sidecar[v].cust = c
            /\ Total(seen, v) > sidecar[v].base
            /\ delta'[v] = Total(seen, v) - sidecar[v].base
        BY <1>11, <2>5, <3>3 DEF ComputeDeltas, Owed
      <4>. QED
        BY <2>1, <2>2, <2>3, <2>5, <3>1, <4>1
    <3>. QED
      BY <3>2, <3>3
  <2>. QED
    BY <2>4, <2>5
<1>12. CASE SkipAccounting
  BY <1>12 DEF SkipAccounting, Dirs, Shape, EmptyFile, NoEntry
<1>13. CASE UnreadableSidecar
  BY <1>13 DEF UnreadableSidecar, EndIteration, NoLeases, Dirs
<1>14. CASE DatabaseError
  BY <1>14 DEF DatabaseError, EndIteration, NoLeases, Dirs
<1>15. CASE Commit
  BY <1>15 DEF Commit, TypeOK, Dirs
<1>22. CASE UpdateRows
  BY <1>22 DEF UpdateRows, Dirs
<1>16. CASE TruncateSidecar
  BY <1>16 DEF TruncateSidecar, EmptyFile, NoEntry, Dirs
<1>17. CASE WriteSidecar
  BY <1>17 DEF WriteSidecar, Dirs
<1>18. CASE FinishIteration
  BY <1>18 DEF FinishIteration, EndIteration, NoLeases, Dirs
<1>19. CASE Crash
  <2>1. /\ UNCHANGED <<used, carried, meter, holder, sidecar>>
        /\ pc' = "idle" /\ lease'[v] = Nobody
    BY <1>19 DEF Crash, EndIteration, NoLeases
  <2>2. ~(pc = "save" /\ delta[v] > 0)
    BY <1>19 DEF Crash, NoBytes
  <2>. QED
    BY <2>1, <2>2 DEF Dirs
<1>20. CASE Reboot
  BY <1>20 DEF Reboot, EndIteration, NoLeases, EmptyFile, NoEntry, Dirs
<1>21. CASE UNCHANGED vars
  BY <1>21 DEF vars
<1>. QED
  BY <1>1, <1>2, <1>3, <1>4, <1>5, <1>6, <1>7, <1>8, <1>9, <1>10, <1>11, <1>12,
     <1>13, <1>14, <1>15, <1>16, <1>17, <1>18, <1>19, <1>20, <1>21, <1>22
  DEF Next, Iteration, Surroundings

\* The invariant holds in every state of the accounting.
LEMMA IInvHolds == Spec => []IInv
<1>1. Init => IInv
  BY InitTypeOK, InitShape, InitSound DEF IInv
<1>2. IInv /\ [Next]_vars => IInv'
  BY StepTypeOK, StepShape, StepSound, AnomalyGrows DEF IInv
<1>. QED
  BY <1>1, <1>2, PTL DEF Spec

\* No customer is billed for more than its devices moved, unless one of the
\* three anomalies of NoOverBilling happened.
THEOREM NeverOverBills == Spec => []NoOverBilling
<1>1. IInv => NoOverBilling
  BY DEF IInv, Sound, NoOverBilling
<1>. QED
  BY <1>1, IInvHolds, PTL

-----------------------------------------------------------------------------
\* Nobody barred is billable now, and no pending delta is of anybody barred.
BarredShape ==
  /\ \A c \in barred : c \in Operators \/ status[c] # "active"
  /\ \A v \in Vips : pc \in {"update", "commit"} /\ delta[v] > 0 => lease[v] \notin barred

\* A fresh daemon has barred nobody.
LEMMA InitBarred == Init => BarredShape
  BY DEF Init, BarredShape

\* Status changes take customers that become active again off the list, and
\* the per-lease loop bills only who is billable.
LEMMA StepBarred == TypeOK /\ BarredShape /\ [Next]_vars => BarredShape'
<1>. SUFFICES ASSUME TypeOK, BarredShape, [Next]_vars PROVE BarredShape'
  OBVIOUS
<1>. USE DEF BarredShape, charonVars, daemonVars, fileVars, histVars
<1>1. ASSUME NEW c \in Customers, NEW st \in Status, SetStatus(c, st)
      PROVE  BarredShape'
  <2>1. barred' \subseteq barred /\ UNCHANGED <<pc, delta, lease>>
    BY <1>1 DEF SetStatus
  <2>2. ASSUME NEW e \in barred' PROVE e \in Operators \/ status'[e] # "active"
    BY <1>1, <2>2 DEF SetStatus, TypeOK
  <2>. QED
    BY <2>1, <2>2
<1>2. CASE ReadLeases
  BY <1>2 DEF ReadLeases, Barred
<1>3. CASE ComputeDeltas
  <2>1. UNCHANGED <<barred, status, lease>> /\ pc' = "update"
    BY <1>3 DEF ComputeDeltas
  <2>2. ASSUME NEW v \in Vips, delta'[v] > 0
        PROVE  lease[v] \notin barred
    BY <1>3, <2>2 DEF ComputeDeltas, Billable
  <2>. QED
    BY <2>1, <2>2
<1>4. CASE EndIteration /\ UNCHANGED status
  BY <1>4 DEF EndIteration
<1>5. CASE Commit \/ SkipAccounting
  BY <1>5 DEF Commit, SkipAccounting
<1>6. CASE UNCHANGED <<barred, status, delta, lease>> /\ (pc' = pc \/ pc = "update"
                                                       \/ pc' \notin {"update", "commit"})
  BY <1>6
<1>7. CASE UpdateRows \/ TruncateSidecar \/ WriteSidecar \/ UNCHANGED vars
           \/ \E d \in Dirs : SampleMeter(d)
  BY <1>7, <1>6 DEF UpdateRows, TruncateSidecar, WriteSidecar, SampleMeter, vars
<1>8. CASE CharonRestart \/ FirewallReload \/ ResetSidecar
           \/ (\E v \in Vips, h \in Customers \cup {Unmapped} : Assign(v, h))
           \/ (\E v \in Vips, d \in Dirs : Traffic(v, d)) \/ \E c \in Customers : ResetDb(c)
  BY <1>8, <1>6 DEF CharonRestart, FirewallReload, ResetSidecar, Assign, Traffic, ResetDb
<1>. QED
  BY <1>1, <1>2, <1>3, <1>4, <1>5, <1>7, <1>8
  DEF Next, Iteration, Surroundings, UnreadableSidecar, DatabaseError, FinishIteration,
      Crash, Reboot, Dirs

\* Only the commit adds bytes to a customer.
LEMMA OnlyCommitBills ==
  ASSUME TypeOK, [Next]_vars, NEW c \in Customers, NEW v \in Vips,
         used'[c][v] > used[c][v]
  PROVE  Commit
<1>1. ASSUME NEW e \in Customers, ResetDb(e) PROVE FALSE
  BY <1>1 DEF ResetDb, NoBytes, TypeOK
<1>2. used' # used
  BY DEF TypeOK
<1>. QED
  BY <1>1, <1>2
  DEF Next, vars, Iteration, Surroundings, Assign, CharonRestart, Traffic, FirewallReload,
      SetStatus, ResetSidecar, ReadLeases, SampleMeter, ComputeDeltas, UpdateRows,
      SkipAccounting, UnreadableSidecar, DatabaseError, TruncateSidecar, WriteSidecar,
      FinishIteration, Crash, Reboot

\* An iteration charges nothing to customers that were suspended, deleted or
\* operators ever since it listed the leases.
THEOREM NeverBillsBarred == Spec => BillsOnlyBillable
<1>1. TypeOK /\ BarredShape /\ [Next]_vars =>
        [\A c \in Customers : (\E v \in Vips : used'[c][v] > used[c][v]) => c \notin barred]_vars
  <2>. SUFFICES ASSUME TypeOK, BarredShape, [Next]_vars,
                       NEW c \in Customers, NEW v \in Vips, used'[c][v] > used[c][v]
                PROVE  c \notin barred
    OBVIOUS
  <2>1. Commit
    BY OnlyCommitBills
  <2>2. pc = "commit" /\ lease[v] = c /\ used'[c][v] = used[c][v] + delta[v]
    BY <2>1 DEF Commit, TypeOK
  <2>3. delta[v] > 0
    BY <2>2 DEF TypeOK
  <2>. QED
    BY <2>2, <2>3 DEF BarredShape
<1>. QED
  BY <1>1, InitTypeOK, StepTypeOK, InitBarred, StepBarred, PTL DEF Spec, BillsOnlyBillable

-----------------------------------------------------------------------------
\* Every step but a device's traffic, the commit and the reset leaves what is
\* counted and moved alone.
LEMMA OtherStepsKeepLedger ==
  ASSUME [Next]_vars, ~Commit,
         \A c \in Customers : ~ResetDb(c), \A v \in Vips, d \in Dirs : ~Traffic(v, d)
  PROVE  UNCHANGED <<used, carried>>
  BY DEF Next, vars, Iteration, Surroundings, Assign, CharonRestart, FirewallReload,
         SetStatus, ResetSidecar, ReadLeases, SampleMeter, ComputeDeltas, UpdateRows,
         SkipAccounting, UnreadableSidecar, DatabaseError, TruncateSidecar, WriteSidecar,
         FinishIteration, Crash, Reboot

\* A step of the daemon and its surroundings is one of the ledger's, or none.
LEMMA StepLedger ==
  ASSUME IInv, IInv', [Next]_vars
  PROVE  [Ledger!Next]_(Ledger!ledger)
<1>. USE DEF charonVars, daemonVars, fileVars, histVars
<1>1. ASSUME NEW v \in Vips, NEW d \in Dirs, Traffic(v, d)
      PROVE  [Ledger!Next]_(Ledger!ledger)
  <2>1. UNCHANGED <<used, anomaly>>
    BY <1>1 DEF Traffic
  <2>2. CASE holder[v] \in Customers
    <3>1. Ledger!Move(holder[v], v)
      BY <1>1, <2>1, <2>2 DEF Traffic, Ledger!Move
    <3>. QED
      BY <2>2, <3>1 DEF Ledger!Next
  <2>3. CASE holder[v] \notin Customers
    BY <1>1, <2>1, <2>3 DEF Traffic, Ledger!ledger
  <2>. QED
    BY <2>2, <2>3
<1>2. ASSUME NEW c \in Customers, ResetDb(c)
      PROVE  [Ledger!Next]_(Ledger!ledger)
  <2>1. Ledger!Reset(c)
    BY <1>2 DEF ResetDb, Ledger!Reset, Ledger!Nothing, NoBytes
  <2>. QED
    BY <2>1 DEF Ledger!Next
<1>3. CASE Commit
  <2>1. used' \in [Customers -> [Vips -> Nat]] /\ UNCHANGED <<carried, anomaly>>
    BY <1>3 DEF IInv, TypeOK, Commit
  <2>2. ASSUME NEW c \in Customers, NEW v \in Vips
        PROVE  /\ used'[c][v] >= used[c][v]
               /\ anomaly # {} \/ used'[c][v] <= carried[c][v]
    <3>1. used'[c][v] \in {used[c][v], used[c][v] + delta[v]}
      BY <1>3 DEF Commit
    <3>2. used[c][v] \in Nat /\ delta[v] \in Nat
      BY DEF IInv, TypeOK
    <3>3. anomaly = {} => used'[c][v] <= carried[c][v]
      BY <2>1 DEF IInv, Sound
    <3>. QED
      BY <3>1, <3>2, <3>3
  <2>3. Ledger!Count
    BY <2>1, <2>2 DEF Ledger!Count
  <2>. QED
    BY <2>3 DEF Ledger!Next
<1>4. CASE UNCHANGED <<used, carried>>
  <2>1. anomaly # {} => anomaly' # {}
    BY AnomalyGrows
  <2>2. CASE anomaly = {} /\ anomaly' # {}
    BY <1>4, <2>2 DEF Ledger!Next, Ledger!Excuse
  <2>3. CASE (anomaly = {}) <=> (anomaly' = {})
    BY <1>4, <2>3 DEF Ledger!ledger
  <2>. QED
    BY <2>1, <2>2, <2>3
<1>. QED
  BY <1>1, <1>2, <1>3, <1>4, OtherStepsKeepLedger

\* The accounting implements the ledger it promises: a customer's count never
\* falls but by a reset, rises only for bytes that its devices moved, and every
\* exception is one of the three anomalies.
THEOREM AccountingIsLedger == Spec => ImplementsLedger
<1>1. Init => Ledger!Init
  BY DEF Init, Ledger!Init, Ledger!Nothing, NoBytes
<1>2. IInv /\ IInv' /\ [Next]_vars => [Ledger!Next]_(Ledger!ledger)
  BY StepLedger
<1>. QED
  BY <1>1, <1>2, IInvHolds, PTL DEF Spec, ImplementsLedger, Ledger!Spec
=============================================================================
