----------------------- MODULE CustomerLifecycleProofs -----------------------
(***************************************************************************)
(* For any customers, requests, operations and failures: types, and what   *)
(* is left of a customer that has been through nothing known to be unsafe. *)
(***************************************************************************)
EXTENDS CustomerLifecycle, SequenceTheorems, TLAPS

OpNames == {"create", "rotate", "archive", "unarchive", "reset", "delete", "bulkdelete",
            "deleteuser", "cleanup", "reclaim"}

StepNames == {"insert", "append", "reload", "commit", "cleanup", "user", "conf", "radcheck",
              "status", "disable", "users", "sweep", "devices", "unblock", "purge", "customer",
              "transaction", "fullsweep", "retire", "reclaim", "preclean"}

Numbers == 0 .. MaxOps

Procs == [op : OpNames \cup {"none"}, of : Customers \cup {Nobody}, todo : Seq(StepNames),
          id : Numbers, pw : Numbers, named : BOOLEAN]
Kills == [at : {"idle", "cut", "unblock", "commit"}, todo : SUBSET Customers,
          victims : SUBSET Customers, known : SUBSET Customers,
          now : Customers \cup {Nobody}, ids : [Customers -> Numbers]]

\* What a request has ahead of it is the rest of its program, or its cleanup.
Rest(op, k) == SubSeq(Programs[op], k, Len(Programs[op]))
Placed(p) ==
  p # Idle =>
    /\ p.op \in OpNames /\ p.of \in Customers /\ p.pw \in Passwords
    /\ \/ p.op = "create" /\ p.todo = <<"cleanup">>
       \/ \E k \in 1 .. Len(Programs[p.op]) : p.todo = Rest(p.op, k)

\* The step a request is at.
Where(p) == IF p.todo = <<>> THEN "none" ELSE Head(p.todo)

StoreTypes ==
  /\ cust \in [Customers -> {"absent", "active", "archived"}]
  /\ enabled \in [Customers -> BOOLEAN] /\ overdue \in [Customers -> BOOLEAN]
  /\ row \in [Customers -> Numbers]
  /\ device \in [Customers -> {"none", "own", "renamed"}]
  /\ user \in [Customers -> Numbers]
  /\ radcheck \in [Customers -> Numbers \cup {Disabled}]
  /\ block \in [Customers -> Numbers] /\ saved \in [Customers -> Numbers]

ProcTypes == proc \in [Requests -> Procs] /\ \A r \in Requests : Placed(proc[r])

KillTypes ==
  /\ kill \in Kills
  /\ kill.todo \subseteq kill.victims /\ kill.known \subseteq kill.victims
  /\ kill.at = "idle" => kill = Quiet
  /\ kill.at \in {"cut", "commit"} => kill.now = Nobody
  /\ kill.at = "unblock" => kill.now \in kill.victims \ kill.todo
  /\ kill.at = "commit" => kill.todo = {}

Types ==
  /\ StoreTypes /\ ProcTypes /\ KillTypes
  /\ sa \in [Customers -> BOOLEAN]
  /\ taint \in [Customers -> SUBSET Taints]
  /\ ops \in Numbers /\ fails \in 0 .. MaxFail

\* The step n of a program that follows s, and the last step.
Leads(op, s, n) ==
  \/ op = "create" /\ <<s, n>> \in {<<"insert", "append">>, <<"append", "reload">>, <<"reload", "commit">>}
  \/ op = "rotate" /\ <<s, n>> \in {<<"user", "conf">>, <<"conf", "reload">>, <<"reload", "radcheck">>}
  \/ op = "archive" /\ <<s, n>> = <<"status", "disable">>
  \/ op = "unarchive" /\ <<s, n>> \in {<<"status", "user">>, <<"user", "conf">>, <<"conf", "radcheck">>,
                                       <<"radcheck", "reload">>}
  \/ op = "delete" /\ <<s, n>> \in {<<"users", "sweep">>, <<"sweep", "devices">>, <<"devices", "unblock">>,
                                    <<"unblock", "purge">>, <<"purge", "reload">>, <<"reload", "customer">>}
  \/ op = "bulkdelete" /\ <<s, n>> \in {<<"transaction", "unblock">>, <<"unblock", "reload">>}
  \/ op = "deleteuser" /\ <<s, n>> \in {<<"fullsweep", "unblock">>, <<"unblock", "reload">>}
  \/ op = "cleanup" /\ <<s, n>> \in {<<"retire", "unblock">>, <<"unblock", "reload">>}
  \/ op = "reclaim" /\ <<s, n>> \in {<<"reclaim", "preclean">>, <<"preclean", "append">>, <<"append", "reload">>}

Ends(op, s) ==
  <<op, s>> \in {<<"create", "commit">>, <<"create", "cleanup">>, <<"rotate", "radcheck">>,
                 <<"archive", "disable">>, <<"unarchive", "reload">>, <<"reset", "radcheck">>,
                 <<"delete", "customer">>, <<"bulkdelete", "reload">>, <<"deleteuser", "reload">>,
                 <<"cleanup", "reload">>, <<"reclaim", "reload">>}

First(op, s) ==
  <<op, s>> \in {<<"create", "insert">>, <<"rotate", "user">>, <<"archive", "status">>,
                 <<"unarchive", "status">>, <<"reset", "radcheck">>, <<"delete", "users">>,
                 <<"bulkdelete", "transaction">>, <<"deleteuser", "fullsweep">>,
                 <<"cleanup", "retire">>, <<"reclaim", "reclaim">>}

-----------------------------------------------------------------------------
(* Programs.                                                               *)

\* A sequence with an element is not empty.
LEMMA LongIsNotEmpty ==
  ASSUME NEW S, NEW t \in Seq(S), Len(t) >= 1
  PROVE  t # <<>>
OBVIOUS

\* One step further in a sequence.
LEMMA RestOfSequence ==
  ASSUME NEW S, NEW P \in Seq(S), NEW k \in 1 .. Len(P), NEW t, t = SubSeq(P, k, Len(P))
  PROVE  /\ t \in Seq(S) /\ t # <<>> /\ Head(t) = P[k] /\ (Len(t) = 1 <=> k = Len(P))
         /\ Tail(t) = SubSeq(P, k + 1, Len(P))
<1>1. t \in Seq(S) /\ Len(t) = Len(P) - k + 1
  OBVIOUS
<1>2. Head(t) = P[k] /\ Tail(t) = SubSeq(P, k + 1, Len(P))
  BY HeadTailOfSubSeq
<1>3. t # <<>>
  <2>1. Len(t) >= 1
    BY <1>1
  <2>. QED
    BY ONLY <1>1, <2>1, LongIsNotEmpty
<1>. QED
  BY <1>1, <1>2, <1>3

\* Two steps further.
LEMMA RestOfRest ==
  ASSUME NEW S, NEW P \in Seq(S), NEW k \in 1 .. Len(P), k # Len(P),
         NEW t, t = SubSeq(P, k, Len(P))
  PROVE  Tail(t) # <<>> /\ Head(Tail(t)) = P[k + 1] /\ Tail(t) \in Seq(S)
<1>1. ASSUME NEW j \in 1 .. Len(P), NEW u, u = SubSeq(P, j, Len(P))
      PROVE  u # <<>> /\ Head(u) = P[j] /\ u \in Seq(S)
  <2>1. u # <<>>
    BY ONLY <1>1, P \in Seq(S), RestOfSequence
  <2>2. Head(u) = P[j]
    BY ONLY <1>1, P \in Seq(S), RestOfSequence
  <2>3. u \in Seq(S)
    BY ONLY <1>1, P \in Seq(S), RestOfSequence
  <2>. QED
    BY <2>1, <2>2, <2>3
<1>2. k + 1 \in 1 .. Len(P) /\ Tail(t) = SubSeq(P, k + 1, Len(P))
  BY RestOfSequence
<1>. QED
  BY <1>1, <1>2

\* Programs are sequences.
LEMMA ProgramsAreSequences ==
  ASSUME NEW op \in OpNames
  PROVE  Programs[op] \in Seq(StepNames) /\ Len(Programs[op]) >= 1
<1>. USE DEF Programs, StepNames
<1>1. CASE op = "create"
  BY <1>1 DEF CreateClient
<1>2. CASE op = "rotate"
  BY <1>2 DEF RotateEap
<1>3. CASE op = "archive"
  BY <1>3 DEF ArchiveCustomer
<1>4. CASE op = "unarchive"
  BY <1>4 DEF Unarchive
<1>5. CASE op = "reset"
  BY <1>5 DEF RestoreRadcheck
<1>6. CASE op = "delete"
  BY <1>6 DEF HardDelete
<1>7. CASE op = "bulkdelete"
  BY <1>7 DEF BulkHardDelete
<1>8. CASE op = "deleteuser"
  BY <1>8 DEF DeleteUser
<1>9. CASE op = "cleanup"
  BY <1>9 DEF CleanupOrphans
<1>10. CASE op = "reclaim"
  BY <1>10 DEF RenewOrphan
<1>. QED
  BY <1>1, <1>2, <1>3, <1>4, <1>5, <1>6, <1>7, <1>8, <1>9, <1>10 DEF OpNames

\* What the programs say, step by step.
LEMMA ProgramsLead ==
  ASSUME NEW op \in OpNames, NEW k \in 1 .. Len(Programs[op])
  PROVE  /\ k < Len(Programs[op]) => Leads(op, Programs[op][k], Programs[op][k + 1])
         /\ k = Len(Programs[op]) => Ends(op, Programs[op][k])
         /\ k = 1 => First(op, Programs[op][k])
<1>. USE DEF Programs, Leads, Ends, First
<1>1. CASE op = "create"
  BY <1>1 DEF CreateClient
<1>2. CASE op = "rotate"
  BY <1>2 DEF RotateEap
<1>3. CASE op = "archive"
  BY <1>3 DEF ArchiveCustomer
<1>4. CASE op = "unarchive"
  BY <1>4 DEF Unarchive
<1>5. CASE op = "reset"
  BY <1>5 DEF RestoreRadcheck
<1>6. CASE op = "delete"
  BY <1>6 DEF HardDelete
<1>7. CASE op = "bulkdelete"
  BY <1>7 DEF BulkHardDelete
<1>8. CASE op = "deleteuser"
  BY <1>8 DEF DeleteUser
<1>9. CASE op = "cleanup"
  BY <1>9 DEF CleanupOrphans
<1>10. CASE op = "reclaim"
  BY <1>10 DEF RenewOrphan
<1>. QED
  BY <1>1, <1>2, <1>3, <1>4, <1>5, <1>6, <1>7, <1>8, <1>9, <1>10 DEF OpNames


-----------------------------------------------------------------------------
(* Requests move along their programs.                                     *)

\* A request goes on to the next step.
Goes(p, q) ==
  /\ q.op = p.op /\ q.of = p.of /\ q.id = p.id /\ q.pw = p.pw
  /\ Leads(p.op, Where(p), Where(q))

\* A request that is at a step is at one of its program.
LEMMA PlacedRequest ==
  ASSUME NEW p \in Procs, Placed(p), p.todo # <<>>
  PROVE  /\ p # Idle /\ p.op \in OpNames /\ p.of \in Customers /\ p.pw \in Passwords
         /\ Where(p) = Head(p.todo)
         /\ Len(p.todo) = 1 => Ends(p.op, Where(p))
         /\ Len(p.todo) # 1 =>
              \A q \in Procs :
                /\ q.op = p.op /\ q.of = p.of /\ q.id = p.id /\ q.pw = p.pw /\ q.todo = Tail(p.todo)
                => Placed(q) /\ Goes(p, q)
         /\ Len(p.todo) # 1 => Tail(p.todo) \in Seq(StepNames)
<1>1. p # Idle /\ p.op \in OpNames /\ p.of \in Customers /\ p.pw \in Passwords
  BY DEF Placed, Idle
<1>2. Where(p) = Head(p.todo)
  BY DEF Where
<1>3. CASE p.op = "create" /\ p.todo = <<"cleanup">>
  <2>1. Len(p.todo) = 1 /\ Head(p.todo) = "cleanup"
    BY <1>3
  <2>. QED
    BY <1>1, <1>2, <1>3, <2>1 DEF Ends
<1>4. ASSUME NEW k \in 1 .. Len(Programs[p.op]), p.todo = Rest(p.op, k)
      PROVE  /\ Len(p.todo) = 1 => Ends(p.op, Where(p))
             /\ Len(p.todo) # 1 => Tail(p.todo) \in Seq(StepNames)
             /\ Len(p.todo) # 1 =>
                  \A q \in Procs :
                    /\ q.op = p.op /\ q.of = p.of /\ q.id = p.id /\ q.pw = p.pw /\ q.todo = Tail(p.todo)
                    => Placed(q) /\ Goes(p, q)
  <2>. DEFINE P == Programs[p.op]
  <2>1. P \in Seq(StepNames) /\ Len(P) \in Nat
    BY <1>1, ProgramsAreSequences
  <2>2. p.todo = SubSeq(P, k, Len(P))
    BY <1>4 DEF Rest
  <2>. HIDE DEF P
  <2>3. /\ Head(p.todo) = P[k] /\ (Len(p.todo) = 1 <=> k = Len(P))
        /\ Tail(p.todo) = SubSeq(P, k + 1, Len(P))
    BY <1>4, <2>1, <2>2, RestOfSequence DEF P
  <2>4. CASE k = Len(P)
    <3>1. Ends(p.op, P[k])
      BY <1>1, <1>4, <2>4, ProgramsLead DEF P
    <3>. QED
      BY <1>2, <2>3, <2>4, <3>1
  <2>5. CASE k # Len(P)
    <3>1. k + 1 \in 1 .. Len(P)
      BY <1>4, <2>1, <2>5 DEF P
    <3>2. Leads(p.op, P[k], P[k + 1])
      <4>1. k < Len(P)
        BY <1>4, <2>1, <2>5 DEF P
      <4>. QED
        BY <1>1, <1>4, <4>1, ProgramsLead DEF P
    <3>3. Tail(p.todo) = Rest(p.op, k + 1)
      BY <2>3 DEF Rest, P
    <3>4. /\ Tail(p.todo) # <<>> /\ Head(Tail(p.todo)) = P[k + 1]
          /\ Tail(p.todo) \in Seq(StepNames)
      BY ONLY <1>4, <2>1, <2>2, <2>5, RestOfRest DEF P
    <3>5. ASSUME NEW q \in Procs, q.op = p.op, q.of = p.of, q.id = p.id, q.pw = p.pw,
                 q.todo = Tail(p.todo)
          PROVE  Placed(q) /\ Goes(p, q)
      <4>1. Placed(q)
        <5>1. k + 1 \in 1 .. Len(Programs[q.op])
          BY <3>1, <3>5 DEF P
        <5>2. q.todo = Rest(q.op, k + 1)
          BY <3>3, <3>5
        <5>. QED
          BY <1>1, <3>5, <5>1, <5>2 DEF Placed
      <4>2. Where(q) = P[k + 1]
        BY <3>4, <3>5 DEF Where
      <4>. QED
        BY <1>2, <2>3, <3>2, <3>5, <4>1, <4>2 DEF Goes
    <3>. QED
      BY <2>3, <2>5, <3>4, <3>5
  <2>. QED
    BY <2>4, <2>5
<1>. QED
  BY <1>1, <1>2, <1>3, <1>4 DEF Placed

\* A request that starts is at the first step of its program.
LEMMA PlacedStart ==
  ASSUME NEW p \in Procs, p.op \in OpNames, p.of \in Customers, p.pw \in Passwords,
         p.todo = Programs[p.op]
  PROVE  Placed(p) /\ First(p.op, Where(p))
<1>. DEFINE P == Programs[p.op]
<1>1. P \in Seq(StepNames) /\ Len(P) \in Nat /\ Len(P) >= 1
  BY ProgramsAreSequences
<1>2. First(p.op, P[1])
  BY <1>1, ProgramsLead
<1>. HIDE DEF P
<1>3. SubSeq(P, 1, Len(P)) = P
  BY <1>1
<1>4. 1 \in 1 .. Len(P)
  BY <1>1
<1>5. P # <<>> /\ Head(P) = P[1]
  BY ONLY <1>1, <1>3, <1>4, RestOfSequence
<1>6. Where(p) = P[1]
  BY <1>5 DEF Where, P
<1>7. p.todo = Rest(p.op, 1)
  BY <1>3 DEF Rest, P
<1>8. Placed(p)
  BY <1>4, <1>7 DEF Placed, P
<1>. QED
  BY <1>2, <1>6, <1>8

\* The other requests stay where they are.
Others(r) == \A x \in Requests \ {r} : proc'[x] = proc[x]

\* The request has finished its program, or goes on with it.
Moved(r) ==
  \/ proc'[r] = Idle /\ Ends(proc[r].op, Where(proc[r]))
  \/ Goes(proc[r], proc'[r]) /\ proc'[r].named = proc[r].named

\* An idle thread is a request with nothing to do.
LEMMA IdleIsTyped == Idle \in Procs /\ Placed(Idle)
<1>1. <<>> \in Seq(StepNames)
  OBVIOUS
<1>. QED
  BY <1>1, BoundsAreNaturals DEF Idle, Procs, Placed, Numbers, None

\* Go: the next step of the program, or the end of it.
LEMMA GoMoves ==
  ASSUME ProcTypes, NEW r \in Requests, proc[r].todo # <<>>, Go(r)
  PROVE  ProcTypes' /\ Others(r) /\ Moved(r)
<1>. DEFINE p == proc[r]
            q == [p EXCEPT !.todo = Tail(@)]
<1>1. p \in Procs /\ Placed(p) /\ \A x \in Requests : proc[x] \in Procs /\ Placed(proc[x])
  BY DEF ProcTypes
<1>2. CASE Len(p.todo) = 1
  <2>1. Ends(p.op, Where(p))
    BY <1>1, <1>2, PlacedRequest
  <2>2. proc' = [proc EXCEPT ![r] = Idle]
    BY <1>2 DEF Go, Finish
  <2>3. proc'[r] = Idle /\ Others(r) /\ DOMAIN proc' = Requests
    BY <2>2 DEF ProcTypes, Others
  <2>4. ProcTypes'
    BY <2>2, <2>3, <1>1, IdleIsTyped DEF ProcTypes
  <2>. QED
    BY <2>1, <2>3, <2>4 DEF Moved
<1>3. CASE Len(p.todo) # 1
  <2>1. proc' = [proc EXCEPT ![r] = q]
    BY <1>3 DEF Go
  <2>2. Tail(p.todo) \in Seq(StepNames)
    BY <1>1, <1>3, PlacedRequest
  <2>3. /\ q \in Procs /\ q.op = p.op /\ q.of = p.of /\ q.id = p.id /\ q.pw = p.pw
        /\ q.todo = Tail(p.todo) /\ q.named = p.named
    BY <1>1, <2>2 DEF Procs
  <2>4. Placed(q) /\ Goes(p, q)
    <3>. HIDE DEF p, q
    <3>. QED
      BY <1>1, <1>3, <2>3, PlacedRequest DEF p
  <2>5. proc'[r] = q /\ Others(r)
    BY <2>1 DEF ProcTypes, Others
  <2>. HIDE DEF q
  <2>6. ProcTypes'
    BY <1>1, <2>1, <2>3, <2>4 DEF ProcTypes
  <2>. QED
    BY <2>3, <2>4, <2>5, <2>6 DEF Moved
<1>. QED
  BY <1>2, <1>3

\* Finish: the thread is idle, from wherever it was.
LEMMA FinishMoves ==
  ASSUME ProcTypes, NEW r \in Requests, Finish(r)
  PROVE  ProcTypes' /\ Others(r) /\ proc'[r] = Idle
<1>. QED
  BY IdleIsTyped DEF ProcTypes, Finish, Others

\* create_client, when it fails after the append, has its cleanup ahead.
LEMMA CleanupMoves ==
  ASSUME ProcTypes, NEW r \in Requests, proc[r] # Idle, proc[r].op = "create", Jump(r, <<"cleanup">>)
  PROVE  /\ ProcTypes' /\ Others(r)
         /\ proc'[r].op = "create" /\ proc'[r].of = proc[r].of /\ Where(proc'[r]) = "cleanup"
<1>. DEFINE p == proc[r]
            q == [p EXCEPT !.todo = <<"cleanup">>]
<1>1. p \in Procs /\ Placed(p) /\ \A x \in Requests : proc[x] \in Procs /\ Placed(proc[x])
  BY DEF ProcTypes
<1>2. proc' = [proc EXCEPT ![r] = q]
  BY DEF Jump
<1>3. <<"cleanup">> \in Seq(StepNames) /\ <<"cleanup">> # <<>> /\ Head(<<"cleanup">>) = "cleanup"
  BY DEF StepNames
<1>4. q \in Procs /\ q.op = "create" /\ q.of = p.of /\ q.todo = <<"cleanup">> /\ q.pw = p.pw
  BY <1>1, <1>3 DEF Procs
<1>5. Placed(q)
  <2>. HIDE DEF q, p
  <2>. QED
    BY <1>1, <1>4 DEF Placed, p
<1>6. Where(q) = "cleanup"
  BY <1>3, <1>4 DEF Where
<1>7. proc'[r] = q /\ Others(r)
  BY <1>2 DEF ProcTypes, Others
<1>. HIDE DEF q
<1>8. ProcTypes'
  BY <1>1, <1>2, <1>4, <1>5 DEF ProcTypes
<1>. QED
  BY <1>4, <1>6, <1>7, <1>8

\* The bulk delete goes on with what the script returned.
LEMMA TransactionMoves ==
  ASSUME ProcTypes, NEW r \in Requests, At(r, "transaction"), NEW b \in BOOLEAN,
         proc' = [proc EXCEPT ![r].named = b, ![r].todo = Tail(@)]
  PROVE  /\ ProcTypes' /\ Others(r)
         /\ Goes(proc[r], proc'[r]) /\ proc'[r].named = b
<1>. DEFINE p == proc[r]
            q == [p EXCEPT !.named = b, !.todo = Tail(@)]
<1>1. p \in Procs /\ Placed(p) /\ \A x \in Requests : proc[x] \in Procs /\ Placed(proc[x])
  BY DEF ProcTypes
<1>2. p.todo # <<>> /\ Head(p.todo) = "transaction"
  BY DEF At
<1>3. Len(p.todo) # 1
  <2>1. Where(p) = "transaction"
    BY <1>2 DEF Where
  <2>2. ~Ends(p.op, "transaction")
    BY DEF Ends
  <2>. QED
    BY <1>1, <1>2, <2>1, <2>2, PlacedRequest
<1>4. proc' = [proc EXCEPT ![r] = q]
  OBVIOUS
<1>5. Tail(p.todo) \in Seq(StepNames)
  BY <1>1, <1>2, <1>3, PlacedRequest
<1>6. /\ q \in Procs /\ q.op = p.op /\ q.of = p.of /\ q.id = p.id /\ q.pw = p.pw
      /\ q.todo = Tail(p.todo) /\ q.named = b
  BY <1>1, <1>5 DEF Procs
<1>7. Placed(q) /\ Goes(p, q)
  <2>. HIDE DEF p, q
  <2>. QED
    BY <1>1, <1>2, <1>3, <1>6, PlacedRequest DEF p
<1>8. proc'[r] = q /\ Others(r)
  BY <1>4 DEF ProcTypes, Others
<1>. HIDE DEF q
<1>9. ProcTypes'
  BY <1>1, <1>4, <1>6, <1>7 DEF ProcTypes
<1>. QED
  BY <1>6, <1>7, <1>8, <1>9

\* A request starts at the first step of its operation, with the row it found.
LEMMA StartMoves ==
  ASSUME Types, NEW r \in Requests, NEW c \in Customers, NEW op \in Ops, Start(r, op, c)
  PROVE  /\ ProcTypes' /\ Others(r) /\ proc[r] = Idle
         /\ op \in OpNames /\ First(op, Where(proc'[r]))
         /\ proc'[r].op = op /\ proc'[r].of = c /\ proc'[r].id = row[c]
         /\ proc'[r].named = Named(op, c)
         /\ op # "reset" => proc'[r].pw = ops + 1
<1>. DEFINE q == [op |-> op, of |-> c, todo |-> Programs[op], id |-> row[c],
                  pw |-> IF op = "reset" THEN saved[c] ELSE ops + 1, named |-> Named(op, c)]
<1>1. op \in OpNames
  BY OpsHavePrograms DEF Programs, OpNames
<1>2. proc' = [proc EXCEPT ![r] = q] /\ proc[r] = Idle
  BY DEF Start
<1>3. \A x \in Requests : proc[x] \in Procs /\ Placed(proc[x])
  BY DEF Types, ProcTypes
<1>4. row[c] \in Numbers
  BY DEF Types, StoreTypes
<1>5. (IF op = "reset" THEN saved[c] ELSE ops + 1) \in Passwords
  <2>1. ops + 1 \in Passwords
    BY BoundsAreNaturals DEF Start, Types, Numbers, Passwords
  <2>2. ASSUME op = "reset" PROVE saved[c] \in Passwords
    <3>1. Restorable(c)
      BY <2>2 DEF Start, Accepts
    <3>. QED
      BY <3>1, BoundsAreNaturals DEF Restorable, Types, StoreTypes, Numbers, Passwords, None
  <2>. QED
    BY <2>1, <2>2
<1>6. Named(op, c) \in BOOLEAN
  BY DEF Named
<1>7. Programs[op] \in Seq(StepNames)
  BY <1>1, ProgramsAreSequences
<1>8. /\ q \in Procs /\ q.op = op /\ q.of = c /\ q.todo = Programs[op] /\ q.id = row[c]
      /\ q.named = Named(op, c) /\ q.pw \in Passwords
      /\ op # "reset" => q.pw = ops + 1
  <2>1. (IF op = "reset" THEN saved[c] ELSE ops + 1) \in Numbers
    BY <1>5, BoundsAreNaturals DEF Passwords, Numbers
  <2>. QED
    BY <1>1, <1>4, <1>5, <1>6, <1>7, <2>1 DEF Procs
<1>. HIDE DEF q
<1>9. Placed(q) /\ First(op, Where(q))
  BY <1>1, <1>8, PlacedStart
<1>10. proc'[r] = q /\ Others(r)
  BY <1>2 DEF Types, ProcTypes, Others
<1>11. ProcTypes'
  BY <1>2, <1>3, <1>8, <1>9 DEF Types, ProcTypes
<1>. QED
  BY <1>1, <1>2, <1>8, <1>9, <1>10, <1>11

-----------------------------------------------------------------------------
(* Types.                                                                  *)

\* Failures are counted up to their bound and remembered.
LEMMA FailTypes ==
  ASSUME Types, NEW c \in Customers
  PROVE  /\ Fail(c) => taint' \in [Customers -> SUBSET Taints] /\ fails' \in 0 .. MaxFail
         /\ NoFailure => taint' \in [Customers -> SUBSET Taints] /\ fails' \in 0 .. MaxFail
<1>1. "failure" \in Taints
  BY DEF Taints
<1>2. NoFailure => taint' \in [Customers -> SUBSET Taints] /\ fails' \in 0 .. MaxFail
  BY DEF NoFailure, Types
<1>3. ASSUME Fail(c) PROVE taint' \in [Customers -> SUBSET Taints] /\ fails' \in 0 .. MaxFail
  <2>1. fails' \in 0 .. MaxFail
    BY <1>3, BoundsAreNaturals DEF Fail, Types
  <2>2. taint' = [taint EXCEPT ![c] = @ \cup {"failure"}]
    BY <1>3 DEF Fail, Taint
  <2>3. taint[c] \cup {"failure"} \in SUBSET Taints
    BY <1>1 DEF Types
  <2>. QED
    BY <2>1, <2>2, <2>3 DEF Types
<1>. QED
  BY <1>2, <1>3

\* A request at a step is one of a customer.
LEMMA AtStep ==
  ASSUME ProcTypes, NEW r \in Requests, NEW s, At(r, s)
  PROVE  /\ proc[r] # Idle /\ proc[r].todo # <<>> /\ Where(proc[r]) = s
         /\ proc[r].op \in OpNames /\ proc[r].of \in Customers /\ proc[r].pw \in Passwords
         /\ proc[r] \in Procs /\ Placed(proc[r])
<1>1. proc[r] \in Procs /\ Placed(proc[r]) /\ proc[r].todo # <<>> /\ Head(proc[r].todo) = s
  BY DEF ProcTypes, At
<1>. QED
  BY <1>1, PlacedRequest

\* A step moves its request on, ends it, or sends it to its cleanup.
LEMMA StepMoves ==
  ASSUME Types, NEW r \in Requests, Step(r)
  PROVE  /\ ProcTypes' /\ Others(r) /\ proc[r] \in Procs /\ Placed(proc[r]) /\ proc[r] # Idle
         /\ UNCHANGED <<sa, kill, ops>>
<1>. DEFINE Kept == ProcTypes' /\ Others(r)
<1>. USE DEF Types
<1>1. \A s : At(r, s) => proc[r] # Idle /\ proc[r].todo # <<>> /\ proc[r] \in Procs /\ Placed(proc[r])
  BY AtStep
<1>2. proc[r].todo # <<>> /\ Go(r) => Kept
  BY GoMoves
<1>3. Finish(r) => Kept
  BY FinishMoves
<1>4. \A s : At(r, s) => (Failing(r) => Kept)
  <2>1. ASSUME NEW s, At(r, s), Failing(r) PROVE Kept
    <3>1. CASE proc[r].op = "create"
      BY <1>1, <2>1, <3>1, CleanupMoves DEF Failing
    <3>2. CASE proc[r].op \in {"rotate", "delete", "deleteuser", "reclaim"}
      BY <1>3, <2>1, <3>2 DEF Failing
    <3>3. CASE proc[r].op \notin {"create", "rotate", "delete", "deleteuser", "reclaim"}
      BY <1>1, <1>2, <2>1, <3>3 DEF Failing
    <3>. QED
      BY <3>1, <3>2, <3>3
  <2>. QED
    BY <2>1
<1>5. CASE Insert(r)
  BY <1>1, <1>2, <1>3, <1>4, <1>5 DEF Insert, stores
<1>6. CASE Append_(r)
  BY <1>1, <1>2, <1>3, <1>4, <1>6 DEF Append_, stores
<1>7. CASE Commit(r)
  BY <1>1, <1>2, <1>3, <1>4, <1>7 DEF Commit, stores
<1>8. CASE Cleanup(r)
  BY <1>1, <1>2, <1>3, <1>4, <1>8 DEF Cleanup, stores
<1>9. CASE Reload(r)
  BY <1>1, <1>2, <1>3, <1>4, <1>9 DEF Reload, stores
<1>10. CASE SetUser(r)
  BY <1>1, <1>2, <1>3, <1>4, <1>10 DEF SetUser, stores
<1>11. CASE ReplaceSecret(r)
  BY <1>1, <1>2, <1>3, <1>4, <1>11 DEF ReplaceSecret, stores
<1>12. CASE WriteRadcheck(r)
  BY <1>1, <1>2, <1>3, <1>4, <1>12 DEF WriteRadcheck, stores
<1>13. CASE SetStatus(r)
  BY <1>1, <1>2, <1>3, <1>4, <1>13 DEF SetStatus, stores
<1>14. CASE Disable(r)
  BY <1>1, <1>2, <1>3, <1>4, <1>14 DEF Disable, stores
<1>15. CASE DeleteUsers(r)
  BY <1>1, <1>2, <1>3, <1>4, <1>15 DEF DeleteUsers, stores
<1>16. CASE SweepOrphans(r)
  BY <1>1, <1>2, <1>3, <1>4, <1>16 DEF SweepOrphans, stores
<1>17. CASE DeleteDevices(r)
  BY <1>1, <1>2, <1>3, <1>4, <1>17 DEF DeleteDevices, stores
<1>18. CASE RemoveBlock(r)
  BY <1>1, <1>2, <1>3, <1>4, <1>18 DEF RemoveBlock, stores
<1>19. CASE PurgeRadcheck(r)
  BY <1>1, <1>2, <1>3, <1>4, <1>19 DEF PurgeRadcheck, stores
<1>20. CASE DeleteCustomer(r)
  BY <1>1, <1>2, <1>3, <1>4, <1>20 DEF DeleteCustomer, stores
<1>21. CASE BulkDelete(r)
  <2>1. At(r, "transaction") /\ UNCHANGED <<sa, kill, ops>>
    BY <1>21 DEF BulkDelete
  <2>2. CASE Finish(r)
    BY <1>1, <1>3, <2>1, <2>2
  <2>3. CASE proc' = [proc EXCEPT ![r].named = device[Of(r)] = "own", ![r].todo = Tail(@)]
    BY <1>1, <2>1, <2>3, TransactionMoves
  <2>. QED
    BY <1>21, <2>2, <2>3 DEF BulkDelete
<1>22. CASE FullSweep(r)
  BY <1>1, <1>2, <1>3, <1>4, <1>22 DEF FullSweep, stores
<1>23. CASE Retire(r)
  BY <1>1, <1>2, <1>3, <1>4, <1>23 DEF Retire, stores
<1>24. CASE Reclaim(r)
  BY <1>1, <1>2, <1>3, <1>4, <1>24 DEF Reclaim, stores
<1>25. CASE PreClean(r)
  BY <1>1, <1>2, <1>3, <1>4, <1>25 DEF PreClean, stores
<1>. QED
  BY <1>5, <1>6, <1>7, <1>8, <1>9, <1>10, <1>11, <1>12, <1>13, <1>14, <1>15, <1>16, <1>17, <1>18,
     <1>19, <1>20, <1>21, <1>22, <1>23, <1>24, <1>25 DEF Step

\* A step writes what fits the stores.
LEMMA StepTypes ==
  ASSUME Types, NEW r \in Requests, Step(r)
  PROVE  StoreTypes' /\ taint' \in [Customers -> SUBSET Taints] /\ fails' \in 0 .. MaxFail
<1>1. Of(r) \in Customers /\ proc[r].pw \in Numbers
  BY StepMoves, BoundsAreNaturals DEF Placed, Of, Passwords, Numbers
<1>2. None \in Numbers
  BY BoundsAreNaturals DEF None, Numbers
<1>3. /\ Fail(Of(r)) => taint' \in [Customers -> SUBSET Taints] /\ fails' \in 0 .. MaxFail
      /\ NoFailure => taint' \in [Customers -> SUBSET Taints] /\ fails' \in 0 .. MaxFail
  BY <1>1, FailTypes
<1>4. UNCHANGED <<taint, fails>> => taint' \in [Customers -> SUBSET Taints] /\ fails' \in 0 .. MaxFail
  BY DEF Types
<1>5. StoreTypes
  BY DEF Types
<1>6. CASE Insert(r)
  <2>1. "overlap" \in Taints
    BY DEF Taints
  <2>2. taint' \in [Customers -> SUBSET Taints]
    BY <1>1, <1>6, <2>1 DEF Insert, Types
  <2>. QED
    BY <1>5, <1>6, <2>2 DEF Insert, stores, StoreTypes, Types
<1>7. CASE Append_(r)
  BY <1>1, <1>2, <1>3, <1>4, <1>5, <1>7 DEF Append_, StoreTypes, stores
<1>8. CASE Commit(r)
  BY <1>1, <1>2, <1>3, <1>4, <1>5, <1>8 DEF Commit, StoreTypes, stores
<1>9. CASE Cleanup(r)
  BY <1>1, <1>2, <1>3, <1>4, <1>5, <1>9 DEF Cleanup, StoreTypes, stores
<1>10. CASE Reload(r)
  BY <1>1, <1>2, <1>3, <1>4, <1>5, <1>10 DEF Reload, StoreTypes, stores
<1>11. CASE SetUser(r)
  BY <1>1, <1>2, <1>3, <1>4, <1>5, <1>11 DEF SetUser, StoreTypes, stores
<1>12. CASE ReplaceSecret(r)
  BY <1>1, <1>2, <1>3, <1>4, <1>5, <1>12 DEF ReplaceSecret, StoreTypes, stores
<1>13. CASE WriteRadcheck(r)
  BY <1>1, <1>2, <1>3, <1>4, <1>5, <1>13 DEF WriteRadcheck, StoreTypes, stores
<1>14. CASE SetStatus(r)
  BY <1>1, <1>2, <1>3, <1>4, <1>5, <1>14 DEF SetStatus, StoreTypes, stores
<1>15. CASE Disable(r)
  BY <1>1, <1>2, <1>3, <1>4, <1>5, <1>15 DEF Disable, StoreTypes, stores
<1>16. CASE DeleteUsers(r)
  BY <1>1, <1>2, <1>3, <1>4, <1>5, <1>16 DEF DeleteUsers, StoreTypes, stores
<1>17. CASE SweepOrphans(r)
  BY <1>1, <1>2, <1>3, <1>4, <1>5, <1>17 DEF SweepOrphans, StoreTypes, stores
<1>18. CASE DeleteDevices(r)
  BY <1>1, <1>2, <1>3, <1>4, <1>5, <1>18 DEF DeleteDevices, StoreTypes, stores
<1>19. CASE RemoveBlock(r)
  BY <1>1, <1>2, <1>3, <1>4, <1>5, <1>19 DEF RemoveBlock, StoreTypes, stores
<1>20. CASE PurgeRadcheck(r)
  BY <1>1, <1>2, <1>3, <1>4, <1>5, <1>20 DEF PurgeRadcheck, StoreTypes, stores
<1>21. CASE DeleteCustomer(r)
  BY <1>1, <1>2, <1>3, <1>4, <1>5, <1>21 DEF DeleteCustomer, StoreTypes, stores
<1>22. CASE BulkDelete(r)
  BY <1>1, <1>2, <1>3, <1>4, <1>5, <1>22 DEF BulkDelete, StoreTypes, stores
<1>23. CASE FullSweep(r)
  BY <1>1, <1>2, <1>3, <1>4, <1>5, <1>23 DEF FullSweep, StoreTypes, stores
<1>24. CASE Retire(r)
  BY <1>1, <1>2, <1>3, <1>4, <1>5, <1>24 DEF Retire, StoreTypes, stores
<1>25. CASE Reclaim(r)
  BY <1>1, <1>2, <1>3, <1>4, <1>5, <1>25 DEF Reclaim, StoreTypes, stores
<1>26. CASE PreClean(r)
  BY <1>1, <1>2, <1>3, <1>4, <1>5, <1>26 DEF PreClean, StoreTypes, stores
<1>. QED
  BY <1>6, <1>7, <1>8, <1>9, <1>10, <1>11, <1>12, <1>13, <1>14, <1>15, <1>16, <1>17, <1>18,
     <1>19, <1>20, <1>21, <1>22, <1>23, <1>24, <1>25, <1>26 DEF Step

\* The kill writes what fits the stores and its own record.
LEMMA KillTypesKept ==
  ASSUME Types, KillStep \/ KillAborted
  PROVE  /\ KillTypes' /\ StoreTypes' /\ UNCHANGED <<proc, ops>>
         /\ sa' \in [Customers -> BOOLEAN] /\ taint' \in [Customers -> SUBSET Taints]
         /\ fails' \in 0 .. MaxFail
<1>. USE DEF Types
<1>1. KillTypes /\ StoreTypes
  OBVIOUS
<1>2. None \in Numbers
  BY BoundsAreNaturals DEF None, Numbers
<1>3. ASSUME kill' = Quiet PROVE KillTypes'
  BY <1>2, <1>3 DEF KillTypes, Kills, Quiet
<1>4. \A c \in Customers :
        /\ Fail(c) => taint' \in [Customers -> SUBSET Taints] /\ fails' \in 0 .. MaxFail
        /\ NoFailure => taint' \in [Customers -> SUBSET Taints] /\ fails' \in 0 .. MaxFail
  BY FailTypes
<1>5. CASE SelectExpired
  <2>1. "overlap" \in Taints
    BY DEF Taints
  <2>2. taint' \in [Customers -> SUBSET Taints]
    BY <1>5, <2>1 DEF SelectExpired
  <2>3. row \in [Customers -> Numbers]
    BY DEF StoreTypes
  <2>4. PICK found \in SUBSET Customers :
          \E known \in SUBSET found :
            kill' = [Quiet EXCEPT !.at = "cut", !.todo = found, !.victims = found, !.ids = row,
                                  !.known = known]
    BY <1>5 DEF SelectExpired
  <2>5. PICK known \in SUBSET found :
          kill' = [Quiet EXCEPT !.at = "cut", !.todo = found, !.victims = found, !.ids = row,
                                !.known = known]
    BY <2>4
  <2>6. /\ kill' \in Kills /\ kill'.at = "cut" /\ kill'.now = Nobody
        /\ kill'.todo = found /\ kill'.victims = found /\ kill'.known = known
    BY <2>3, <2>5 DEF Kills, Quiet
  <2>7. KillTypes'
    BY <2>6 DEF KillTypes
  <2>. QED
    BY <1>1, <1>5, <2>2, <2>7 DEF SelectExpired, stores, StoreTypes
<1>6. ASSUME NEW c \in Customers, CutOff(c)
      PROVE  /\ KillTypes' /\ StoreTypes' /\ UNCHANGED <<proc, ops>>
             /\ sa' \in [Customers -> BOOLEAN] /\ taint' \in [Customers -> SUBSET Taints]
             /\ fails' \in 0 .. MaxFail
  <2>1. /\ kill.at = "cut" /\ c \in kill.todo
        /\ kill' = [kill EXCEPT !.at = "unblock", !.now = c, !.todo = @ \ {c}]
    BY <1>6 DEF CutOff
  <2>2. /\ kill' \in Kills /\ kill'.at = "unblock" /\ kill'.now = c
        /\ kill'.todo = kill.todo \ {c} /\ kill'.victims = kill.victims /\ kill'.known = kill.known
    BY <2>1 DEF KillTypes, Kills
  <2>3. KillTypes'
    BY <2>1, <2>2 DEF KillTypes
  <2>4. sa' \in [Customers -> BOOLEAN]
    BY <1>6 DEF CutOff, HangUp
  <2>. QED
    BY <1>1, <1>4, <1>6, <2>3, <2>4 DEF CutOff, HangUp, stores, StoreTypes
<1>7. CASE Unblock
  <2>1. kill.now \in Customers
    BY <1>7 DEF Unblock, KillTypes, Kills
  <2>2. KillTypes'
    <3>1. kill' = [kill EXCEPT !.at = IF kill.todo = {} THEN "commit" ELSE "cut", !.now = Nobody]
      BY <1>7 DEF Unblock
    <3>2. /\ kill' \in Kills /\ kill'.at = (IF kill.todo = {} THEN "commit" ELSE "cut")
          /\ kill'.now = Nobody
          /\ kill'.todo = kill.todo /\ kill'.victims = kill.victims /\ kill'.known = kill.known
      BY <3>1 DEF KillTypes, Kills
    <3>. QED
      BY <3>2 DEF KillTypes
  <2>3. StoreTypes'
    BY <1>1, <1>2, <1>7, <2>1 DEF Unblock, StoreTypes
  <2>. QED
    BY <1>1, <1>4, <1>7, <2>1, <2>2, <2>3 DEF Unblock
<1>8. CASE CommitKill
  <2>1. StoreTypes'
    BY <1>1, <1>2, <1>8 DEF CommitKill, StoreTypes
  <2>. QED
    BY <1>3, <1>8, <2>1 DEF CommitKill
<1>9. CASE KillAborted
  <2>1. "failure" \in Taints
    BY DEF Taints
  <2>2. taint' \in [Customers -> SUBSET Taints]
    BY <1>9, <2>1 DEF KillAborted
  <2>3. fails' \in 0 .. MaxFail
    BY <1>9, BoundsAreNaturals DEF KillAborted
  <2>. QED
    BY <1>1, <1>3, <1>9, <2>2, <2>3 DEF KillAborted, stores, StoreTypes
<1>. QED
  BY <1>5, <1>6, <1>7, <1>8, <1>9 DEF KillStep

\* A request of one transaction, or the world.
Alone(c) ==
  \/ Rename(c) \/ Renew(c) \/ BulkStatus(c) \/ BotRenew(c) \/ Switch(c)
  \/ Expire(c) \/ Connect(c) \/ Disconnect(c)

\* So do the requests of one transaction, and the world.
LEMMA AloneTypes ==
  ASSUME Types, NEW c \in Customers, Alone(c)
  PROVE  /\ StoreTypes' /\ UNCHANGED <<proc, kill, fails>>
         /\ sa' \in [Customers -> BOOLEAN] /\ taint' \in [Customers -> SUBSET Taints]
         /\ ops' \in Numbers
<1>. USE DEF Types
<1>1. StoreTypes
  OBVIOUS
<1>2. {"rename", "bulk", "renewed"} \subseteq Taints
  BY DEF Taints
<1>3. Operated => ops' \in Numbers
  BY BoundsAreNaturals DEF Operated, Numbers
<1>4. CASE Rename(c)
  BY <1>1, <1>2, <1>3, <1>4 DEF Rename, StoreTypes, Taint
<1>5. CASE Renew(c)
  BY <1>1, <1>2, <1>3, <1>5 DEF Renew, StoreTypes
<1>6. CASE BulkStatus(c)
  BY <1>1, <1>2, <1>3, <1>6 DEF BulkStatus, StoreTypes, Taint
<1>7. CASE BotRenew(c)
  BY <1>1, <1>2, <1>3, <1>7 DEF BotRenew, StoreTypes
<1>8. CASE Switch(c)
  BY <1>1, <1>2, <1>3, <1>8 DEF Switch, StoreTypes
<1>9. CASE Expire(c)
  BY <1>1, <1>9 DEF Expire, StoreTypes
<1>10. CASE Connect(c)
  BY <1>1, <1>10 DEF Connect, StoreTypes, stores
<1>11. CASE Disconnect(c)
  BY <1>1, <1>11 DEF Disconnect, StoreTypes, stores
<1>. QED
  BY <1>4, <1>5, <1>6, <1>7, <1>8, <1>9, <1>10, <1>11 DEF Alone

\* Starting a request does not touch the stores.
LEMMA StartTypes ==
  ASSUME Types, NEW r \in Requests, NEW c \in Customers, NEW op \in Ops, Start(r, op, c)
  PROVE  /\ StoreTypes' /\ UNCHANGED <<stores, sa, kill, fails>>
         /\ taint' \in [Customers -> SUBSET Taints] /\ ops' \in Numbers
<1>1. UNCHANGED <<stores, sa, kill, fails>>
  BY DEF Start
<1>2. StoreTypes'
  BY <1>1 DEF stores, Types, StoreTypes
<1>3. ops' \in Numbers
  BY BoundsAreNaturals DEF Start, Types, Numbers
<1>4. {"overlap", "reset"} \subseteq Taints
  BY DEF Taints
<1>5. taint' \in [Customers -> SUBSET Taints]
  BY <1>4 DEF Start, Types
<1>. QED
  BY <1>1, <1>2, <1>3, <1>5

\* A killed worker leaves what it had committed.
LEMMA KilledTypes ==
  ASSUME Types, NEW r \in Requests, Killed(r)
  PROVE  /\ UNCHANGED <<stores, sa, kill, ops>> /\ ProcTypes' /\ Others(r) /\ proc'[r] = Idle
         /\ taint' \in [Customers -> SUBSET Taints] /\ fails' \in 0 .. MaxFail
         /\ proc[r].of \in Customers
<1>1. proc[r].of \in Customers
  BY DEF Killed, Types, ProcTypes, Placed
<1>2. taint' \in [Customers -> SUBSET Taints] /\ fails' \in 0 .. MaxFail
  BY <1>1, FailTypes DEF Killed, Of
<1>3. ProcTypes' /\ Others(r) /\ proc'[r] = Idle
  BY FinishMoves DEF Killed, Types
<1>. QED
  BY <1>1, <1>2, <1>3 DEF Killed

\* What may happen.
LEMMA NextCases ==
  ASSUME Next
  PROVE  \/ \E r \in Requests, c \in Customers : \E op \in Ops : Start(r, op, c)
         \/ \E r \in Requests : Step(r)
         \/ \E r \in Requests : Killed(r)
         \/ \E c \in Customers : Alone(c)
         \/ KillStep \/ KillAborted
BY DEF Next, Alone

\* The first state is typed.
LEMMA TypesFirst == Init => Types
<1>1. None \in Numbers /\ 0 \in Numbers /\ 0 \in 0 .. MaxFail
  BY BoundsAreNaturals DEF None, Numbers
<1>2. Quiet \in Kills /\ Quiet.todo = {} /\ Quiet.known = {} /\ Quiet.at = "idle"
  BY <1>1 DEF Quiet, Kills
<1>. QED
  BY <1>1, <1>2, IdleIsTyped DEF Init, Types, StoreTypes, ProcTypes, KillTypes

\* Every action keeps the types.
LEMMA TypesNext == Types /\ [Next]_vars => Types'
<1>. SUFFICES ASSUME Types, [Next]_vars PROVE Types'
  OBVIOUS
<1>. USE DEF Types
<1>1. ASSUME NEW r \in Requests, NEW c \in Customers, NEW op \in Ops, Start(r, op, c)
      PROVE  Types'
  <2>1. KillTypes' /\ sa' \in [Customers -> BOOLEAN] /\ fails' \in 0 .. MaxFail
    BY <1>1, StartTypes DEF KillTypes
  <2>. QED
    BY <1>1, <2>1, StartTypes, StartMoves
<1>2. ASSUME NEW r \in Requests, Step(r) PROVE Types'
  <2>1. KillTypes' /\ sa' \in [Customers -> BOOLEAN] /\ ops' \in Numbers
    BY <1>2, StepMoves DEF KillTypes
  <2>. QED
    BY <1>2, <2>1, StepMoves, StepTypes
<1>3. ASSUME NEW r \in Requests, Killed(r) PROVE Types'
  <2>1. KillTypes' /\ StoreTypes' /\ sa' \in [Customers -> BOOLEAN] /\ ops' \in Numbers
    BY <1>3, KilledTypes DEF KillTypes, StoreTypes, stores
  <2>. QED
    BY <1>3, <2>1, KilledTypes
<1>4. ASSUME NEW c \in Customers, Alone(c) PROVE Types'
  <2>1. KillTypes' /\ ProcTypes' /\ fails' \in 0 .. MaxFail
    BY <1>4, AloneTypes DEF KillTypes, ProcTypes
  <2>. QED
    BY <1>4, <2>1, AloneTypes
<1>5. CASE KillStep \/ KillAborted
  <2>1. ProcTypes' /\ ops' \in Numbers
    BY <1>5, KillTypesKept DEF ProcTypes
  <2>. QED
    BY <1>5, <2>1, KillTypesKept
<1>6. CASE UNCHANGED vars
  BY <1>6 DEF vars, stores, StoreTypes, ProcTypes, KillTypes
<1>. QED
  BY <1>1, <1>2, <1>3, <1>4, <1>5, <1>6, NextCases

\* Every variable keeps its type: a customer's row is numbered by an operation,
\* what a request has ahead is what is left of its operation's code, and the
\* kill goes through its victims one by one.
THEOREM TypeCorrect == Spec => []TypeOK
<1>1. Types => TypeOK
  <2>. SUFFICES ASSUME Types PROVE TypeOK
    OBVIOUS
  <2>1. DOMAIN Programs = OpNames
    BY DEF Programs, OpNames
  <2>2. \A r \in Requests : proc[r] \in Procs
    BY DEF Types, ProcTypes
  <2>3. kill \in Kills /\ kill.todo \subseteq kill.victims /\ kill.known \subseteq kill.victims
    BY DEF Types, KillTypes
  <2>. QED
    BY <2>1, <2>2, <2>3 DEF Types, StoreTypes, Procs, Kills, TypeOK, Numbers
<1>. QED
  BY <1>1, TypesFirst, TypesNext, PTL DEF Spec

-----------------------------------------------------------------------------
(* What holds of a customer all the time: the inductive invariant.         *)

\* A customer has a number while it has a row, and these operations start
\* from one that has.
OfARow == {"rotate", "archive", "unarchive", "delete", "bulkdelete", "deleteuser"}
Rows ==
  /\ \A c \in Customers : cust[c] = "absent" <=> row[c] = None
  /\ \A r \in Requests : proc[r].op \in OfARow => proc[r].id # None

\* Some delete_customer of c is at one of these steps and knows the identity.
Deleting(c, steps) ==
  \E r \in Requests : /\ proc[r].of = c /\ proc[r].op = "delete" /\ proc[r].named
                      /\ Where(proc[r]) \in steps
Writing(c)   == \E r \in Requests : proc[r].of = c /\ proc[r].op \in Writers
Archiving(c) == \E r \in Requests : /\ proc[r].of = c /\ proc[r].op = "archive"
                                    /\ Where(proc[r]) = "disable"

\* A request that writes a password has the customer for itself, and so has a
\* create_client once it has inserted: others still wait for the name.
WriterAlone(c) ==
  \A r \in Requests : proc[r].of = c /\ proc[r].op \in Writers =>
     c \notin kill.victims /\ \A s \in Requests : proc[s].of = c => s = r

CreatorAlone(c) ==
  \A r \in Requests : proc[r].of = c /\ proc[r].op = "create" /\ Where(proc[r]) # "insert" =>
     /\ c \notin kill.victims
     /\ \A s \in Requests \ {r} :
          proc[s].of = c => proc[s].op = "create" /\ Where(proc[s]) = "insert"

\* What request p of c has done and found, if p writes ...
RotateStage(p, c) ==
  p.op = "rotate" =>
    /\ cust[c] = "active" /\ row[c] = p.id /\ device[c] = "own" /\ user[c] # None /\ block[c] # None
    /\ Where(p) # "user" => user[c] = p.pw
    /\ Where(p) \in {"reload", "radcheck"} => block[c] = p.pw

UnarchiveStage(p, c) ==
  p.op = "unarchive" =>
    /\ row[c] = p.id /\ device[c] = "own" /\ user[c] # None /\ block[c] # None
    /\ Where(p) = "status" => cust[c] = "archived" /\ radcheck[c] \notin Passwords
    /\ Where(p) # "status" => cust[c] = "active"
    /\ Where(p) \in {"conf", "radcheck", "reload"} => user[c] = p.pw
    /\ Where(p) \in {"radcheck", "reload"} => block[c] = p.pw
    /\ Where(p) = "reload" => radcheck[c] = p.pw

ReclaimStage(p, c) ==
  p.op = "reclaim" =>
    /\ Where(p) = "reclaim" => cust[c] = "absent"
    /\ Where(p) # "reclaim" =>
         cust[c] = "active" /\ device[c] = "own" /\ user[c] = p.pw /\ radcheck[c] = p.pw
    /\ Where(p) = "append" => block[c] = None
    /\ Where(p) = "reload" => block[c] = p.pw

\* ... or creates ...
CreateStage(p, c) ==
  p.op = "create" =>
    /\ Where(p) # "cleanup"
    /\ Where(p) # "insert" => cust[c] = "absent" /\ user[c] = None
    /\ Where(p) = "append" => block[c] = None
    /\ Where(p) \in {"reload", "commit"} => block[c] = p.pw

\* ... or disables or removes.  The customer's row is the one it looked up or
\* it is gone, never another.
Removers == {"archive", "delete", "bulkdelete", "deleteuser", "cleanup"}
RemoveStage(p, c) ==
  p.op \in Removers =>
    /\ row[c] \in {p.id, None}
    /\ p.op = "cleanup" => row[c] = None
    /\ p.op \in {"bulkdelete", "deleteuser"} /\ Where(p) \notin {"transaction", "fullsweep"} => row[c] = None
    /\ p.op = "archive" /\ Where(p) = "disable" => cust[c] # "active"
    /\ p.op = "delete" =>
         /\ Where(p) # "users" \/ ~p.named => user[c] = None
         /\ Where(p) \in {"unblock", "purge", "reload", "customer"} \/ ~p.named => device[c] = "none"
    /\ p.op = "deleteuser" /\ Where(p) = "fullsweep" /\ ~p.named => user[c] = None

\* What the kill has done to its victim.
KillStage(c) ==
  c \in kill.victims =>
    /\ row[c] \in {kill.ids[c], None} /\ kill.ids[c] # None
    /\ c \in kill.known /\ c \notin kill.todo /\ c # kill.now => block[c] = None
    /\ c \notin kill.known => user[c] = None

\* What there is of a customer that has a row: somebody is at work on it
\* whenever its device, users row, radcheck row and block do not agree.
Present(c) ==
  /\ cust[c] = "absent" => device[c] = "none"
  /\ device[c] # "renamed"
  /\ cust[c] # "absent" /\ user[c] = None =>
       Deleting(c, {"sweep", "devices", "unblock", "purge", "reload", "customer"})
  /\ cust[c] # "absent" /\ device[c] = "none" =>
       user[c] = None /\ Deleting(c, {"unblock", "purge", "reload", "customer"})
  /\ cust[c] # "absent" /\ user[c] # None =>
       /\ block[c] = user[c] \/ c \in kill.victims \ kill.todo \/ Writing(c)
       /\ cust[c] = "active" => radcheck[c] = user[c] \/ Writing(c)
       /\ cust[c] = "archived" /\ radcheck[c] \in Passwords => Archiving(c)

\* A block or a password that has no users row with a customer is about to be
\* removed, or its customer is being created.
Left(c) ==
  /\ block[c] # None =>
       \/ cust[c] # "absent" /\ user[c] # None
       \/ Deleting(c, {"sweep", "devices", "unblock"})
       \/ \E r \in Requests : /\ proc[r].of = c /\ proc[r].op \in {"bulkdelete", "deleteuser"}
                              /\ proc[r].named /\ Where(proc[r]) = "unblock"
       \/ \E r \in Requests : /\ proc[r].of = c /\ proc[r].op = "create"
                              /\ Where(proc[r]) \in {"reload", "commit"}
  /\ radcheck[c] \in Passwords =>
       \/ cust[c] # "absent" /\ user[c] # None
       \/ Deleting(c, {"sweep", "devices", "unblock", "purge"})

\* What request p of c knows.
Stage(p, c) ==
  /\ p.op # "reset"
  /\ RotateStage(p, c) /\ UnarchiveStage(p, c) /\ ReclaimStage(p, c)
  /\ CreateStage(p, c) /\ RemoveStage(p, c)

Holds(c) ==
  /\ WriterAlone(c) /\ CreatorAlone(c)
  /\ \A r \in Requests : proc[r].of = c => Stage(proc[r], c)
  /\ KillStage(c) /\ Present(c) /\ Left(c)

Sound(c) == taint[c] = {} => Holds(c)

IInv == Types /\ Rows /\ \A c \in Customers : Sound(c)

-----------------------------------------------------------------------------
(* Steps that are none of the customer's business.                         *)

\* Nothing of c changes: not what is stored, nor the kill's work on it, nor its requests.
SameStores(c) ==
  /\ cust'[c] = cust[c] /\ row'[c] = row[c] /\ device'[c] = device[c] /\ user'[c] = user[c]
  /\ radcheck'[c] = radcheck[c] /\ block'[c] = block[c]
SameKill(c) ==
  \/ c \notin kill.victims /\ c \notin kill'.victims
  \/ /\ c \in kill.victims <=> c \in kill'.victims
     /\ c \in kill.todo <=> c \in kill'.todo
     /\ c \in kill.known <=> c \in kill'.known
     /\ c = kill.now <=> c = kill'.now
     /\ kill.ids[c] = kill'.ids[c]
SameRequests(c) ==
  \A x \in Requests : proc'[x] = proc[x] \/ (proc[x].of # c /\ proc'[x].of # c)

\* What a request knows of a customer of which nothing changes.
LEMMA StagesKept ==
  ASSUME NEW c \in Customers, NEW p, Stage(p, c), SameStores(c)
  PROVE  /\ p.op # "reset" /\ RotateStage(p, c)' /\ UnarchiveStage(p, c)' /\ ReclaimStage(p, c)'
         /\ CreateStage(p, c)' /\ RemoveStage(p, c)'
<1>1. RotateStage(p, c)'
  BY DEF Stage, SameStores, RotateStage
<1>2. UnarchiveStage(p, c)'
  BY DEF Stage, SameStores, UnarchiveStage
<1>3. ReclaimStage(p, c)'
  BY DEF Stage, SameStores, ReclaimStage
<1>4. CreateStage(p, c)'
  BY DEF Stage, SameStores, CreateStage
<1>5. RemoveStage(p, c)'
  BY DEF Stage, SameStores, RemoveStage
<1>. QED
  BY <1>1, <1>2, <1>3, <1>4, <1>5 DEF Stage

\* What the kill may do without the others noticing.
KillMoves(c) ==
  /\ c \in kill'.victims =>
       \/ c \in kill.victims
       \/ \A r \in Requests : proc[r].of = c =>
            proc[r].op \notin Writers /\ (proc[r].op = "create" => Where(proc[r]) = "insert")
  /\ c \in kill.victims \ kill.todo => c \in kill'.victims \ kill'.todo

\* The kill moves on.
LEMMA Unnoticed ==
  ASSUME NEW c \in Customers, Holds(c), SameStores(c), SameRequests(c), KillMoves(c), KillStage(c)'
  PROVE  Holds(c)'
<1>1. WriterAlone(c)'
  BY DEF Holds, WriterAlone, KillMoves, SameRequests
<1>2. CreatorAlone(c)'
  BY DEF Holds, CreatorAlone, KillMoves, SameRequests
<1>3. ASSUME NEW r \in Requests, (proc[r].of = c)' PROVE Stage(proc[r], c)'
  <2>1. proc'[r] = proc[r] /\ proc[r].of = c
    BY <1>3 DEF SameRequests
  <2>2. Stage(proc[r], c)
    BY <2>1 DEF Holds
  <2>. QED
    BY <2>1, <2>2, StagesKept DEF Stage
<1>4. ASSUME NEW steps PROVE Deleting(c, steps)' <=> Deleting(c, steps)
  BY DEF Deleting, SameRequests
<1>5. Present(c)'
  <2>1. Writing(c)' <=> Writing(c)
    BY DEF Writing, SameRequests
  <2>2. Archiving(c)' <=> Archiving(c)
    BY DEF Archiving, SameRequests
  <2>. QED
    BY <1>4, <2>1, <2>2 DEF Present, Holds, SameStores, KillMoves
<1>6. Left(c)'
  BY <1>4 DEF Left, Holds, SameStores, SameRequests
<1>. QED
  BY <1>1, <1>2, <1>3, <1>5, <1>6 DEF Holds

\* Nothing happens to the customer at all.
LEMMA Elsewhere ==
  ASSUME NEW c \in Customers, Holds(c), SameStores(c), SameKill(c), SameRequests(c)
  PROVE  Holds(c)'
<1>1. KillStage(c)'
  BY DEF Holds, KillStage, SameKill, SameStores
<1>2. KillMoves(c)
  BY DEF SameKill, KillMoves
<1>. QED
  BY <1>1, <1>2, Unnoticed

\* The operations a step belongs to.
Within(op, s) ==
  \/ op = "create" /\ s \in {"insert", "append", "reload", "commit", "cleanup"}
  \/ op = "rotate" /\ s \in {"user", "conf", "reload", "radcheck"}
  \/ op = "archive" /\ s \in {"status", "disable"}
  \/ op = "unarchive" /\ s \in {"status", "user", "conf", "radcheck", "reload"}
  \/ op = "reset" /\ s = "radcheck"
  \/ op = "delete" /\ s \in {"users", "sweep", "devices", "unblock", "purge", "reload", "customer"}
  \/ op = "bulkdelete" /\ s \in {"transaction", "unblock", "reload"}
  \/ op = "deleteuser" /\ s \in {"fullsweep", "unblock", "reload"}
  \/ op = "cleanup" /\ s \in {"retire", "unblock", "reload"}
  \/ op = "reclaim" /\ s \in {"reclaim", "preclean", "append", "reload"}

\* The step a request is at is one of its operation's.
LEMMA StepOfProgram ==
  ASSUME NEW p \in Procs, Placed(p), p # Idle
  PROVE  Within(p.op, Where(p)) /\ p.todo # <<>>
<1>1. p.todo # <<>>
  <2>1. CASE p.op = "create" /\ p.todo = <<"cleanup">>
    BY <2>1
  <2>2. ASSUME NEW k \in 1 .. Len(Programs[p.op]), p.todo = Rest(p.op, k)
        PROVE  p.todo # <<>>
    <3>1. Programs[p.op] \in Seq(StepNames)
      BY ProgramsAreSequences DEF Placed
    <3>2. ASSUME NEW P \in Seq(StepNames), NEW j \in 1 .. Len(P), NEW t, t = SubSeq(P, j, Len(P))
          PROVE  t # <<>>
      BY ONLY <3>2, RestOfSequence
    <3>. QED
      BY <2>2, <3>1, <3>2 DEF Rest
  <2>. QED
    BY <2>1, <2>2 DEF Placed
<1>2. CASE Len(p.todo) = 1
  <2>1. Ends(p.op, Where(p))
    BY <1>1, <1>2, PlacedRequest
  <2>. QED
    BY <1>1, <2>1 DEF Ends, Within
<1>3. CASE Len(p.todo) # 1
  <2>. DEFINE q == [p EXCEPT !.todo = Tail(@)]
  <2>1. Tail(p.todo) \in Seq(StepNames)
    BY <1>1, <1>3, PlacedRequest
  <2>2. /\ q \in Procs /\ q.op = p.op /\ q.of = p.of /\ q.id = p.id /\ q.pw = p.pw
        /\ q.todo = Tail(p.todo)
    BY <2>1 DEF Procs
  <2>. HIDE DEF q
  <2>3. Leads(p.op, Where(p), Where(q))
    BY <1>1, <1>3, <2>2, PlacedRequest DEF Goes
  <2>. QED
    BY <1>1, <2>3 DEF Leads, Within
<1>. QED
  BY <1>2, <1>3

-----------------------------------------------------------------------------
(* Rows.                                                                   *)

\* A request keeps what it is, if it goes on.
LEMMA StepKeeps ==
  ASSUME Types, NEW r \in Requests, Step(r)
  PROVE  \/ proc'[r] = Idle
         \/ proc'[r].op = proc[r].op /\ proc'[r].of = proc[r].of /\ proc'[r].id = proc[r].id
<1>. DEFINE Kept == \/ proc'[r] = Idle
                    \/ proc'[r].op = proc[r].op /\ proc'[r].of = proc[r].of /\ proc'[r].id = proc[r].id
<1>. USE DEF Types
<1>1. \A s : At(r, s) => proc[r] # Idle /\ proc[r].todo # <<>> /\ proc[r] \in Procs
  BY AtStep
<1>2. proc[r].todo # <<>> /\ Go(r) => Kept
  BY GoMoves DEF Moved, Goes
<1>3. Finish(r) => Kept
  BY FinishMoves
<1>4. \A s : At(r, s) => (Failing(r) => Kept)
  <2>1. ASSUME NEW s, At(r, s), Failing(r) PROVE Kept
    <3>1. CASE proc[r].op = "create"
      <4>1. proc' = [proc EXCEPT ![r].todo = <<"cleanup">>]
        BY <2>1, <3>1 DEF Failing, Jump
      <4>. QED
        BY <1>1, <2>1, <4>1 DEF ProcTypes, Procs
    <3>2. CASE proc[r].op \in {"rotate", "delete", "deleteuser", "reclaim"}
      BY <1>3, <2>1, <3>2 DEF Failing
    <3>3. CASE proc[r].op \notin {"create", "rotate", "delete", "deleteuser", "reclaim"}
      BY <1>1, <1>2, <2>1, <3>3 DEF Failing
    <3>. QED
      BY <3>1, <3>2, <3>3
  <2>. QED
    BY <2>1
<1>5. CASE Insert(r)
  BY <1>1, <1>2, <1>3, <1>4, <1>5 DEF Insert
<1>6. CASE Append_(r)
  BY <1>1, <1>2, <1>3, <1>4, <1>6 DEF Append_
<1>7. CASE Commit(r)
  BY <1>1, <1>2, <1>3, <1>4, <1>7 DEF Commit
<1>8. CASE Cleanup(r)
  BY <1>1, <1>2, <1>3, <1>4, <1>8 DEF Cleanup
<1>9. CASE Reload(r)
  BY <1>1, <1>2, <1>3, <1>4, <1>9 DEF Reload
<1>10. CASE SetUser(r)
  BY <1>1, <1>2, <1>3, <1>4, <1>10 DEF SetUser
<1>11. CASE ReplaceSecret(r)
  BY <1>1, <1>2, <1>3, <1>4, <1>11 DEF ReplaceSecret
<1>12. CASE WriteRadcheck(r)
  BY <1>1, <1>2, <1>3, <1>4, <1>12 DEF WriteRadcheck
<1>13. CASE SetStatus(r)
  BY <1>1, <1>2, <1>3, <1>4, <1>13 DEF SetStatus
<1>14. CASE Disable(r)
  BY <1>1, <1>2, <1>3, <1>4, <1>14 DEF Disable
<1>15. CASE DeleteUsers(r)
  BY <1>1, <1>2, <1>3, <1>4, <1>15 DEF DeleteUsers
<1>16. CASE SweepOrphans(r)
  BY <1>1, <1>2, <1>3, <1>4, <1>16 DEF SweepOrphans
<1>17. CASE DeleteDevices(r)
  BY <1>1, <1>2, <1>3, <1>4, <1>17 DEF DeleteDevices
<1>18. CASE RemoveBlock(r)
  BY <1>1, <1>2, <1>3, <1>4, <1>18 DEF RemoveBlock
<1>19. CASE PurgeRadcheck(r)
  BY <1>1, <1>2, <1>3, <1>4, <1>19 DEF PurgeRadcheck
<1>20. CASE DeleteCustomer(r)
  BY <1>1, <1>2, <1>3, <1>4, <1>20 DEF DeleteCustomer
<1>21. CASE BulkDelete(r)
  <2>1. At(r, "transaction")
    BY <1>21 DEF BulkDelete
  <2>2. CASE Finish(r)
    BY <1>3, <2>2
  <2>3. CASE proc' = [proc EXCEPT ![r].named = device[Of(r)] = "own", ![r].todo = Tail(@)]
    BY <2>1, <2>3, TransactionMoves DEF Goes
  <2>. QED
    BY <1>21, <2>2, <2>3 DEF BulkDelete
<1>22. CASE FullSweep(r)
  BY <1>1, <1>2, <1>3, <1>4, <1>22 DEF FullSweep
<1>23. CASE Retire(r)
  BY <1>1, <1>2, <1>3, <1>4, <1>23 DEF Retire
<1>24. CASE Reclaim(r)
  BY <1>1, <1>2, <1>3, <1>4, <1>24 DEF Reclaim
<1>25. CASE PreClean(r)
  BY <1>1, <1>2, <1>3, <1>4, <1>25 DEF PreClean
<1>. QED
  BY <1>5, <1>6, <1>7, <1>8, <1>9, <1>10, <1>11, <1>12, <1>13, <1>14, <1>15, <1>16, <1>17, <1>18,
     <1>19, <1>20, <1>21, <1>22, <1>23, <1>24, <1>25 DEF Step

\* Where a step creates the customer's row, deletes it or leaves it.
RowKept(c) ==
  \/ cust'[c] = "absent" /\ row'[c] = None
  \/ cust'[c] # "absent" /\ row'[c] # None
  \/ (cust'[c] = "absent" <=> cust[c] = "absent") /\ row'[c] = row[c]

\* The statements that create or delete a customer do so with its number.
LEMMA StepRows ==
  ASSUME Types, Rows, NEW r \in Requests, Step(r), NEW c \in Customers
  PROVE  RowKept(c)
<1>1. /\ Of(r) \in Customers /\ proc[r].pw # None /\ proc[r].op \in OpNames
      /\ \A s : At(r, s) => Where(proc[r]) = s
  BY StepMoves, BoundsAreNaturals DEF Placed, Of, Passwords, None, At, Where
<1>2. cust \in [Customers -> {"absent", "active", "archived"}] /\ row \in [Customers -> Numbers]
  BY DEF Types, StoreTypes
<1>3. \A d \in Customers : cust[d] = "absent" <=> row[d] = None
  BY DEF Rows
<1>4. CASE Insert(r)
  BY <1>1, <1>2, <1>4 DEF Insert, RowKept, stores
<1>5. CASE Append_(r)
  BY <1>1, <1>2, <1>5 DEF Append_, RowKept, stores
<1>6. CASE Commit(r)
  BY <1>1, <1>2, <1>6 DEF Commit, RowKept, stores
<1>7. CASE Cleanup(r)
  BY <1>1, <1>2, <1>7 DEF Cleanup, RowKept, stores
<1>8. CASE Reload(r)
  BY <1>1, <1>2, <1>8 DEF Reload, RowKept, stores
<1>9. CASE SetUser(r)
  BY <1>1, <1>2, <1>9 DEF SetUser, RowKept, stores
<1>10. CASE ReplaceSecret(r)
  BY <1>1, <1>2, <1>10 DEF ReplaceSecret, RowKept, stores
<1>11. CASE WriteRadcheck(r)
  BY <1>1, <1>2, <1>11 DEF WriteRadcheck, RowKept, stores
<1>12. CASE SetStatus(r)
  <2>1. proc[r].op \in {"archive", "unarchive"}
    BY <1>1, <1>12, StepOfProgram, StepMoves DEF SetStatus, Within
  <2>2. proc[r].id # None
    BY <2>1 DEF Rows, OfARow
  <2>. QED
    BY <1>1, <1>2, <1>3, <1>12, <2>2 DEF SetStatus, RowKept, SameRow
<1>13. CASE Disable(r)
  BY <1>1, <1>2, <1>13 DEF Disable, RowKept, stores
<1>14. CASE DeleteUsers(r)
  BY <1>1, <1>2, <1>14 DEF DeleteUsers, RowKept, stores
<1>15. CASE SweepOrphans(r)
  BY <1>1, <1>2, <1>15 DEF SweepOrphans, RowKept, stores
<1>16. CASE DeleteDevices(r)
  BY <1>1, <1>2, <1>16 DEF DeleteDevices, RowKept, stores
<1>17. CASE RemoveBlock(r)
  BY <1>1, <1>2, <1>17 DEF RemoveBlock, RowKept, stores
<1>18. CASE PurgeRadcheck(r)
  BY <1>1, <1>2, <1>18 DEF PurgeRadcheck, RowKept, stores
<1>19. CASE DeleteCustomer(r)
  BY <1>1, <1>2, <1>19 DEF DeleteCustomer, RowKept, stores
<1>20. CASE BulkDelete(r)
  BY <1>1, <1>2, <1>20 DEF BulkDelete, RowKept, stores
<1>21. CASE FullSweep(r)
  BY <1>1, <1>2, <1>21 DEF FullSweep, RowKept, stores
<1>22. CASE Retire(r)
  BY <1>1, <1>2, <1>22 DEF Retire, RowKept, stores
<1>23. CASE Reclaim(r)
  BY <1>1, <1>2, <1>23 DEF Reclaim, RowKept, stores
<1>24. CASE PreClean(r)
  BY <1>1, <1>2, <1>24 DEF PreClean, RowKept, stores
<1>. QED
  BY <1>4, <1>5, <1>6, <1>7, <1>8, <1>9, <1>10, <1>11, <1>12, <1>13, <1>14, <1>15, <1>16, <1>17,
     <1>18, <1>19, <1>20, <1>21, <1>22, <1>23, <1>24 DEF Step

\* Every action keeps a customer and its number together.
LEMMA RowsNext == Types /\ Rows /\ [Next]_vars => Rows'
<1>. SUFFICES ASSUME Types, Rows, [Next]_vars PROVE Rows'
  OBVIOUS
<1>. DEFINE Known(p) == p.op \in OfARow => p.id # None
<1>1. /\ cust \in [Customers -> {"absent", "active", "archived"}] /\ row \in [Customers -> Numbers]
      /\ \A c \in Customers : cust[c] = "absent" <=> row[c] = None
      /\ \A r \in Requests : Known(proc[r])
  BY DEF Types, StoreTypes, Rows
<1>2. ~(Idle.op \in OfARow)
  BY DEF Idle, OfARow
<1>3. ASSUME NEW r \in Requests, NEW c \in Customers, NEW op \in Ops, Start(r, op, c)
      PROVE  Rows'
  <2>1. UNCHANGED stores /\ Accepts(op, c)
    BY <1>3 DEF Start
  <2>3. Others(r) /\ proc'[r].op = op /\ proc'[r].id = row[c]
    BY <1>3, StartMoves
  <2>2. op \in OfARow => cust[c] # "absent"
    BY <2>1 DEF Accepts, OfARow
  <2>. QED
    BY <1>1, <2>1, <2>2, <2>3 DEF Rows, Others, stores
<1>4. ASSUME NEW r \in Requests, Step(r) PROVE Rows'
  <2>1. \A c \in Customers : cust'[c] = "absent" <=> row'[c] = None
    BY <1>1, <1>4, StepRows DEF RowKept
  <2>2. Others(r) /\ (proc'[r] = Idle \/ (proc'[r].op = proc[r].op /\ proc'[r].id = proc[r].id))
    BY <1>4, StepMoves, StepKeeps
  <2>. QED
    BY <1>1, <1>2, <2>1, <2>2 DEF Rows, Others
<1>5. ASSUME NEW r \in Requests, Killed(r) PROVE Rows'
  BY <1>1, <1>2, <1>5, KilledTypes DEF Rows, Others, stores
<1>6. ASSUME NEW c \in Customers, Alone(c) PROVE Rows'
  <2>1. UNCHANGED <<row, proc>>
    BY <1>6 DEF Alone, Rename, Renew, BulkStatus, BotRenew, Switch, Expire, Connect, Disconnect, stores
  <2>2. \A d \in Customers : cust'[d] = "absent" <=> cust[d] = "absent"
    <3>1. cust' = cust \/ (cust[c] # "absent" /\ \E s \in {"active", "archived"} : cust' = [cust EXCEPT ![c] = s])
      BY <1>6 DEF Alone, Rename, Renew, BulkStatus, BotRenew, Switch, Expire, Connect, Disconnect, stores
    <3>. QED
      BY <1>1, <3>1
  <2>. QED
    BY <1>1, <2>1, <2>2 DEF Rows
<1>7. CASE KillStep \/ KillAborted
  <2>1. UNCHANGED proc
    BY <1>7, KillTypesKept
  <2>2. \A c \in Customers : cust'[c] = "absent" <=> row'[c] = None
    BY <1>1, <1>7 DEF KillStep, KillAborted, SelectExpired, CutOff, Unblock, CommitKill, stores
  <2>. QED
    BY <1>1, <2>1, <2>2 DEF Rows
<1>8. CASE UNCHANGED vars
  BY <1>1, <1>8 DEF vars, stores, Rows
<1>. QED
  BY <1>3, <1>4, <1>5, <1>6, <1>7, <1>8, NextCases

-----------------------------------------------------------------------------
(* Steps of the quota monitor.                                             *)

\* A failure of a customer's request taints that customer and no other.
LEMMA FailTaints ==
  ASSUME Types, NEW c \in Customers
  PROVE  /\ Fail(c) => taint'[c] # {} /\ \A d \in Customers \ {c} : taint'[d] = taint[d]
         /\ NoFailure => taint' = taint
BY DEF Types, Fail, Taint, NoFailure

\* The types that the proofs below need, in one place.
LEMMA StoresAndKill ==
  ASSUME Types
  PROVE  /\ cust \in [Customers -> {"absent", "active", "archived"}] /\ row \in [Customers -> Numbers]
         /\ device \in [Customers -> {"none", "own", "renamed"}]
         /\ user \in [Customers -> Numbers] /\ block \in [Customers -> Numbers]
         /\ radcheck \in [Customers -> Numbers \cup {Disabled}]
         /\ kill \in Kills /\ kill.todo \subseteq kill.victims /\ kill.known \subseteq kill.victims
         /\ taint \in [Customers -> SUBSET Taints]
BY DEF Types, StoreTypes, KillTypes

\* An expired customer is no longer, or not yet, somebody else's.
LEMMA SelectSound ==
  ASSUME Types, Rows, NEW c \in Customers, Sound(c), taint'[c] = {}, SelectExpired
  PROVE  Holds(c)'
<1>. DEFINE found == {d \in Customers : cust[d] # "absent" /\ enabled[d] /\ overdue[d]}
<1>1. taint[c] = {} /\ UNCHANGED <<stores, proc>>
  BY StoresAndKill DEF SelectExpired
<1>2. Holds(c) /\ SameStores(c) /\ SameRequests(c)
  BY <1>1 DEF Sound, SameStores, stores, SameRequests
<1>3. kill.victims = {}
  BY DEF SelectExpired, Quiet
<1>4. kill' = [Quiet EXCEPT !.at = "cut", !.todo = found, !.victims = found, !.ids = row,
                            !.known = {d \in found : user[d] # None}]
  BY DEF SelectExpired
<1>5. /\ kill'.victims = found /\ kill'.todo = found /\ kill'.ids = row
      /\ kill'.known = {d \in found : user[d] # None}
  BY <1>4 DEF Quiet
<1>6. CASE c \notin found
  <2>1. SameKill(c)
    BY <1>3, <1>5, <1>6 DEF SameKill
  <2>. QED
    BY <1>2, <2>1, Elsewhere
<1>7. CASE c \in found
  <2>1. cust[c] # "absent" /\ row[c] # None
    BY <1>7 DEF Rows
  <2>2. \A r \in Requests : proc[r].of = c => proc[r].op \notin Writers
    <3>1. SUFFICES ASSUME \E r \in Requests : Of(r) = c /\ proc[r].op \in Writers PROVE FALSE
      BY DEF Of
    <3>2. taint'[c] = taint[c] \cup {"overlap"}
      BY <1>7, <3>1 DEF SelectExpired
    <3>. QED
      BY <3>2
  <2>3. \A r \in Requests : proc[r].of = c /\ proc[r].op = "create" => Where(proc[r]) = "insert"
    BY <1>2, <2>1 DEF Holds, Stage, CreateStage
  <2>4. KillMoves(c)
    BY <1>3, <2>2, <2>3 DEF KillMoves
  <2>5. KillStage(c)'
    BY <1>2, <1>5, <1>7, <2>1 DEF KillStage, SameStores
  <2>. QED
    BY <1>2, <2>4, <2>5, Unnoticed
<1>. QED
  BY <1>6, <1>7

\* Cutting a connection changes nothing that is stored.
LEMMA CutOffSound ==
  ASSUME Types, NEW c \in Customers, Sound(c), taint'[c] = {}, NEW d \in Customers, CutOff(d)
  PROVE  Holds(c)'
<1>1. taint[c] = {}
  BY FailTaints DEF CutOff, HangUp
<1>2. Holds(c) /\ SameStores(c) /\ SameRequests(c)
  BY <1>1 DEF Sound, SameStores, CutOff, stores, SameRequests
<1>3. /\ kill.at = "cut" /\ d \in kill.todo
      /\ kill' = [kill EXCEPT !.at = "unblock", !.now = d, !.todo = @ \ {d}]
  BY DEF CutOff
<1>4. /\ kill'.victims = kill.victims /\ kill'.known = kill.known /\ kill'.ids = kill.ids
      /\ kill'.now = d /\ kill'.todo = kill.todo \ {d}
  BY <1>3, StoresAndKill DEF Kills
<1>5. kill.now = Nobody /\ c # Nobody
  BY <1>3, NobodyIsNoCustomer DEF Types, KillTypes
<1>6. KillStage(c)'
  BY <1>2, <1>4, <1>5 DEF KillStage, SameStores, Holds
<1>7. KillMoves(c)
  BY <1>4 DEF KillMoves
<1>. QED
  BY <1>2, <1>6, <1>7, Unnoticed

\* The block goes before the rows.
LEMMA UnblockSound ==
  ASSUME Types, NEW c \in Customers, Sound(c), taint'[c] = {}, Unblock
  PROVE  Holds(c)'
<1>1. kill.at = "unblock" /\ kill.now \in kill.victims \ kill.todo /\ kill.now \in Customers
  BY DEF Unblock, Types, KillTypes, Kills
<1>2. taint[c] = {}
  BY <1>1, FailTaints DEF Unblock
<1>3. Holds(c) /\ SameRequests(c) /\ proc' = proc
  BY <1>2 DEF Sound, Unblock, SameRequests
<1>4. /\ kill'.victims = kill.victims /\ kill'.known = kill.known /\ kill'.ids = kill.ids
      /\ kill'.now = Nobody /\ kill'.todo = kill.todo
  BY StoresAndKill DEF Kills, Unblock
<1>5. c # Nobody
  BY NobodyIsNoCustomer
<1>6. KillMoves(c)
  BY <1>4 DEF KillMoves
<1>7. CASE c = kill.now /\ c \in kill.known /\ block[c] # None
  <2>1. NoFailure
    BY <1>1, <1>7, FailTaints DEF Unblock
  <2>2. block'[c] = None
    BY <1>1, <1>7, StoresAndKill, FailTaints DEF Unblock
  <2>3. /\ cust'[c] = cust[c] /\ row'[c] = row[c] /\ device'[c] = device[c] /\ user'[c] = user[c]
        /\ radcheck'[c] = radcheck[c]
    BY DEF Unblock
  <2>4. c \in kill.victims
    BY <1>1, <1>7
  <2>5. \A r \in Requests : proc[r].of = c =>
          proc[r].op \notin Writers /\ (proc[r].op = "create" => Where(proc[r]) = "insert")
    BY <1>3, <2>4 DEF Holds, WriterAlone, CreatorAlone
  <2>6. WriterAlone(c)' /\ CreatorAlone(c)'
    BY <1>3, <2>5 DEF WriterAlone, CreatorAlone
  <2>7. ASSUME NEW r \in Requests, (proc[r].of = c)' PROVE Stage(proc[r], c)'
    <3>1. Stage(proc[r], c) /\ proc'[r] = proc[r] /\ proc[r].of = c
      BY <1>3, <2>7 DEF Holds
    <3>2. /\ proc[r].op \notin {"rotate", "unarchive", "reclaim", "reset"}
          /\ proc[r].op = "create" => Where(proc[r]) = "insert"
      BY <2>5, <3>1 DEF Writers
    <3>3. /\ RotateStage(proc[r], c)' /\ UnarchiveStage(proc[r], c)' /\ ReclaimStage(proc[r], c)'
          /\ CreateStage(proc[r], c)'
      BY <3>1, <3>2 DEF RotateStage, UnarchiveStage, ReclaimStage, CreateStage
    <3>4. RemoveStage(proc[r], c)'
      BY <2>3, <3>1 DEF Stage, RemoveStage
    <3>. QED
      BY <3>1, <3>2, <3>3, <3>4 DEF Stage
  <2>8. KillStage(c)'
    BY <1>3, <1>4, <1>7, <2>2, <2>3 DEF KillStage, Holds
  <2>9. Present(c)'
    <3>1. ASSUME NEW steps PROVE Deleting(c, steps)' <=> Deleting(c, steps)
      BY <1>3 DEF Deleting
    <3>2. Writing(c)' <=> Writing(c)
      BY <1>3 DEF Writing
    <3>3. Archiving(c)' <=> Archiving(c)
      BY <1>3 DEF Archiving
    <3>. QED
      BY <1>1, <1>3, <1>4, <1>7, <2>3, <3>1, <3>2, <3>3 DEF Present, Holds
  <2>10. Left(c)'
    <3>1. ASSUME NEW steps PROVE Deleting(c, steps)' <=> Deleting(c, steps)
      BY <1>3 DEF Deleting
    <3>. QED
      BY <1>3, <2>2, <2>3, <3>1 DEF Left, Holds
  <2>. QED
    BY <2>6, <2>7, <2>8, <2>9, <2>10 DEF Holds
<1>8. CASE ~(c = kill.now /\ c \in kill.known /\ block[c] # None)
  <2>1. SameStores(c)
    BY <1>8, StoresAndKill DEF Unblock, SameStores
  <2>2. KillStage(c)'
    BY <1>3, <1>4, <1>5, <1>8, <2>1 DEF KillStage, SameStores, Holds
  <2>. QED
    BY <1>3, <1>6, <2>1, <2>2, Unnoticed
<1>. QED
  BY <1>7, <1>8

\* The kill's victims are gone, whoever deleted their rows.
LEMMA CommitKillSound ==
  ASSUME Types, Rows, NEW c \in Customers, Sound(c), taint'[c] = {}, CommitKill
  PROVE  Holds(c)'
<1>. USE StoresAndKill
<1>1. /\ kill.at = "commit" /\ kill.todo = {} /\ kill.now = Nobody /\ c # Nobody
      /\ taint[c] = {} /\ kill' = Quiet /\ proc' = proc
  BY NobodyIsNoCustomer DEF CommitKill, Types, KillTypes
<1>2. Holds(c) /\ SameRequests(c)
  BY <1>1 DEF Sound, SameRequests
<1>3. c \notin kill'.victims
  BY <1>1 DEF Quiet
<1>4. CASE c \notin kill.victims
  <2>1. SameStores(c)
    BY <1>4 DEF CommitKill, SameStores
  <2>2. SameKill(c)
    BY <1>3, <1>4 DEF SameKill
  <2>. QED
    BY <1>2, <2>1, <2>2, Elsewhere
<1>5. CASE c \in kill.victims
  <2>1. /\ cust'[c] = "absent" /\ device'[c] = "none" /\ row'[c] = None
        /\ user'[c] = user[c] /\ block'[c] = block[c]
    <3>1. UNCHANGED <<user, block>>
      BY DEF CommitKill
    <3>2. CASE row[c] = kill.ids[c]
      BY <1>5, <3>1, <3>2 DEF CommitKill, SameRow
    <3>3. CASE row[c] # kill.ids[c]
      <4>1. row[c] = None /\ cust[c] = "absent" /\ device[c] = "none"
        BY <1>2, <1>5, <3>3 DEF Holds, KillStage, Rows, Present
      <4>2. row'[c] = row[c] /\ cust'[c] = cust[c] /\ device'[c] = device[c]
        BY <3>3 DEF CommitKill, SameRow
      <4>. QED
        BY <3>1, <4>1, <4>2
    <3>. QED
      BY <3>2, <3>3
  <2>2. /\ c \in kill.known => radcheck'[c] = None /\ block[c] = None
        /\ c \notin kill.known => radcheck'[c] = radcheck[c] /\ user[c] = None
    BY <1>1, <1>2, <1>5 DEF CommitKill, Holds, KillStage
  <2>3. \A r \in Requests : proc[r].of = c =>
          proc[r].op \notin Writers /\ (proc[r].op = "create" => Where(proc[r]) = "insert")
    BY <1>2, <1>5 DEF Holds, WriterAlone, CreatorAlone
  <2>4. WriterAlone(c)' /\ CreatorAlone(c)'
    BY <1>1, <2>3 DEF WriterAlone, CreatorAlone
  <2>5. ASSUME NEW r \in Requests, (proc[r].of = c)' PROVE Stage(proc[r], c)'
    <3>1. Stage(proc[r], c) /\ proc'[r] = proc[r] /\ proc[r].of = c
      BY <1>1, <1>2, <2>5 DEF Holds
    <3>2. /\ proc[r].op \notin {"rotate", "unarchive", "reclaim", "reset"}
          /\ proc[r].op = "create" => Where(proc[r]) = "insert"
      BY <2>3, <3>1 DEF Writers
    <3>3. /\ RotateStage(proc[r], c)' /\ UnarchiveStage(proc[r], c)' /\ ReclaimStage(proc[r], c)'
          /\ CreateStage(proc[r], c)'
      BY <3>1, <3>2 DEF RotateStage, UnarchiveStage, ReclaimStage, CreateStage
    <3>4. RemoveStage(proc[r], c)'
      BY <2>1, <3>1 DEF Stage, RemoveStage
    <3>. QED
      BY <3>1, <3>2, <3>3, <3>4 DEF Stage
  <2>6. KillStage(c)'
    BY <1>3 DEF KillStage
  <2>7. Present(c)'
    BY <2>1 DEF Present
  <2>8. Left(c)'
    <3>1. ASSUME NEW steps PROVE Deleting(c, steps)' <=> Deleting(c, steps)
      BY <1>1 DEF Deleting
    <3>2. None \notin Passwords
      BY DEF None, Passwords
    <3>. QED
      BY <1>1, <1>2, <2>1, <2>2, <3>1, <3>2 DEF Left, Holds
  <2>. QED
    BY <2>4, <2>5, <2>6, <2>7, <2>8 DEF Holds
<1>. QED
  BY <1>4, <1>5

\* An aborted kill taints its victims and leaves the others alone.
LEMMA KillAbortedSound ==
  ASSUME Types, NEW c \in Customers, Sound(c), taint'[c] = {}, KillAborted
  PROVE  Holds(c)'
<1>1. c \notin kill.victims /\ taint[c] = {}
  BY StoresAndKill DEF KillAborted
<1>2. Holds(c) /\ SameStores(c) /\ SameRequests(c)
  BY <1>1 DEF Sound, SameStores, KillAborted, stores, SameRequests
<1>3. SameKill(c)
  BY <1>1 DEF SameKill, KillAborted, Quiet
<1>. QED
  BY <1>2, <1>3, Elsewhere

-----------------------------------------------------------------------------
(* Requests of one transaction, killed workers, and requests that start.   *)

\* Renewals, switches and the world change nothing that Holds speaks of; a rename,
\* a bulk status and the renewal of an archived customer taint it.
LEMMA AloneSound ==
  ASSUME Types, NEW c \in Customers, Sound(c), taint'[c] = {}, NEW d \in Customers, Alone(d)
  PROVE  Holds(c)'
<1>. USE StoresAndKill
<1>1. /\ taint[c] = {} /\ UNCHANGED <<row, user, radcheck, block, proc, kill>>
      /\ cust'[c] = cust[c] /\ device'[c] = device[c]
  <2>1. CASE Rename(d)
    BY <2>1 DEF Rename, Taint
  <2>2. CASE BulkStatus(d)
    BY <2>2 DEF BulkStatus, Taint
  <2>3. CASE BotRenew(d)
    <3>1. taint' = [taint EXCEPT ![d] = @ \cup (IF cust[d] = "archived" THEN {"renewed"} ELSE {})]
      BY <2>3 DEF BotRenew
    <3>2. c = d => cust[c] # "archived"
      BY <3>1
    <3>3. taint[c] = {}
      BY <3>1
    <3>. QED
      BY <2>3, <3>2, <3>3 DEF BotRenew
  <2>4. CASE Renew(d) \/ Switch(d) \/ Expire(d)
    BY <2>4 DEF Renew, Switch, Expire
  <2>5. CASE Connect(d) \/ Disconnect(d)
    BY <2>5 DEF Connect, Disconnect, stores
  <2>. QED
    BY <2>1, <2>2, <2>3, <2>4, <2>5 DEF Alone
<1>2. Holds(c) /\ SameStores(c) /\ SameRequests(c) /\ SameKill(c)
  BY <1>1 DEF Sound, SameStores, SameRequests, SameKill
<1>. QED
  BY <1>2, Elsewhere

\* A killed worker taints its customer.
LEMMA KilledSound ==
  ASSUME Types, NEW c \in Customers, Sound(c), taint'[c] = {}, NEW r \in Requests, Killed(r)
  PROVE  Holds(c)'
<1>1. Of(r) \in Customers /\ Fail(Of(r)) /\ Others(r) /\ proc'[r] = Idle
      /\ UNCHANGED <<stores, kill>>
  BY KilledTypes DEF Killed, Of
<1>2. Of(r) # c /\ taint[c] = {}
  BY <1>1, FailTaints
<1>3. Holds(c) /\ SameStores(c) /\ SameKill(c)
  BY <1>1, <1>2 DEF Sound, SameStores, SameKill, stores
<1>4. Idle.of # c
  BY NobodyIsNoCustomer DEF Idle
<1>5. SameRequests(c)
  BY <1>1, <1>2, <1>4 DEF SameRequests, Others, Of
<1>. QED
  BY <1>3, <1>5, Elsewhere

\* What the checks of an operation establish.
LEMMA AcceptsMeans ==
  ASSUME NEW op \in OpNames, NEW c \in Customers, Accepts(op, c)
  PROVE  /\ op = "create" => cust[c] = "absent" /\ user[c] = None
         /\ op = "rotate" => cust[c] = "active" /\ device[c] # "none" /\ user[c] # None
         /\ op = "archive" => cust[c] = "active"
         /\ op = "unarchive" => cust[c] = "archived"
         /\ op = "cleanup" => user[c] # None /\ device[c] = "none"
         /\ op = "reclaim" => user[c] # None /\ device[c] = "none" /\ cust[c] = "absent"
         /\ op \in {"delete", "bulkdelete", "deleteuser"} => cust[c] # "absent"
<1>. USE DEF Accepts, Orphan, OpNames
<1>1. CASE op = "create"
  BY <1>1
<1>2. CASE op = "rotate"
  BY <1>2
<1>3. CASE op = "archive"
  BY <1>3
<1>4. CASE op = "unarchive"
  BY <1>4
<1>5. CASE op = "reset"
  BY <1>5
<1>6. CASE op = "cleanup"
  BY <1>6
<1>7. CASE op = "reclaim"
  BY <1>7
<1>8. CASE op \in {"delete", "bulkdelete", "deleteuser"}
  BY <1>8
<1>. QED
  BY <1>1, <1>2, <1>3, <1>4, <1>5, <1>6, <1>7, <1>8

\* What the deletes that find no identity know.
LEMMA NamedMeans ==
  ASSUME NEW op, NEW c \in Customers
  PROVE  /\ op = "delete" => (Named(op, c) <=> device[c] = "own")
         /\ op = "deleteuser" /\ ~Named(op, c) => user[c] = None
<1>1. CASE op = "delete"
  BY <1>1 DEF Named, BotOps
<1>2. CASE op = "deleteuser"
  BY <1>2 DEF Named
<1>. QED
  BY <1>1, <1>2

\* What starts on a customer finds it in a state that its operation can handle.
LEMMA StartSound ==
  ASSUME Types, Rows, NEW c \in Customers, Sound(c), taint'[c] = {},
         NEW r \in Requests, NEW d \in Customers, NEW op \in Ops, Start(r, op, d)
  PROVE  Holds(c)'
<1>1. /\ UNCHANGED <<stores, kill>> /\ Others(r) /\ proc[r] = Idle /\ Accepts(op, d)
      /\ op \in OpNames /\ First(op, Where(proc'[r]))
      /\ proc'[r].op = op /\ proc'[r].of = d /\ proc'[r].id = row[d] /\ proc'[r].named = Named(op, d)
      /\ taint' = [taint EXCEPT ![d] = @ \cup (IF Overlaps(op, d) THEN {"overlap"} ELSE {})
                                         \cup (IF op = "reset" THEN {"reset"} ELSE {})]
  <2>1. UNCHANGED <<stores, kill>> /\ Accepts(op, d)
    BY DEF Start
  <2>2. /\ Others(r) /\ proc[r] = Idle
        /\ op \in OpNames /\ First(op, Where(proc'[r]))
        /\ proc'[r].op = op /\ proc'[r].of = d /\ proc'[r].id = row[d] /\ proc'[r].named = Named(op, d)
    BY StartMoves
  <2>3. taint' = [taint EXCEPT ![d] = @ \cup (IF Overlaps(op, d) THEN {"overlap"} ELSE {})
                                        \cup (IF op = "reset" THEN {"reset"} ELSE {})]
    BY DEF Start
  <2>. QED
    BY <2>1, <2>2, <2>3
<1>2. taint[c] = {} /\ (c = d => ~Overlaps(op, d) /\ op # "reset")
  BY <1>1, StoresAndKill
<1>3. Holds(c) /\ SameStores(c) /\ SameKill(c)
  BY <1>1, <1>2 DEF Sound, SameStores, SameKill, stores
<1>4. Idle.of # c
  BY NobodyIsNoCustomer DEF Idle
<1>5. CASE c # d
  <2>1. SameRequests(c)
    BY <1>1, <1>4, <1>5 DEF SameRequests, Others
  <2>. QED
    BY <1>3, <2>1, Elsewhere
<1>6. /\ op = "create" => cust[d] = "absent" /\ user[d] = None
      /\ op = "rotate" => cust[d] = "active" /\ device[d] # "none" /\ user[d] # None
      /\ op = "archive" => cust[d] = "active"
      /\ op = "unarchive" => cust[d] = "archived"
      /\ op = "cleanup" => user[d] # None /\ device[d] = "none"
      /\ op = "reclaim" => user[d] # None /\ device[d] = "none" /\ cust[d] = "absent"
      /\ op \in {"delete", "bulkdelete", "deleteuser"} => cust[d] # "absent"
  BY <1>1, AcceptsMeans
<1>7. /\ op = "delete" => (proc'[r].named <=> device[d] = "own")
      /\ op = "deleteuser" /\ ~proc'[r].named => user[d] = None
  BY <1>1, NamedMeans
<1>8. CASE c = d
  <2>. USE <1>8
  <2>1. /\ \A x \in Requests \ {r} : proc'[x] = proc[x]
        /\ proc[r].of # c /\ proc'[r].of = c /\ proc'[r].op = op /\ proc'[r].id = row[c]
    BY <1>1, <1>4 DEF Others
  <2>2. op \in Writers => c \notin kill.victims /\ \A s \in Requests : proc[s].of # c
    BY <1>2 DEF Overlaps, Of
  <2>3. \A s \in Requests : proc[s].of = c => proc[s].op \notin Writers
    BY <1>2 DEF Overlaps, Of
  <2>4. op # "create" => ~\E s \in Requests : /\ proc[s].of = c /\ proc[s].op = "create"
                                              /\ Where(proc[s]) # "insert"
    <3>1. SUFFICES ASSUME op # "create", NEW s \in Requests, proc[s].of = c, proc[s].op = "create",
                          Where(proc[s]) # "insert"
                   PROVE  FALSE
      OBVIOUS
    <3>2. cust[c] = "absent" /\ user[c] = None
      BY <1>3, <3>1 DEF Holds, Stage, CreateStage
    <3>. QED
      BY <1>1, <1>2, <1>6, <3>1, <3>2 DEF OpNames
  <2>5. op = "create" => Where(proc'[r]) = "insert"
    BY <1>1 DEF First
  <2>6. WriterAlone(c)'
    BY <1>3, <2>1, <2>2, <2>3 DEF WriterAlone, SameKill
  <2>7. CreatorAlone(c)'
    BY <1>3, <2>1, <2>4, <2>5 DEF CreatorAlone, SameKill, Holds
  <2>8. \A steps : Deleting(c, steps) => Deleting(c, steps)'
    BY <2>1 DEF Deleting
  <2>9. op \in Writers => Writing(c)'
    BY <2>1 DEF Writing
  <2>10. ~Writing(c)
    BY <2>3 DEF Writing
  <2>11. Archiving(c) => Archiving(c)'
    BY <2>1 DEF Archiving
  <2>12. Present(c)'
    BY <1>3, <2>8, <2>10, <2>11 DEF Present, Holds, SameStores, SameKill
  <2>13. Left(c)'
    BY <1>3, <2>1, <2>8 DEF Left, Holds, SameStores
  <2>14. KillStage(c)'
    BY <1>3 DEF KillStage, Holds, SameStores, SameKill
  <2>15. Stage(proc[r], c)'
    <3>1. op \in Writers /\ cust[c] # "absent" /\ user[c] # None =>
            device[c] = "own" /\ block[c] = user[c]
      <4>1. SUFFICES ASSUME op \in Writers, cust[c] # "absent", user[c] # None
                     PROVE  device[c] = "own" /\ block[c] = user[c]
        OBVIOUS
      <4>2. c \notin kill.victims
        BY <2>2, <4>1
      <4>3. device[c] \in {"none", "own", "renamed"}
        BY StoresAndKill
      <4>. QED
        BY <1>3, <2>10, <4>1, <4>2, <4>3 DEF Holds, Present
    <3>2. RotateStage(proc[r], c)'
      <4>1. CASE op = "rotate"
        <5>1. op \in Writers /\ Where(proc'[r]) = "user" /\ cust[c] = "active" /\ user[c] # None
          BY <1>1, <1>6, <4>1 DEF Writers, First
        <5>. QED
          BY <1>3, <2>1, <3>1, <4>1, <5>1 DEF RotateStage, SameStores
      <4>. QED
        BY <2>1, <4>1 DEF RotateStage
    <3>3. UnarchiveStage(proc[r], c)'
      <4>1. CASE op = "unarchive"
        <5>1. op \in Writers /\ Where(proc'[r]) = "status" /\ cust[c] = "archived"
          BY <1>1, <1>6, <4>1 DEF Writers, First
        <5>2. (\A steps : ~Deleting(c, steps)) /\ ~Archiving(c)
          BY <2>2, <5>1 DEF Deleting, Archiving
        <5>3. user[c] # None
          BY <1>3, <5>1, <5>2 DEF Holds, Present
        <5>4. radcheck[c] \notin Passwords
          BY <1>3, <5>1, <5>2, <5>3 DEF Holds, Present
        <5>. QED
          BY <1>3, <2>1, <3>1, <4>1, <5>1, <5>3, <5>4 DEF UnarchiveStage, SameStores
      <4>. QED
        BY <2>1, <4>1 DEF UnarchiveStage
    <3>4. ReclaimStage(proc[r], c)'
      BY <1>1, <1>3, <1>6, <2>1 DEF ReclaimStage, First, SameStores
    <3>5. CreateStage(proc[r], c)'
      BY <2>1, <2>5 DEF CreateStage
    <3>6. RemoveStage(proc[r], c)'
      <4>1. CASE op = "archive"
        BY <1>1, <1>3, <2>1, <4>1 DEF RemoveStage, First, SameStores
      <4>2. CASE op = "bulkdelete"
        BY <1>1, <1>3, <2>1, <4>2 DEF RemoveStage, First, SameStores
      <4>3. CASE op = "deleteuser"
        BY <1>1, <1>3, <1>7, <2>1, <4>3 DEF RemoveStage, First, SameStores
      <4>4. CASE op = "delete"
        <5>1. Where(proc'[r]) = "users" /\ cust[c] # "absent"
          BY <1>1, <1>6, <4>4 DEF First
        <5>2. ~proc'[r].named => user[c] = None /\ device[c] = "none"
          <6>1. device[c] \in {"none", "own", "renamed"}
            BY StoresAndKill
          <6>. QED
            BY <1>3, <1>7, <4>4, <5>1, <6>1 DEF Holds, Present
        <5>. QED
          BY <1>3, <2>1, <4>4, <5>1, <5>2 DEF RemoveStage, SameStores
      <4>5. CASE op = "cleanup"
        <5>1. cust[c] = "absent"
          BY <1>3, <1>6, <4>5 DEF Holds, Present
        <5>2. row[c] = None
          BY <5>1 DEF Rows
        <5>. QED
          BY <1>3, <2>1, <4>5, <5>2 DEF RemoveStage, SameStores
      <4>. QED
        BY <2>1, <4>1, <4>2, <4>3, <4>4, <4>5 DEF RemoveStage, Removers
    <3>7. (proc[r].op # "reset")'
      BY <1>2, <2>1
    <3>. QED
      BY <3>2, <3>3, <3>4, <3>5, <3>6, <3>7 DEF Stage
  <2>16. ASSUME NEW x \in Requests, (proc[x].of = c)' PROVE Stage(proc[x], c)'
    <3>1. CASE x = r
      BY <2>1, <2>15, <3>1 DEF Stage
    <3>2. CASE x # r
      <4>1. proc'[x] = proc[x] /\ Stage(proc[x], c)
        BY <1>3, <2>1, <2>16, <3>2 DEF Holds
      <4>. QED
        BY <1>3, <4>1, StagesKept DEF Stage
    <3>. QED
      BY <3>1, <3>2
  <2>. QED
    BY <2>6, <2>7, <2>12, <2>13, <2>14, <2>16 DEF Holds
<1>. QED
  BY <1>5, <1>8

-----------------------------------------------------------------------------
(* Steps of the requests.                                                  *)

\* A step writes to its own customer alone.
LEMMA StepElsewhere ==
  ASSUME Types, NEW r \in Requests, Step(r), NEW c \in Customers, Of(r) # c
  PROVE  SameStores(c) /\ taint'[c] = taint[c]
<1>1. Of(r) \in Customers
  BY StepMoves DEF Placed, Of
<1>2. /\ Fail(Of(r)) => taint'[c] = taint[c]
      /\ NoFailure => taint'[c] = taint[c]
  BY <1>1, FailTaints
<1>3. CASE Insert(r)
  BY <1>1, <1>2, <1>3, StoresAndKill DEF Insert, SameStores, stores
<1>4. CASE Append_(r)
  BY <1>1, <1>2, <1>4, StoresAndKill DEF Append_, SameStores, stores
<1>5. CASE Commit(r)
  BY <1>1, <1>2, <1>5, StoresAndKill DEF Commit, SameStores, stores
<1>6. CASE Cleanup(r)
  BY <1>1, <1>2, <1>6, StoresAndKill DEF Cleanup, SameStores, stores
<1>7. CASE Reload(r)
  BY <1>1, <1>2, <1>7, StoresAndKill DEF Reload, SameStores, stores
<1>8. CASE SetUser(r)
  BY <1>1, <1>2, <1>8, StoresAndKill DEF SetUser, SameStores, stores
<1>9. CASE ReplaceSecret(r)
  BY <1>1, <1>2, <1>9, StoresAndKill DEF ReplaceSecret, SameStores, stores
<1>10. CASE WriteRadcheck(r)
  BY <1>1, <1>2, <1>10, StoresAndKill DEF WriteRadcheck, SameStores, stores
<1>11. CASE SetStatus(r)
  BY <1>1, <1>2, <1>11, StoresAndKill DEF SetStatus, SameStores, stores
<1>12. CASE Disable(r)
  BY <1>1, <1>2, <1>12, StoresAndKill DEF Disable, SameStores, stores
<1>13. CASE DeleteUsers(r)
  BY <1>1, <1>2, <1>13, StoresAndKill DEF DeleteUsers, SameStores, stores
<1>14. CASE SweepOrphans(r)
  BY <1>1, <1>2, <1>14, StoresAndKill DEF SweepOrphans, SameStores, stores
<1>15. CASE DeleteDevices(r)
  BY <1>1, <1>2, <1>15, StoresAndKill DEF DeleteDevices, SameStores, stores
<1>16. CASE RemoveBlock(r)
  BY <1>1, <1>2, <1>16, StoresAndKill DEF RemoveBlock, SameStores, stores
<1>17. CASE PurgeRadcheck(r)
  BY <1>1, <1>2, <1>17, StoresAndKill DEF PurgeRadcheck, SameStores, stores
<1>18. CASE DeleteCustomer(r)
  BY <1>1, <1>2, <1>18, StoresAndKill DEF DeleteCustomer, SameStores, stores
<1>19. CASE BulkDelete(r)
  BY <1>1, <1>2, <1>19, StoresAndKill DEF BulkDelete, SameStores, stores
<1>20. CASE FullSweep(r)
  BY <1>1, <1>2, <1>20, StoresAndKill DEF FullSweep, SameStores, stores
<1>21. CASE Retire(r)
  BY <1>1, <1>2, <1>21, StoresAndKill DEF Retire, SameStores, stores
<1>22. CASE Reclaim(r)
  BY <1>1, <1>2, <1>22, StoresAndKill DEF Reclaim, SameStores, stores
<1>23. CASE PreClean(r)
  BY <1>1, <1>2, <1>23, StoresAndKill DEF PreClean, SameStores, stores
<1>. QED
  BY <1>3, <1>4, <1>5, <1>6, <1>7, <1>8, <1>9, <1>10, <1>11, <1>12, <1>13, <1>14, <1>15, <1>16,
     <1>17, <1>18, <1>19, <1>20, <1>21, <1>22, <1>23 DEF Step

\* A step for another customer.
LEMMA OtherStepSound ==
  ASSUME Types, NEW c \in Customers, Sound(c), taint'[c] = {}, NEW r \in Requests, Step(r), Of(r) # c
  PROVE  Holds(c)'
<1>1. SameStores(c) /\ taint[c] = {}
  BY StepElsewhere
<1>2. Others(r) /\ UNCHANGED kill /\ (proc'[r] = Idle \/ proc'[r].of = proc[r].of)
  BY StepMoves, StepKeeps
<1>3. Idle.of # c
  BY NobodyIsNoCustomer DEF Idle
<1>4. Holds(c) /\ SameKill(c) /\ SameRequests(c)
  BY <1>1, <1>2, <1>3 DEF Sound, SameKill, SameRequests, Others, Of
<1>. QED
  BY <1>1, <1>4, Elsewhere

\* A step that takes things away, or nothing.
Takes(c) ==
  /\ cust'[c] \in {cust[c], "archived", "absent"} /\ row'[c] \in {row[c], None}
  /\ device'[c] \in {device[c], "none"} /\ user'[c] \in {user[c], None}
  /\ block'[c] \in {block[c], None}

\* A request that need not have the customer for itself.
Plain(p) ==
  /\ p.op \notin Writers
  /\ p.op = "create" => Where(p) = "insert"

\* A remover takes away what the other requests of c count on being gone, and
\* whoever must be alone is alone.
LEMMA RemoverFrame ==
  ASSUME Types, NEW c \in Customers, Holds(c), NEW r \in Requests, proc[r].of = c, proc[r].op \in Removers,
         Others(r), UNCHANGED kill, Takes(c),
         proc'[r] = Idle \/ (proc'[r].op = proc[r].op /\ proc'[r].of = c),
         proc'[r] # Idle => RemoveStage(proc[r], c)'
  PROVE  /\ WriterAlone(c)' /\ CreatorAlone(c)' /\ KillStage(c)'
         /\ \A x \in Requests : (proc[x].of = c)' => Stage(proc[x], c)'
         /\ \A x \in Requests : proc[x].of = c => Plain(proc[x])
<1>1. Idle.of # c
  BY NobodyIsNoCustomer DEF Idle
<1>2. ASSUME NEW x \in Requests, proc[x].of = c PROVE Plain(proc[x])
  <2>1. proc[x].op \notin Writers
    BY <1>2 DEF Holds, WriterAlone, Writers, Removers
  <2>2. proc[x].op = "create" => Where(proc[x]) = "insert"
    BY <1>2 DEF Holds, CreatorAlone, Removers
  <2>. QED
    BY <2>1, <2>2 DEF Plain
<1>3. ASSUME NEW x \in Requests, proc'[x].of = c PROVE Plain(proc'[x])
  <2>1. proc'[x] = proc[x] \/ proc'[x].op \in Removers
    BY <1>1, <1>3 DEF Others
  <2>. QED
    BY <1>2, <1>3, <2>1 DEF Others, Plain, Writers, Removers
<1>4. WriterAlone(c)' /\ CreatorAlone(c)'
  BY <1>3 DEF WriterAlone, CreatorAlone, Plain
<1>5. KillStage(c)'
  BY DEF Holds, KillStage, Takes
<1>6. ASSUME NEW x \in Requests, (proc[x].of = c)' PROVE Stage(proc[x], c)'
  <2>1. Plain(proc'[x])
    BY <1>3, <1>6
  <2>2. /\ RotateStage(proc[x], c)' /\ UnarchiveStage(proc[x], c)' /\ ReclaimStage(proc[x], c)'
        /\ CreateStage(proc[x], c)' /\ (proc[x].op # "reset")'
    BY <2>1 DEF Plain, Writers, RotateStage, UnarchiveStage, ReclaimStage, CreateStage
  <2>3. RemoveStage(proc[x], c)'
    <3>1. CASE x = r
      BY <1>1, <1>6, <3>1
    <3>2. CASE x # r
      <4>1. proc'[x] = proc[x] /\ RemoveStage(proc[x], c)
        BY <1>6, <3>2 DEF Others, Holds, Stage
      <4>. QED
        BY <4>1 DEF RemoveStage, Takes
    <3>. QED
      BY <3>1, <3>2
  <2>. QED
    BY <2>2, <2>3 DEF Stage
<1>. QED
  BY <1>2, <1>4, <1>5, <1>6

\* A request at a step, and where Go takes it.
LEMMA Advance ==
  ASSUME Types, NEW r \in Requests, NEW s, At(r, s), Go(r)
  PROVE  /\ Others(r)
         /\ \/ proc'[r] = Idle /\ Ends(proc[r].op, s)
            \/ /\ proc'[r].op = proc[r].op /\ proc'[r].of = proc[r].of /\ proc'[r].id = proc[r].id
               /\ proc'[r].pw = proc[r].pw /\ proc'[r].named = proc[r].named
               /\ Leads(proc[r].op, s, Where(proc'[r]))
<1>1. Where(proc[r]) = s /\ proc[r].todo # <<>>
  BY AtStep DEF Types
<1>. QED
  BY <1>1, GoMoves DEF Types, Moved, Goes

\* What is known of a request at a step.
LEMMA StepOn ==
  ASSUME Types, NEW r \in Requests, NEW s, At(r, s)
  PROVE  /\ Where(proc[r]) = s /\ Within(proc[r].op, s) /\ proc[r] # Idle
         /\ proc[r].pw \in Passwords /\ proc[r].pw # None /\ proc[r].pw \in Numbers
<1>1. Where(proc[r]) = s /\ proc[r] # Idle /\ proc[r] \in Procs /\ Placed(proc[r])
  BY AtStep DEF Types
<1>2. Within(proc[r].op, s)
  BY <1>1, StepOfProgram
<1>3. proc[r].pw \in Passwords /\ proc[r].pw # None /\ proc[r].pw \in Numbers
  BY <1>1, BoundsAreNaturals DEF Placed, Passwords, None, Numbers
<1>. QED
  BY <1>1, <1>2, <1>3

\* When nothing that is stored changes, a remover may move on if it is no
\* longer needed where it was.
LEMMA RemoverMoves ==
  ASSUME Types, NEW c \in Customers, Holds(c), NEW r \in Requests, proc[r].of = c, proc[r].op \in Removers,
         Others(r), UNCHANGED kill, SameStores(c),
         proc'[r] = Idle \/ (proc'[r].op = proc[r].op /\ proc'[r].of = c),
         proc'[r] # Idle => RemoveStage(proc[r], c)',
         \A steps \in {{"sweep", "devices", "unblock", "purge", "reload", "customer"},
                       {"unblock", "purge", "reload", "customer"}, {"sweep", "devices", "unblock"},
                       {"sweep", "devices", "unblock", "purge"}} : Deleting(c, steps) => Deleting(c, steps)',
         Archiving(c) => Archiving(c)',
         proc[r].op \in {"bulkdelete", "deleteuser"} /\ proc[r].named => Where(proc[r]) # "unblock"
  PROVE  Holds(c)'
<1>1. Takes(c)
  BY DEF SameStores, Takes
<1>2. /\ WriterAlone(c)' /\ CreatorAlone(c)' /\ KillStage(c)'
      /\ \A x \in Requests : (proc[x].of = c)' => Stage(proc[x], c)'
      /\ \A x \in Requests : proc[x].of = c => Plain(proc[x])
  BY <1>1, RemoverFrame
<1>3. ~Writing(c)
  BY <1>2 DEF Writing, Plain
<1>4. Present(c)'
  BY <1>3 DEF Holds, Present, SameStores
<1>5. Left(c)'
  BY DEF Holds, Left, SameStores, Others, Removers
<1>. QED
  BY <1>2, <1>4, <1>5 DEF Holds

\* archive_customer: the status first, radcheck later.
LEMMA SetStatusSound ==
  ASSUME Types, Rows, NEW c \in Customers, Holds(c), NEW r \in Requests, proc[r].of = c,
         SetStatus(r), proc[r].op = "archive"
  PROVE  Holds(c)'
<1>1. Where(proc[r]) = "status" /\ Others(r)
      /\ proc'[r].op = "archive" /\ proc'[r].of = c /\ proc'[r].id = proc[r].id /\ Where(proc'[r]) = "disable"
  BY StepOn, Advance DEF SetStatus, Leads, Ends
<1>2. row[c] \in {proc[r].id, None} /\ proc[r].id # None
  BY DEF Holds, Stage, RemoveStage, Removers, Rows, OfARow
<1>3. /\ UNCHANGED <<row, device, user, radcheck, block, kill>>
      /\ row[c] = proc[r].id => cust'[c] = "archived"
      /\ row[c] # proc[r].id => cust'[c] = cust[c] /\ cust[c] = "absent"
  BY <1>2, StoresAndKill DEF SetStatus, SameRow, Of, Rows
<1>4. Takes(c)
  BY <1>3 DEF Takes
<1>5. RemoveStage(proc[r], c)'
  BY <1>1, <1>2, <1>3 DEF RemoveStage
<1>6. /\ WriterAlone(c)' /\ CreatorAlone(c)' /\ KillStage(c)'
      /\ \A x \in Requests : (proc[x].of = c)' => Stage(proc[x], c)'
      /\ \A x \in Requests : proc[x].of = c => Plain(proc[x])
  BY <1>1, <1>3, <1>4, <1>5, RemoverFrame DEF Removers
<1>7. ~Writing(c)
  BY <1>6 DEF Writing, Plain
<1>8. Archiving(c)' /\ \A steps : Deleting(c, steps) => Deleting(c, steps)'
  BY <1>1 DEF Archiving, Deleting, Others
<1>9. Present(c)'
  BY <1>2, <1>3, <1>7, <1>8 DEF Holds, Present, Rows
<1>10. Left(c)'
  BY <1>1, <1>2, <1>3, <1>8 DEF Holds, Left, Others, Rows
<1>. QED
  BY <1>6, <1>9, <1>10 DEF Holds

\* From now on FreeRADIUS rejects an archived customer.
LEMMA DisableSound ==
  ASSUME Types, Rows, NEW c \in Customers, Holds(c), NEW r \in Requests, proc[r].of = c,
         taint'[c] = {}, Disable(r)
  PROVE  Holds(c)'
<1>1. Where(proc[r]) = "disable" /\ Others(r) /\ proc[r].op = "archive" /\ proc'[r] = Idle
  BY StepOn, Advance DEF Disable, Leads, Ends, Within
<1>2. /\ row[c] \in {proc[r].id, None} /\ proc[r].id # None /\ cust[c] # "active"
  BY <1>1 DEF Holds, Stage, RemoveStage, Removers, Rows, OfARow
<1>3. /\ UNCHANGED <<cust, row, device, user, block, kill>>
      /\ radcheck'[c] = IF HasIdentity(r) THEN Disabled ELSE radcheck[c]
  BY FailTaints, StoresAndKill DEF Disable, Of
<1>4. Takes(c)
  BY <1>3 DEF Takes
<1>5. /\ WriterAlone(c)' /\ CreatorAlone(c)' /\ KillStage(c)'
      /\ \A x \in Requests : (proc[x].of = c)' => Stage(proc[x], c)'
      /\ \A x \in Requests : proc[x].of = c => Plain(proc[x])
  BY <1>1, <1>3, <1>4, RemoverFrame DEF Removers
<1>6. ~Writing(c)
  BY <1>5 DEF Writing, Plain
<1>7. \A steps : Deleting(c, steps) => Deleting(c, steps)'
  BY <1>1 DEF Deleting, Others
<1>8. Disabled \notin Passwords
  BY DisabledIsNoPassword, BoundsAreNaturals DEF Passwords
<1>9. cust[c] # "absent" /\ user[c] # None => radcheck'[c] \notin Passwords
  <2>1. cust[c] # "absent" /\ user[c] # None => HasIdentity(r)
    BY <1>2 DEF HasIdentity, SameRow, SameUser, Of, Rows, Holds, Present
  <2>. QED
    BY <1>3, <1>8, <2>1
<1>10. Present(c)'
  BY <1>2, <1>3, <1>6, <1>7, <1>9 DEF Holds, Present
<1>11. Left(c)'
  BY <1>1, <1>3, <1>7, <1>8 DEF Holds, Left, Others
<1>. QED
  BY <1>5, <1>10, <1>11 DEF Holds

\* delete_customer: the users row goes first.
LEMMA DeleteUsersSound ==
  ASSUME Types, Rows, NEW c \in Customers, Holds(c), NEW r \in Requests, proc[r].of = c,
         DeleteUsers(r)
  PROVE  Holds(c)'
<1>1. /\ Where(proc[r]) = "users" /\ Others(r) /\ proc[r].op = "delete"
      /\ proc'[r].op = "delete" /\ proc'[r].of = c /\ proc'[r].id = proc[r].id
      /\ proc'[r].named = proc[r].named /\ Where(proc'[r]) = "sweep"
  BY StepOn, Advance DEF DeleteUsers, Leads, Ends, Within
<1>2. row[c] \in {proc[r].id, None} /\ (~proc[r].named => user[c] = None /\ device[c] = "none")
  BY <1>1 DEF Holds, Stage, RemoveStage, Removers
<1>3. /\ UNCHANGED <<cust, row, device, radcheck, block, kill>> /\ user'[c] = None
  BY <1>2, StoresAndKill DEF DeleteUsers, Of
<1>4. Takes(c)
  BY <1>3 DEF Takes
<1>5. RemoveStage(proc[r], c)'
  BY <1>1, <1>2, <1>3 DEF RemoveStage
<1>6. /\ WriterAlone(c)' /\ CreatorAlone(c)' /\ KillStage(c)'
      /\ \A x \in Requests : (proc[x].of = c)' => Stage(proc[x], c)'
      /\ \A x \in Requests : proc[x].of = c => Plain(proc[x])
  BY <1>1, <1>3, <1>4, <1>5, RemoverFrame DEF Removers
<1>7. \A steps : "users" \notin steps /\ Deleting(c, steps) => Deleting(c, steps)'
  BY <1>1 DEF Deleting, Others
<1>8. \A steps : proc[r].named /\ "sweep" \in steps => Deleting(c, steps)'
  BY <1>1 DEF Deleting
<1>9. Present(c)'
  BY <1>2, <1>3, <1>7, <1>8 DEF Holds, Present
<1>10. Left(c)'
  BY <1>1, <1>2, <1>3, <1>7, <1>8 DEF Holds, Left, Others
<1>. QED
  BY <1>6, <1>9, <1>10 DEF Holds

\* There is no users row left for the sweep to find.
LEMMA SweepOrphansSound ==
  ASSUME Types, Rows, NEW c \in Customers, Holds(c), NEW r \in Requests, proc[r].of = c,
         taint'[c] = {}, SweepOrphans(r)
  PROVE  Holds(c)'
<1>1. /\ Where(proc[r]) = "sweep" /\ Others(r) /\ proc[r].op = "delete"
      /\ proc'[r].op = "delete" /\ proc'[r].of = c /\ proc'[r].id = proc[r].id
      /\ proc'[r].named = proc[r].named /\ Where(proc'[r]) = "devices"
  BY StepOn, Advance DEF SweepOrphans, Leads, Ends, Within
<1>2. row[c] \in {proc[r].id, None} /\ user[c] = None /\ (~proc[r].named => device[c] = "none")
  BY <1>1 DEF Holds, Stage, RemoveStage, Removers
<1>3. /\ UNCHANGED <<cust, row, device, block, kill>>
      /\ user'[c] = None /\ radcheck'[c] = radcheck[c]
  BY <1>2, FailTaints, StoresAndKill DEF SweepOrphans, Of
<1>4. SameStores(c)
  BY <1>2, <1>3 DEF SameStores
<1>5. RemoveStage(proc[r], c)'
  BY <1>1, <1>2, <1>3 DEF RemoveStage
<1>6. \A steps : {"sweep", "devices"} \subseteq steps /\ Deleting(c, steps) => Deleting(c, steps)'
  BY <1>1 DEF Deleting, Others
<1>7. \A steps : "sweep" \notin steps /\ Deleting(c, steps) => Deleting(c, steps)'
  BY <1>1 DEF Deleting, Others
<1>8. Archiving(c) => Archiving(c)'
  BY <1>1 DEF Archiving, Others
<1>. QED
  BY <1>1, <1>3, <1>4, <1>5, <1>6, <1>7, <1>8, RemoverMoves DEF Removers

\* The device goes while the block and the radcheck row are still to be removed.
LEMMA DeleteDevicesSound ==
  ASSUME Types, Rows, NEW c \in Customers, Holds(c), NEW r \in Requests, proc[r].of = c,
         DeleteDevices(r)
  PROVE  Holds(c)'
<1>1. /\ Where(proc[r]) = "devices" /\ Others(r) /\ proc[r].op = "delete"
      /\ proc'[r].op = "delete" /\ proc'[r].of = c /\ proc'[r].id = proc[r].id
      /\ proc'[r].named = proc[r].named /\ Where(proc'[r]) = "unblock"
  BY StepOn, Advance DEF DeleteDevices, Leads, Ends, Within
<1>2. /\ row[c] \in {proc[r].id, None} /\ user[c] = None
      /\ row[c] = None \/ ~proc[r].named => device[c] = "none"
  BY <1>1 DEF Holds, Stage, RemoveStage, Removers, Rows, Present
<1>3. UNCHANGED <<cust, row, user, radcheck, block, kill>> /\ device'[c] = "none"
  BY <1>2, StoresAndKill DEF DeleteDevices, Of, SameRow
<1>4. Takes(c)
  BY <1>3 DEF Takes
<1>5. RemoveStage(proc[r], c)'
  BY <1>1, <1>2, <1>3 DEF RemoveStage
<1>6. /\ WriterAlone(c)' /\ CreatorAlone(c)' /\ KillStage(c)'
      /\ \A x \in Requests : (proc[x].of = c)' => Stage(proc[x], c)'
      /\ \A x \in Requests : proc[x].of = c => Plain(proc[x])
  BY <1>1, <1>3, <1>4, <1>5, RemoverFrame DEF Removers
<1>7. \A steps : {"devices", "unblock"} \subseteq steps /\ Deleting(c, steps) => Deleting(c, steps)'
  BY <1>1 DEF Deleting, Others
<1>8. cust[c] # "absent" => Deleting(c, {"unblock", "purge", "reload", "customer"})'
  <2>1. SUFFICES ASSUME cust[c] # "absent" PROVE Deleting(c, {"unblock", "purge", "reload", "customer"})'
    OBVIOUS
  <2>2. CASE proc[r].named
    BY <1>1, <2>2 DEF Deleting
  <2>3. CASE ~proc[r].named
    <3>1. Deleting(c, {"unblock", "purge", "reload", "customer"})
      BY <1>2, <2>1, <2>3 DEF Holds, Present
    <3>. QED
      BY <1>1, <3>1 DEF Deleting, Others
  <2>. QED
    BY <2>2, <2>3
<1>9. Present(c)'
  BY <1>2, <1>3, <1>7, <1>8 DEF Holds, Present
<1>10. Left(c)'
  BY <1>1, <1>2, <1>3, <1>7 DEF Holds, Left, Others
<1>. QED
  BY <1>6, <1>9, <1>10 DEF Holds

\* The block goes; a request that did not know the identity leaves it to another.
LEMMA RemoveBlockSound ==
  ASSUME Types, Rows, NEW c \in Customers, Holds(c), NEW r \in Requests, proc[r].of = c,
         taint'[c] = {}, RemoveBlock(r)
  PROVE  Holds(c)'
<1>1. /\ Of(r) = c /\ At(r, "unblock") /\ UNCHANGED <<cust, row, device, user, radcheck, kill>>
      /\ block' = (IF proc[r].named THEN [block EXCEPT ![c] = None] ELSE block) /\ Go(r)
  BY FailTaints DEF RemoveBlock, Of, NoFailure
<1>2. /\ Where(proc[r]) = "unblock" /\ Others(r) /\ proc[r].op \in {"delete", "bulkdelete", "deleteuser", "cleanup"}
      /\ proc'[r].op = proc[r].op /\ proc'[r].of = c /\ proc'[r].id = proc[r].id
      /\ proc'[r].named = proc[r].named
      /\ Where(proc'[r]) = (IF proc[r].op = "delete" THEN "purge" ELSE "reload")
  BY <1>1, StepOn, Advance DEF Leads, Ends, Within
<1>3. RemoveStage(proc[r], c)
  BY DEF Holds, Stage
<1>4. RemoveStage(proc[r], c)'
  BY <1>1, <1>2, <1>3 DEF RemoveStage, Removers
<1>5. Archiving(c) => Archiving(c)'
  BY <1>2 DEF Archiving, Others
<1>6. \A steps : {"unblock", "purge"} \subseteq steps /\ Deleting(c, steps) => Deleting(c, steps)'
  BY <1>2 DEF Deleting, Others
<1>7. CASE proc[r].named
  <2>1. block'[c] = None
    BY <1>1, <1>7, StoresAndKill
  <2>2. Takes(c)
    BY <1>1, <2>1 DEF Takes
  <2>3. /\ WriterAlone(c)' /\ CreatorAlone(c)' /\ KillStage(c)'
        /\ \A x \in Requests : (proc[x].of = c)' => Stage(proc[x], c)'
        /\ \A x \in Requests : proc[x].of = c => Plain(proc[x])
    BY <1>1, <1>2, <1>4, <2>2, RemoverFrame DEF Removers
  <2>5. cust[c] = "absent" \/ user[c] = None
    BY <1>2, <1>3 DEF RemoveStage, Removers, Rows
  <2>6. Present(c)'
    BY <1>1, <1>5, <1>6, <2>5 DEF Holds, Present
  <2>7. Left(c)'
    BY <1>1, <1>6, <2>1 DEF Holds, Left
  <2>. QED
    BY <2>3, <2>6, <2>7 DEF Holds
<1>8. CASE ~proc[r].named
  <2>1. SameStores(c)
    BY <1>1, <1>8 DEF SameStores
  <2>2. \A steps : Deleting(c, steps) => Deleting(c, steps)'
    BY <1>2, <1>8 DEF Deleting, Others
  <2>. QED
    BY <1>1, <1>2, <1>4, <1>5, <1>8, <2>1, <2>2, RemoverMoves DEF Removers
<1>. QED
  BY <1>7, <1>8

\* The radcheck row goes.
LEMMA PurgeRadcheckSound ==
  ASSUME Types, Rows, NEW c \in Customers, Holds(c), NEW r \in Requests, proc[r].of = c,
         taint'[c] = {}, PurgeRadcheck(r)
  PROVE  Holds(c)'
<1>1. /\ Where(proc[r]) = "purge" /\ Others(r) /\ proc[r].op = "delete"
      /\ proc'[r].op = "delete" /\ proc'[r].of = c /\ proc'[r].id = proc[r].id
      /\ proc'[r].named = proc[r].named /\ Where(proc'[r]) = "reload"
  BY StepOn, Advance DEF PurgeRadcheck, Leads, Ends, Within
<1>2. RemoveStage(proc[r], c) /\ user[c] = None
  BY <1>1 DEF Holds, Stage, RemoveStage, Removers
<1>3. /\ UNCHANGED <<cust, row, device, user, block, kill>>
      /\ radcheck'[c] = IF proc[r].named THEN None ELSE radcheck[c]
  BY FailTaints, StoresAndKill DEF PurgeRadcheck, Of
<1>4. Takes(c)
  BY <1>3 DEF Takes
<1>5. RemoveStage(proc[r], c)'
  BY <1>1, <1>2, <1>3 DEF RemoveStage
<1>6. /\ WriterAlone(c)' /\ CreatorAlone(c)' /\ KillStage(c)'
      /\ \A x \in Requests : (proc[x].of = c)' => Stage(proc[x], c)'
      /\ \A x \in Requests : proc[x].of = c => Plain(proc[x])
  BY <1>1, <1>3, <1>4, <1>5, RemoverFrame DEF Removers
<1>7. \A steps : {"purge", "reload"} \subseteq steps /\ Deleting(c, steps) => Deleting(c, steps)'
  BY <1>1 DEF Deleting, Others
<1>8. \A steps : "purge" \notin steps \/ ~proc[r].named => (Deleting(c, steps) => Deleting(c, steps)')
  BY <1>1 DEF Deleting, Others
<1>9. Present(c)'
  BY <1>2, <1>3, <1>7 DEF Holds, Present
<1>10. Left(c)'
  BY <1>1, <1>2, <1>3, <1>8 DEF Holds, Left, Others, None, Passwords
<1>. QED
  BY <1>6, <1>9, <1>10 DEF Holds

\* The customer's row goes last, when nothing of it is left.
LEMMA DeleteCustomerSound ==
  ASSUME Types, Rows, NEW c \in Customers, Holds(c), NEW r \in Requests, proc[r].of = c,
         DeleteCustomer(r)
  PROVE  Holds(c)'
<1>1. /\ Where(proc[r]) = "customer" /\ Others(r) /\ proc[r].op = "delete" /\ proc'[r] = Idle
  BY StepOn, Advance DEF DeleteCustomer, Leads, Ends, Within
<1>2. row[c] \in {proc[r].id, None} /\ user[c] = None /\ device[c] = "none"
  BY <1>1 DEF Holds, Stage, RemoveStage, Removers
<1>3. /\ UNCHANGED <<device, user, radcheck, block, kill>>
      /\ cust'[c] = "absent" /\ row'[c] = None
  BY <1>2, StoresAndKill DEF DeleteCustomer, SameRow, Of, Rows
<1>4. Takes(c)
  BY <1>3 DEF Takes
<1>5. /\ WriterAlone(c)' /\ CreatorAlone(c)' /\ KillStage(c)'
      /\ \A x \in Requests : (proc[x].of = c)' => Stage(proc[x], c)'
      /\ \A x \in Requests : proc[x].of = c => Plain(proc[x])
  BY <1>1, <1>3, <1>4, RemoverFrame DEF Removers
<1>6. \A steps : "customer" \notin steps /\ Deleting(c, steps) => Deleting(c, steps)'
  BY <1>1 DEF Deleting, Others
<1>7. Present(c)'
  BY <1>2, <1>3 DEF Present
<1>8. Left(c)'
  BY <1>1, <1>2, <1>3, <1>6 DEF Holds, Left, Others
<1>. QED
  BY <1>5, <1>7, <1>8 DEF Holds

\* cmd_deleteuser finds what is there, or what it found is gone.
LEMMA FullSweepSound ==
  ASSUME Types, Rows, NEW c \in Customers, Holds(c), NEW r \in Requests, proc[r].of = c,
         FullSweep(r)
  PROVE  Holds(c)'
<1>1. /\ Where(proc[r]) = "fullsweep" /\ Others(r) /\ proc[r].op = "deleteuser"
      /\ proc'[r].op = "deleteuser" /\ proc'[r].of = c /\ proc'[r].id = proc[r].id
      /\ proc'[r].named = proc[r].named /\ Where(proc'[r]) = "unblock"
  BY StepOn, Advance DEF FullSweep, Leads, Ends, Within
<1>2. row[c] \in {proc[r].id, None} /\ (~proc[r].named => user[c] = None)
  BY <1>1 DEF Holds, Stage, RemoveStage, Removers
<1>3. /\ UNCHANGED <<block, kill>> /\ user'[c] = None
      /\ cust'[c] = "absent" /\ row'[c] = None /\ device'[c] = "none"
      /\ radcheck'[c] = IF proc[r].named THEN None ELSE radcheck[c]
  <2>1. UNCHANGED <<block, kill>> /\ user'[c] = None
    BY <1>2, StoresAndKill DEF FullSweep, SameUser, Of
  <2>2. radcheck'[c] = IF proc[r].named THEN None ELSE radcheck[c]
    BY StoresAndKill DEF FullSweep, Of
  <2>3. CASE row[c] = proc[r].id
    BY <2>1, <2>2, <2>3, StoresAndKill DEF FullSweep, SameRow, Of
  <2>4. CASE row[c] # proc[r].id
    <3>1. row[c] = None /\ cust[c] = "absent" /\ device[c] = "none"
      BY <1>2, <2>4 DEF Rows, Holds, Present
    <3>2. UNCHANGED <<device, cust, row>>
      BY <2>4 DEF FullSweep, SameRow, Of
    <3>. QED
      BY <2>1, <2>2, <3>1, <3>2
  <2>. QED
    BY <2>3, <2>4
<1>4. Takes(c)
  BY <1>3 DEF Takes
<1>5. RemoveStage(proc[r], c)'
  BY <1>1, <1>2, <1>3 DEF RemoveStage
<1>6. /\ WriterAlone(c)' /\ CreatorAlone(c)' /\ KillStage(c)'
      /\ \A x \in Requests : (proc[x].of = c)' => Stage(proc[x], c)'
      /\ \A x \in Requests : proc[x].of = c => Plain(proc[x])
  BY <1>1, <1>3, <1>4, <1>5, RemoverFrame DEF Removers
<1>7. \A steps : Deleting(c, steps) => Deleting(c, steps)'
  BY <1>1 DEF Deleting, Others
<1>8. Present(c)'
  BY <1>3 DEF Present
<1>9. Left(c)'
  BY <1>1, <1>2, <1>3, <1>7 DEF Holds, Left, Others, None, Passwords
<1>. QED
  BY <1>6, <1>8, <1>9 DEF Holds

\* cmd_cleanup_orphans: the identity of a customer that is gone.
LEMMA RetireSound ==
  ASSUME Types, Rows, NEW c \in Customers, Holds(c), NEW r \in Requests, proc[r].of = c,
         Retire(r)
  PROVE  Holds(c)'
<1>1. /\ Where(proc[r]) = "retire" /\ Others(r) /\ proc[r].op = "cleanup"
      /\ proc'[r].op = "cleanup" /\ proc'[r].of = c /\ proc'[r].id = proc[r].id
      /\ proc'[r].named = proc[r].named /\ Where(proc'[r]) = "unblock"
  BY StepOn, Advance DEF Retire, Leads, Ends, Within
<1>2. row[c] = None /\ cust[c] = "absent" /\ device[c] = "none"
  BY <1>1 DEF Holds, Stage, RemoveStage, Removers, Rows, Present
<1>3. /\ UNCHANGED <<cust, row, device, block, kill>>
      /\ user'[c] \in {user[c], None} /\ radcheck'[c] = None
  BY StoresAndKill DEF Retire, Of
<1>4. Takes(c)
  BY <1>3 DEF Takes
<1>5. RemoveStage(proc[r], c)'
  BY <1>1, <1>2, <1>3 DEF RemoveStage
<1>6. /\ WriterAlone(c)' /\ CreatorAlone(c)' /\ KillStage(c)'
      /\ \A x \in Requests : (proc[x].of = c)' => Stage(proc[x], c)'
      /\ \A x \in Requests : proc[x].of = c => Plain(proc[x])
  BY <1>1, <1>3, <1>4, <1>5, RemoverFrame DEF Removers
<1>7. \A steps : Deleting(c, steps) => Deleting(c, steps)'
  BY <1>1 DEF Deleting, Others
<1>8. Present(c)'
  BY <1>2, <1>3 DEF Present
<1>9. Left(c)'
  BY <1>1, <1>2, <1>3, <1>7 DEF Holds, Left, Others, None, Passwords
<1>. QED
  BY <1>6, <1>8, <1>9 DEF Holds

\* bulk_action.py deletes what it reads in the same transaction.
LEMMA BulkDeleteSound ==
  ASSUME Types, Rows, NEW c \in Customers, Holds(c), NEW r \in Requests, proc[r].of = c,
         BulkDelete(r)
  PROVE  Holds(c)'
<1>1. /\ Where(proc[r]) = "transaction" /\ proc[r].op = "bulkdelete" /\ Of(r) = c
      /\ At(r, "transaction")
  BY StepOn DEF BulkDelete, Within, Of
<1>2. row[c] \in {proc[r].id, None} /\ proc[r].id # None
  BY <1>1 DEF Holds, Stage, RemoveStage, Removers, Rows, OfARow
<1>3. CASE row[c] # proc[r].id
  <2>1. UNCHANGED <<cust, row, device, user, radcheck, block, kill>> /\ Finish(r)
    BY <1>1, <1>3 DEF BulkDelete, SameRow
  <2>2. Others(r) /\ proc'[r] = Idle
    BY <2>1, FinishMoves DEF Types
  <2>3. SameStores(c)
    BY <2>1 DEF SameStores
  <2>4. (\A steps : Deleting(c, steps) => Deleting(c, steps)') /\ (Archiving(c) => Archiving(c)')
    BY <1>1, <2>2 DEF Deleting, Archiving, Others
  <2>. QED
    BY <1>1, <2>1, <2>2, <2>3, <2>4, RemoverMoves DEF Removers
<1>4. CASE row[c] = proc[r].id
  <2>1. /\ Others(r)
        /\ proc'[r].op = "bulkdelete" /\ proc'[r].of = c /\ proc'[r].id = proc[r].id
        /\ proc'[r].named = (device[c] = "own") /\ Where(proc'[r]) = "unblock"
    <3>1. proc' = [proc EXCEPT ![r].named = (device[c] = "own"), ![r].todo = Tail(@)]
      BY <1>1, <1>4 DEF BulkDelete, SameRow
    <3>2. (device[c] = "own") \in BOOLEAN
      OBVIOUS
    <3>3. Others(r) /\ Goes(proc[r], proc'[r]) /\ proc'[r].named = (device[c] = "own")
      BY <1>1, <3>1, <3>2, TransactionMoves DEF Types
    <3>. QED
      BY <1>1, <3>3 DEF Goes, Leads
  <2>2. cust[c] # "absent" /\ device[c] \in {"own", "none"} /\ (device[c] = "none" => user[c] = None)
    BY <1>2, <1>4, StoresAndKill DEF Rows, Holds, Present
  <2>3. /\ UNCHANGED <<block, kill>> /\ user'[c] = None
        /\ cust'[c] = "absent" /\ row'[c] = None /\ device'[c] = "none"
        /\ radcheck'[c] = IF device[c] = "own" THEN None ELSE radcheck[c]
    BY <1>1, <1>4, <2>2, StoresAndKill DEF BulkDelete, SameRow
  <2>4. Takes(c)
    BY <2>3 DEF Takes
  <2>5. RemoveStage(proc[r], c)'
    BY <2>1, <2>3 DEF RemoveStage
  <2>6. /\ WriterAlone(c)' /\ CreatorAlone(c)' /\ KillStage(c)'
        /\ \A x \in Requests : (proc[x].of = c)' => Stage(proc[x], c)'
        /\ \A x \in Requests : proc[x].of = c => Plain(proc[x])
    BY <1>1, <2>1, <2>3, <2>4, <2>5, RemoverFrame DEF Removers
  <2>7. \A steps : Deleting(c, steps) => Deleting(c, steps)'
    BY <1>1, <2>1 DEF Deleting, Others
  <2>8. Present(c)'
    BY <2>3 DEF Present
  <2>9. Left(c)'
    <3>1. CASE device[c] = "own"
      <4>1. proc'[r].named = TRUE
        BY <2>1, <3>1
      <4>2. radcheck'[c] \notin Passwords
        BY <2>3, <3>1 DEF None, Passwords
      <4>. QED
        BY <2>1, <4>1, <4>2 DEF Left
    <3>2. CASE device[c] = "none"
      BY <1>1, <2>1, <2>2, <2>3, <2>7, <3>2 DEF Holds, Left, Others
    <3>. QED
      BY <2>2, <3>1, <3>2
  <2>. QED
    BY <2>6, <2>8, <2>9 DEF Holds
<1>. QED
  BY <1>3, <1>4

\* charon is told to read rw-eap.conf again.
LEMMA RemoverReloadSound ==
  ASSUME Types, Rows, NEW c \in Customers, Holds(c), NEW r \in Requests, proc[r].of = c,
         taint'[c] = {}, Reload(r), proc[r].op \in Removers
  PROVE  Holds(c)'
<1>1. /\ Where(proc[r]) = "reload" /\ Others(r) /\ proc[r].op \in {"delete", "bulkdelete", "deleteuser", "cleanup"}
      /\ \/ proc'[r] = Idle /\ proc[r].op # "delete"
         \/ /\ proc[r].op = "delete" /\ proc'[r].op = "delete" /\ proc'[r].of = c
            /\ proc'[r].id = proc[r].id
            /\ proc'[r].named = proc[r].named /\ Where(proc'[r]) = "customer"
  <2>1. At(r, "reload") /\ Go(r)
    BY FailTaints DEF Reload, Of
  <2>. QED
    BY <2>1, StepOn, Advance DEF Leads, Ends, Within, Removers
<1>2. UNCHANGED <<cust, row, device, user, radcheck, block, kill>>
  BY DEF Reload, stores
<1>3. SameStores(c)
  BY <1>2 DEF SameStores
<1>4. RemoveStage(proc[r], c)
  BY DEF Holds, Stage
<1>5. proc'[r] # Idle => RemoveStage(proc[r], c)'
  BY <1>1, <1>2, <1>4 DEF RemoveStage, Removers
<1>6. \A steps : ({"reload", "customer"} \subseteq steps \/ "reload" \notin steps) /\ Deleting(c, steps)
                   => Deleting(c, steps)'
  BY <1>1 DEF Deleting, Others
<1>7. Archiving(c) => Archiving(c)'
  BY <1>1 DEF Archiving, Others
<1>. QED
  BY <1>1, <1>2, <1>3, <1>5, <1>6, <1>7, RemoverMoves

\* Whoever writes a password has the customer for itself.
LEMMA WriterFrame ==
  ASSUME Types, NEW c \in Customers, Holds(c), NEW r \in Requests, proc[r].of = c,
         proc[r].op \in Writers, Others(r), UNCHANGED kill,
         proc'[r] = Idle \/ (proc'[r].op = proc[r].op /\ proc'[r].of = c)
  PROVE  /\ WriterAlone(c)' /\ CreatorAlone(c)' /\ KillStage(c)' /\ c \notin kill.victims
         /\ \A x \in Requests \ {r} : proc'[x] = proc[x] /\ proc[x].of # c
         /\ proc'[r] = Idle => \A x \in Requests : proc'[x].of # c
         /\ proc'[r] # Idle => Writing(c)'
<1>1. Idle.of # c
  BY NobodyIsNoCustomer DEF Idle
<1>2. c \notin kill.victims /\ \A x \in Requests \ {r} : proc'[x] = proc[x] /\ proc[x].of # c
  BY DEF Holds, WriterAlone, Others
<1>3. KillStage(c)'
  BY <1>2 DEF KillStage
<1>4. WriterAlone(c)' /\ CreatorAlone(c)'
  BY <1>1, <1>2 DEF WriterAlone, CreatorAlone
<1>5. proc'[r] # Idle => Writing(c)'
  BY DEF Writing
<1>. QED
  BY <1>1, <1>2, <1>3, <1>4, <1>5

\* A customer whose writer is done, or still at work.
LEMMA OwnedIsPresent ==
  ASSUME NEW c \in Customers, cust'[c] # "absent", user'[c] # None, device'[c] = "own",
         cust'[c] = "archived" => radcheck'[c] \notin Passwords,
         Writing(c)' \/ (block'[c] = user'[c] /\ radcheck'[c] = user'[c])
  PROVE  Present(c)' /\ Left(c)'
BY DEF Present, Left

\* rotate_eap: users, rw-eap.conf, radcheck.
LEMMA RotateSound ==
  ASSUME Types, NEW c \in Customers, Holds(c), NEW r \in Requests, proc[r].of = c,
         taint'[c] = {}, proc[r].op = "rotate",
         SetUser(r) \/ ReplaceSecret(r) \/ Reload(r) \/ WriteRadcheck(r)
  PROVE  Holds(c)'
<1>. DEFINE p == proc[r]
<1>1. /\ cust[c] = "active" /\ row[c] = p.id /\ device[c] = "own" /\ user[c] # None /\ block[c] # None
      /\ Where(p) # "user" => user[c] = p.pw
      /\ Where(p) \in {"reload", "radcheck"} => block[c] = p.pw
  BY DEF Holds, Stage, RotateStage
<1>2. Of(r) = c
  BY DEF Of
<1>3. ASSUME Others(r), UNCHANGED <<kill, cust, row, device>>,
             user'[c] # None, block'[c] # None,
             \/ proc'[r] = Idle /\ user'[c] = radcheck'[c] /\ block'[c] = user'[c]
             \/ /\ proc'[r].op = "rotate" /\ proc'[r].of = c /\ proc'[r].id = p.id /\ proc'[r].pw = p.pw
                /\ Where(proc'[r]) # "user" => user'[c] = p.pw
                /\ Where(proc'[r]) \in {"reload", "radcheck"} => block'[c] = p.pw
      PROVE  Holds(c)'
  <2>1. /\ WriterAlone(c)' /\ CreatorAlone(c)' /\ KillStage(c)'
        /\ \A x \in Requests \ {r} : proc'[x] = proc[x] /\ proc[x].of # c
        /\ proc'[r] = Idle => \A x \in Requests : proc'[x].of # c
        /\ proc'[r] # Idle => Writing(c)'
    BY <1>3, WriterFrame DEF Writers
  <2>2. Present(c)' /\ Left(c)'
    BY <1>1, <1>3, <2>1, OwnedIsPresent
  <2>3. ASSUME NEW x \in Requests, (proc[x].of = c)' PROVE Stage(proc[x], c)'
    <3>1. x = r /\ proc'[r].op = "rotate"
      BY <1>3, <2>1, <2>3
    <3>. QED
      BY <1>1, <1>3, <2>1, <2>3, <3>1
         DEF Stage, RotateStage, UnarchiveStage, ReclaimStage, CreateStage, RemoveStage, Removers
  <2>. QED
    BY <2>1, <2>2, <2>3 DEF Holds
<1>. HIDE DEF p
<1>4. CASE SetUser(r)
  <2>1. /\ Where(p) = "user" /\ p.pw # None /\ Others(r)
        /\ proc'[r].op = "rotate" /\ proc'[r].of = c /\ proc'[r].id = p.id /\ proc'[r].pw = p.pw
        /\ Where(proc'[r]) = "conf"
    BY <1>4, StepOn, Advance DEF SetUser, Leads, Ends, p
  <2>2. UNCHANGED <<kill, cust, row, device, block>> /\ user'[c] = p.pw
    BY <1>1, <1>2, <1>4, StoresAndKill DEF SetUser, SameUser, p
  <2>. QED
    BY <1>1, <1>3, <2>1, <2>2
<1>5. CASE ReplaceSecret(r)
  <2>1. At(r, "conf") /\ Go(r) /\ UNCHANGED <<kill, cust, row, device, user>> /\ block'[c] = p.pw
    BY <1>1, <1>2, <1>5, FailTaints, StoresAndKill DEF ReplaceSecret, p
  <2>2. /\ Where(p) = "conf" /\ p.pw # None /\ Others(r)
        /\ proc'[r].op = "rotate" /\ proc'[r].of = c /\ proc'[r].id = p.id /\ proc'[r].pw = p.pw
        /\ Where(proc'[r]) = "reload"
    BY <2>1, StepOn, Advance DEF Leads, Ends, p
  <2>. QED
    BY <1>1, <1>3, <2>1, <2>2
<1>6. CASE Reload(r)
  <2>1. At(r, "reload") /\ Go(r) /\ UNCHANGED <<kill, cust, row, device, user, block>>
    BY <1>2, <1>6, FailTaints DEF Reload, stores
  <2>2. /\ Where(p) = "reload" /\ Others(r)
        /\ proc'[r].op = "rotate" /\ proc'[r].of = c /\ proc'[r].id = p.id /\ proc'[r].pw = p.pw
        /\ Where(proc'[r]) = "radcheck"
    BY <2>1, StepOn, Advance DEF Leads, Ends, p
  <2>. QED
    BY <1>1, <1>3, <2>1, <2>2
<1>7. CASE WriteRadcheck(r)
  <2>1. /\ At(r, "radcheck") /\ Go(r) /\ UNCHANGED <<kill, cust, row, device, user, block>>
        /\ radcheck'[c] = p.pw
    BY <1>2, <1>7, FailTaints, StoresAndKill DEF WriteRadcheck, p
  <2>2. Where(p) = "radcheck" /\ Others(r) /\ proc'[r] = Idle
    BY <2>1, StepOn, Advance DEF Leads, Ends, p
  <2>. QED
    BY <1>1, <1>3, <2>1, <2>2
<1>. QED
  BY <1>4, <1>5, <1>6, <1>7

\* unarchive_customer: status, users, rw-eap.conf, radcheck.
LEMMA UnarchiveSound ==
  ASSUME Types, Rows, NEW c \in Customers, Holds(c), NEW r \in Requests, proc[r].of = c,
         taint'[c] = {}, proc[r].op = "unarchive",
         SetStatus(r) \/ SetUser(r) \/ ReplaceSecret(r) \/ WriteRadcheck(r) \/ Reload(r)
  PROVE  Holds(c)'
<1>. DEFINE p == proc[r]
<1>1. /\ row[c] = p.id /\ device[c] = "own" /\ user[c] # None /\ block[c] # None
      /\ Where(p) # "status" => cust[c] = "active"
      /\ Where(p) \in {"conf", "radcheck", "reload"} => user[c] = p.pw
      /\ Where(p) \in {"radcheck", "reload"} => block[c] = p.pw
      /\ Where(p) = "reload" => radcheck[c] = p.pw
  BY DEF Holds, Stage, UnarchiveStage
<1>2. Of(r) = c
  BY DEF Of
<1>3. ASSUME Others(r), UNCHANGED <<kill, row, device>>, cust'[c] = "active",
             user'[c] # None, block'[c] # None,
             \/ proc'[r] = Idle /\ user'[c] = radcheck'[c] /\ block'[c] = user'[c]
             \/ /\ proc'[r].op = "unarchive" /\ proc'[r].of = c /\ proc'[r].id = p.id
                /\ proc'[r].pw = p.pw /\ Where(proc'[r]) # "status"
                /\ Where(proc'[r]) \in {"conf", "radcheck", "reload"} => user'[c] = p.pw
                /\ Where(proc'[r]) \in {"radcheck", "reload"} => block'[c] = p.pw
                /\ Where(proc'[r]) = "reload" => radcheck'[c] = p.pw
      PROVE  Holds(c)'
  <2>1. /\ WriterAlone(c)' /\ CreatorAlone(c)' /\ KillStage(c)'
        /\ \A x \in Requests \ {r} : proc'[x] = proc[x] /\ proc[x].of # c
        /\ proc'[r] = Idle => \A x \in Requests : proc'[x].of # c
        /\ proc'[r] # Idle => Writing(c)'
    BY <1>3, WriterFrame DEF Writers
  <2>2. Present(c)' /\ Left(c)'
    BY <1>1, <1>3, <2>1, OwnedIsPresent
  <2>3. ASSUME NEW x \in Requests, (proc[x].of = c)' PROVE Stage(proc[x], c)'
    <3>1. x = r /\ proc'[r].op = "unarchive"
      BY <1>3, <2>1, <2>3
    <3>. QED
      BY <1>1, <1>3, <2>1, <2>3, <3>1
         DEF Stage, RotateStage, UnarchiveStage, ReclaimStage, CreateStage, RemoveStage, Removers
  <2>. QED
    BY <2>1, <2>2, <2>3 DEF Holds
<1>. HIDE DEF p
<1>4. CASE SetStatus(r)
  <2>1. HasIdentity(r)
    BY <1>1, <1>2 DEF HasIdentity, SameRow, SameUser, p
  <2>2. At(r, "status") /\ Go(r) /\ UNCHANGED <<kill, row, device, user, block>> /\ cust'[c] = "active"
    BY <1>1, <1>2, <1>4, <2>1, StoresAndKill DEF SetStatus, SameRow, p
  <2>3. /\ Others(r)
        /\ proc'[r].op = "unarchive" /\ proc'[r].of = c /\ proc'[r].id = p.id /\ proc'[r].pw = p.pw
        /\ Where(proc'[r]) = "user"
    BY <2>2, StepOn, Advance DEF Leads, Ends, p
  <2>. QED
    BY <1>1, <1>3, <2>2, <2>3
<1>5. CASE SetUser(r)
  <2>1. /\ Where(p) = "user" /\ p.pw # None /\ Others(r)
        /\ proc'[r].op = "unarchive" /\ proc'[r].of = c /\ proc'[r].id = p.id /\ proc'[r].pw = p.pw
        /\ Where(proc'[r]) = "conf"
    BY <1>5, StepOn, Advance DEF SetUser, Leads, Ends, p
  <2>2. UNCHANGED <<kill, cust, row, device, block>> /\ user'[c] = p.pw
    BY <1>1, <1>2, <1>5, StoresAndKill DEF SetUser, SameUser, p
  <2>. QED
    BY <1>1, <1>3, <2>1, <2>2
<1>6. CASE ReplaceSecret(r)
  <2>1. At(r, "conf") /\ Go(r) /\ UNCHANGED <<kill, cust, row, device, user>> /\ block'[c] = p.pw
    BY <1>1, <1>2, <1>6, FailTaints, StoresAndKill DEF ReplaceSecret, p
  <2>2. /\ Where(p) = "conf" /\ p.pw # None /\ Others(r)
        /\ proc'[r].op = "unarchive" /\ proc'[r].of = c /\ proc'[r].id = p.id /\ proc'[r].pw = p.pw
        /\ Where(proc'[r]) = "radcheck"
    BY <2>1, StepOn, Advance DEF Leads, Ends, p
  <2>. QED
    BY <1>1, <1>3, <2>1, <2>2
<1>7. CASE WriteRadcheck(r)
  <2>1. /\ At(r, "radcheck") /\ Go(r) /\ UNCHANGED <<kill, cust, row, device, user, block>>
        /\ radcheck'[c] = p.pw
    BY <1>2, <1>7, FailTaints, StoresAndKill DEF WriteRadcheck, p
  <2>2. /\ Where(p) = "radcheck" /\ Others(r)
        /\ proc'[r].op = "unarchive" /\ proc'[r].of = c /\ proc'[r].id = p.id /\ proc'[r].pw = p.pw
        /\ Where(proc'[r]) = "reload"
    BY <2>1, StepOn, Advance DEF Leads, Ends, p
  <2>. QED
    BY <1>1, <1>3, <2>1, <2>2
<1>8. CASE Reload(r)
  <2>1. At(r, "reload") /\ Go(r) /\ UNCHANGED <<kill, cust, row, device, user, block, radcheck>>
    BY <1>2, <1>8, FailTaints DEF Reload, stores
  <2>2. Where(p) = "reload" /\ Others(r) /\ proc'[r] = Idle
    BY <2>1, StepOn, Advance DEF Leads, Ends, p
  <2>. QED
    BY <1>1, <1>3, <2>1, <2>2
<1>. QED
  BY <1>4, <1>5, <1>6, <1>7, <1>8

\* renew_orphan_core: the rows, then a new block for the old one.
LEMMA ReclaimSound ==
  ASSUME Types, NEW c \in Customers, Holds(c), NEW r \in Requests, proc[r].of = c,
         taint'[c] = {}, proc[r].op = "reclaim",
         Reclaim(r) \/ PreClean(r) \/ Append_(r) \/ Reload(r)
  PROVE  Holds(c)'
<1>. DEFINE p == proc[r]
<1>1. /\ Where(p) = "reclaim" => cust[c] = "absent"
      /\ Where(p) # "reclaim" =>
           cust[c] = "active" /\ device[c] = "own" /\ user[c] = p.pw /\ radcheck[c] = p.pw
      /\ Where(p) = "append" => block[c] = None
      /\ Where(p) = "reload" => block[c] = p.pw
  BY DEF Holds, Stage, ReclaimStage
<1>2. Of(r) = c
  BY DEF Of
<1>3. ASSUME Others(r), UNCHANGED kill, p.pw # None, cust'[c] = "active", device'[c] = "own",
             user'[c] = p.pw, radcheck'[c] = p.pw,
             \/ proc'[r] = Idle /\ block'[c] = p.pw
             \/ /\ proc'[r].op = "reclaim" /\ proc'[r].of = c
                /\ proc'[r].pw = p.pw /\ Where(proc'[r]) # "reclaim"
                /\ Where(proc'[r]) = "append" => block'[c] = None
                /\ Where(proc'[r]) = "reload" => block'[c] = p.pw
      PROVE  Holds(c)'
  <2>1. /\ WriterAlone(c)' /\ CreatorAlone(c)' /\ KillStage(c)'
        /\ \A x \in Requests \ {r} : proc'[x] = proc[x] /\ proc[x].of # c
        /\ proc'[r] = Idle => \A x \in Requests : proc'[x].of # c
        /\ proc'[r] # Idle => Writing(c)'
    BY <1>3, WriterFrame DEF Writers
  <2>2. Present(c)' /\ Left(c)'
    BY <1>3, <2>1, OwnedIsPresent
  <2>3. ASSUME NEW x \in Requests, (proc[x].of = c)' PROVE Stage(proc[x], c)'
    <3>1. x = r /\ proc'[r].op = "reclaim"
      BY <1>3, <2>1, <2>3
    <3>. QED
      BY <1>3, <2>1, <2>3, <3>1
         DEF Stage, RotateStage, UnarchiveStage, ReclaimStage, CreateStage, RemoveStage, Removers
  <2>. QED
    BY <2>1, <2>2, <2>3 DEF Holds
<1>. HIDE DEF p
<1>4. CASE Reclaim(r)
  <2>1. Where(p) = "reclaim" /\ p.pw # None /\ cust[c] = "absent"
    BY <1>1, <1>4, StepOn DEF Reclaim, p
  <2>2. /\ At(r, "reclaim") /\ Go(r) /\ UNCHANGED kill
        /\ cust'[c] = "active" /\ device'[c] = "own" /\ user'[c] = p.pw /\ radcheck'[c] = p.pw
    BY <1>2, <1>4, <2>1, StoresAndKill DEF Reclaim, p
  <2>3. /\ Others(r)
        /\ proc'[r].op = "reclaim" /\ proc'[r].of = c /\ proc'[r].pw = p.pw
        /\ Where(proc'[r]) = "preclean"
    BY <2>2, StepOn, Advance DEF Leads, Ends, p
  <2>. QED
    BY <1>3, <2>1, <2>2, <2>3
<1>5. CASE PreClean(r)
  <2>1. /\ At(r, "preclean") /\ Go(r) /\ UNCHANGED <<kill, cust, device, user, radcheck>>
        /\ block'[c] = None
    BY <1>2, <1>5, FailTaints, StoresAndKill DEF PreClean, p
  <2>2. /\ Where(p) = "preclean" /\ p.pw # None /\ Others(r)
        /\ proc'[r].op = "reclaim" /\ proc'[r].of = c /\ proc'[r].pw = p.pw
        /\ Where(proc'[r]) = "append"
    BY <2>1, StepOn, Advance DEF Leads, Ends, p
  <2>. QED
    BY <1>1, <1>3, <2>1, <2>2
<1>6. CASE Append_(r)
  <2>1. Where(p) = "append" /\ p.pw # None /\ block[c] = None
    BY <1>1, <1>6, StepOn DEF Append_, p
  <2>2. /\ At(r, "append") /\ Go(r) /\ UNCHANGED <<kill, cust, device, user, radcheck>>
        /\ block'[c] = p.pw
    BY <1>2, <1>6, <2>1, FailTaints, StoresAndKill DEF Append_, p
  <2>3. /\ Others(r)
        /\ proc'[r].op = "reclaim" /\ proc'[r].of = c /\ proc'[r].pw = p.pw
        /\ Where(proc'[r]) = "reload"
    BY <2>2, StepOn, Advance DEF Leads, Ends, p
  <2>. QED
    BY <1>1, <1>3, <2>1, <2>2, <2>3
<1>7. CASE Reload(r)
  <2>1. At(r, "reload") /\ Go(r) /\ UNCHANGED <<kill, cust, device, user, radcheck, block>>
    BY <1>2, <1>7, FailTaints DEF Reload, stores
  <2>2. Where(p) = "reload" /\ p.pw # None /\ Others(r) /\ proc'[r] = Idle
    BY <2>1, StepOn, Advance DEF Leads, Ends, p
  <2>. QED
    BY <1>1, <1>3, <2>1, <2>2
<1>. QED
  BY <1>4, <1>5, <1>6, <1>7

\* create_client gets the name and nobody else is at work on a former customer.
LEMMA InsertSound ==
  ASSUME Types, NEW c \in Customers, Holds(c), NEW r \in Requests, proc[r].of = c,
         taint'[c] = {}, Insert(r)
  PROVE  Holds(c)'
<1>1. Of(r) = c /\ Idle.of # c
  BY NobodyIsNoCustomer DEF Of, Idle
<1>2. At(r, "insert") /\ Where(proc[r]) = "insert" /\ proc[r].op = "create"
  BY StepOn DEF Insert, Within
<1>3. ~Reused(r)
  BY <1>1, StoresAndKill DEF Insert
<1>4. c \notin kill.victims /\ \A s \in Requests : proc[s].of = c => proc[s].op = "create"
  BY <1>1, <1>3 DEF Reused, Of
<1>5. \A s \in Requests \ {r} : proc[s].of = c => Where(proc[s]) = "insert"
  <2>1. SUFFICES ASSUME NEW s \in Requests \ {r}, proc[s].of = c, Where(proc[s]) # "insert"
                 PROVE  FALSE
    OBVIOUS
  <2>2. proc[s] \in Procs /\ Placed(proc[s]) /\ proc[s] # Idle /\ proc[s].op = "create"
    BY <1>1, <1>4, <2>1 DEF Types, ProcTypes
  <2>3. Where(proc[s]) \in {"append", "reload", "commit", "cleanup"} /\ proc[s].todo # <<>>
    BY <2>1, <2>2, StepOfProgram DEF Within
  <2>4. Where(proc[s]) # "cleanup"
    BY <2>1, <2>2 DEF Holds, Stage, CreateStage
  <2>5. At(s, Where(proc[s]))
    BY <2>3 DEF At, Where
  <2>6. Inserting(r)
    BY <1>1, <2>1, <2>2, <2>3, <2>4, <2>5 DEF Inserting, Of
  <2>. QED
    BY <2>6 DEF Insert
<1>6. UNCHANGED <<cust, row, device, user, radcheck, block, kill>>
  BY DEF Insert, stores
<1>7. /\ Others(r)
      /\ \/ proc'[r] = Idle
         \/ /\ proc'[r].op = "create" /\ proc'[r].of = c /\ Where(proc'[r]) = "append"
            /\ cust[c] = "absent" /\ user[c] = None
  <2>1. CASE Finish(r)
    BY <2>1, FinishMoves DEF Types
  <2>2. CASE ~Finish(r)
    <3>1. Go(r) /\ cust[c] = "absent" /\ user[c] = None
      BY <1>1, <2>2 DEF Insert
    <3>. QED
      BY <1>2, <3>1, Advance DEF Leads, Ends
  <2>. QED
    BY <2>1, <2>2
<1>8. \A x \in Requests : proc'[x].of = c =>
        proc'[x].op = "create" /\ (x # r => proc'[x] = proc[x] /\ Where(proc'[x]) = "insert")
  BY <1>1, <1>4, <1>5, <1>7 DEF Others
<1>9. WriterAlone(c)'
  BY <1>8 DEF WriterAlone, Writers
<1>10. CreatorAlone(c)'
  BY <1>4, <1>6, <1>8 DEF CreatorAlone
<1>11. KillStage(c)'
  BY <1>4, <1>6 DEF KillStage
<1>12. /\ \A steps : ~Deleting(c, steps)
       /\ ~Writing(c) /\ ~Archiving(c)
  BY <1>4 DEF Deleting, Writing, Archiving, Writers
<1>13. Present(c)'
  BY <1>4, <1>6, <1>12 DEF Holds, Present
<1>14. Left(c)'
  BY <1>2, <1>4, <1>5, <1>6, <1>12 DEF Holds, Left
<1>15. cust[c] = "absent" /\ user[c] = None => block[c] = None
  BY <1>2, <1>4, <1>5, <1>12 DEF Holds, Left
<1>16. ASSUME NEW x \in Requests, (proc[x].of = c)' PROVE Stage(proc[x], c)'
  <2>1. CreateStage(proc[x], c)'
    <3>1. CASE x = r
      BY <1>1, <1>6, <1>7, <1>15, <1>16, <3>1 DEF CreateStage
    <3>2. CASE x # r
      BY <1>8, <1>16, <3>2 DEF CreateStage
    <3>. QED
      BY <3>1, <3>2
  <2>. QED
    BY <1>8, <1>16, <2>1 DEF Stage, RotateStage, UnarchiveStage, ReclaimStage, RemoveStage, Removers
<1>. QED
  BY <1>9, <1>10, <1>11, <1>13, <1>14, <1>16 DEF Holds

\* create_client: the block, then everything else in one commit.
LEMMA CreateSound ==
  ASSUME Types, NEW c \in Customers, Holds(c), NEW r \in Requests, proc[r].of = c,
         taint'[c] = {}, proc[r].op = "create",
         Append_(r) \/ Reload(r) \/ Commit(r) \/ Cleanup(r)
  PROVE  Holds(c)'
<1>. DEFINE p == proc[r]
<1>1. Of(r) = c /\ Idle.of # c
  BY NobodyIsNoCustomer DEF Of, Idle
<1>2. Where(p) \in {"append", "reload", "commit", "cleanup"}
  BY StepOn DEF Append_, Reload, Commit, Cleanup
<1>3. /\ Where(p) # "cleanup" /\ cust[c] = "absent" /\ user[c] = None
      /\ Where(p) = "append" => block[c] = None
      /\ Where(p) \in {"reload", "commit"} => block[c] = p.pw
  BY <1>2 DEF Holds, Stage, CreateStage
<1>4. c \notin kill.victims
      /\ \A s \in Requests \ {r} : proc[s].of = c => proc[s].op = "create" /\ Where(proc[s]) = "insert"
  BY <1>2 DEF Holds, CreatorAlone
<1>5. \A steps : ~Deleting(c, steps)
  BY <1>4 DEF Deleting
<1>6. radcheck[c] \notin Passwords
  BY <1>3, <1>5 DEF Holds, Left
<1>7. device[c] = "none"
  BY <1>3 DEF Holds, Present
<1>8. ASSUME Others(r), UNCHANGED kill,
             \/ /\ proc'[r] = Idle /\ cust'[c] = "active" /\ device'[c] = "own" /\ user'[c] # None
                /\ radcheck'[c] = user'[c] /\ block'[c] = user'[c]
             \/ /\ proc'[r].op = "create" /\ proc'[r].of = c /\ proc'[r].pw = p.pw
                /\ UNCHANGED <<cust, user, device, radcheck>>
                /\ Where(proc'[r]) \in {"reload", "commit"} /\ block'[c] = p.pw
      PROVE  Holds(c)'
  <2>1. \A x \in Requests : proc'[x].of = c =>
          proc'[x].op = "create" /\ (x # r => Where(proc'[x]) = "insert")
    BY <1>1, <1>4, <1>8 DEF Others
  <2>2. WriterAlone(c)'
    BY <2>1 DEF WriterAlone, Writers
  <2>3. CreatorAlone(c)'
    BY <1>1, <1>4, <1>8, <2>1 DEF CreatorAlone
  <2>4. KillStage(c)'
    BY <1>4, <1>8 DEF KillStage
  <2>5. Present(c)'
    BY <1>3, <1>7, <1>8 DEF Present
  <2>6. Left(c)'
    BY <1>6, <1>8 DEF Left
  <2>7. ASSUME NEW x \in Requests, (proc[x].of = c)' PROVE Stage(proc[x], c)'
    <3>1. CreateStage(proc[x], c)'
      <4>1. CASE x = r
        BY <1>1, <1>3, <1>8, <2>7, <4>1 DEF CreateStage
      <4>2. CASE x # r
        BY <2>1, <2>7, <4>2 DEF CreateStage
      <4>. QED
        BY <4>1, <4>2
    <3>. QED
      BY <2>1, <2>7, <3>1 DEF Stage, RotateStage, UnarchiveStage, ReclaimStage, RemoveStage, Removers
  <2>. QED
    BY <2>2, <2>3, <2>4, <2>5, <2>6, <2>7 DEF Holds
<1>. HIDE DEF p
<1>9. CASE Append_(r)
  <2>1. Where(p) = "append" /\ block[c] = None
    BY <1>3, <1>9, StepOn DEF Append_, p
  <2>2. /\ At(r, "append") /\ Go(r) /\ UNCHANGED <<kill, cust, device, user, radcheck>>
        /\ block'[c] = p.pw
    BY <1>1, <1>9, <2>1, FailTaints, StoresAndKill DEF Append_, p
  <2>3. /\ Others(r)
        /\ proc'[r].op = "create" /\ proc'[r].of = c /\ proc'[r].pw = p.pw
        /\ Where(proc'[r]) = "reload"
    BY <2>2, StepOn, Advance DEF Leads, Ends, p
  <2>. QED
    BY <1>8, <2>2, <2>3
<1>10. CASE Reload(r)
  <2>1. At(r, "reload") /\ Go(r) /\ UNCHANGED <<kill, cust, device, user, radcheck, block>>
    BY <1>1, <1>10, FailTaints DEF Reload, stores
  <2>2. /\ Where(p) = "reload" /\ Others(r)
        /\ proc'[r].op = "create" /\ proc'[r].of = c /\ proc'[r].pw = p.pw
        /\ Where(proc'[r]) = "commit"
    BY <2>1, StepOn, Advance DEF Leads, Ends, p
  <2>. QED
    BY <1>3, <1>8, <2>1, <2>2
<1>11. CASE Commit(r)
  <2>1. Where(p) = "commit" /\ p.pw # None
    BY <1>11, StepOn DEF Commit, p
  <2>0. Finish(r) /\ NoFailure
    BY <1>1, <1>11, FailTaints DEF Commit
  <2>2. Others(r) /\ proc'[r] = Idle
    BY <2>0, FinishMoves DEF Types
  <2>3. /\ UNCHANGED <<kill, block>> /\ cust'[c] = "active" /\ device'[c] = "own"
        /\ user'[c] = p.pw /\ radcheck'[c] = p.pw
    BY <1>1, <1>11, FailTaints, StoresAndKill DEF Commit, p
  <2>. QED
    BY <1>3, <1>8, <2>1, <2>2, <2>3
<1>12. CASE Cleanup(r)
  BY <1>3, <1>12, StepOn DEF Cleanup, p
<1>. QED
  BY <1>9, <1>10, <1>11, <1>12

\* Every step of a request, by the operation it belongs to.
LEMMA StepSound ==
  ASSUME Types, Rows, NEW c \in Customers, Sound(c), taint'[c] = {}, NEW r \in Requests, Step(r)
  PROVE  Holds(c)'
<1>1. CASE Of(r) # c
  BY <1>1, OtherStepSound
<1>2. CASE Of(r) = c
  <2>1. proc[r].of = c
    BY <1>2 DEF Of
  <2>2. taint[c] = {}
    <3>1. Fail(c) \/ taint' = taint \/ Insert(r)
      BY <1>2 DEF Step, Append_, Commit, Cleanup, Reload, SetUser, ReplaceSecret, WriteRadcheck,
                  SetStatus, Disable, DeleteUsers, SweepOrphans, DeleteDevices, RemoveBlock,
                  PurgeRadcheck, DeleteCustomer, BulkDelete, FullSweep, Retire, Reclaim, PreClean,
                  NoFailure
    <3>2. Insert(r) => taint[c] = {}
      BY <1>2, StoresAndKill DEF Insert
    <3>. QED
      BY <3>1, <3>2, FailTaints
  <2>3. Holds(c)
    BY <2>2 DEF Sound
  <2>4. proc[r].op # "reset"
    BY <2>1, <2>3 DEF Holds, Stage
  <2>. USE <2>1, <2>3, <2>4
  <2>5. CASE Insert(r)
    BY <2>5, InsertSound
  <2>6. CASE Append_(r)
    <3>1. proc[r].op \in {"create", "reclaim"}
      BY <2>6, StepOn DEF Append_, Within
    <3>. QED
      BY <2>6, <3>1, CreateSound, ReclaimSound
  <2>7. CASE Commit(r) \/ Cleanup(r)
    <3>1. proc[r].op = "create"
      BY <2>7, StepOn DEF Commit, Cleanup, Within
    <3>. QED
      BY <2>7, <3>1, CreateSound
  <2>8. CASE Reload(r)
    <3>1. proc[r].op \in {"create", "rotate", "unarchive", "reclaim"} \cup Removers
      BY <2>8, StepOn DEF Reload, Within, Removers
    <3>. QED
      BY <2>8, <3>1, CreateSound, RotateSound, UnarchiveSound, ReclaimSound, RemoverReloadSound
  <2>9. CASE SetUser(r)
    <3>1. proc[r].op \in {"rotate", "unarchive"}
      BY <2>9, StepOn DEF SetUser, Within
    <3>. QED
      BY <2>9, <3>1, RotateSound, UnarchiveSound
  <2>10. CASE ReplaceSecret(r)
    <3>1. proc[r].op \in {"rotate", "unarchive"}
      BY <2>10, StepOn DEF ReplaceSecret, Within
    <3>. QED
      BY <2>10, <3>1, RotateSound, UnarchiveSound
  <2>11. CASE WriteRadcheck(r)
    <3>1. proc[r].op \in {"rotate", "unarchive"}
      BY <2>11, StepOn DEF WriteRadcheck, Within
    <3>. QED
      BY <2>11, <3>1, RotateSound, UnarchiveSound
  <2>12. CASE SetStatus(r)
    <3>1. proc[r].op \in {"archive", "unarchive"}
      BY <2>12, StepOn DEF SetStatus, Within
    <3>. QED
      BY <2>12, <3>1, SetStatusSound, UnarchiveSound
  <2>13. CASE Disable(r)
    BY <2>13, DisableSound
  <2>14. CASE DeleteUsers(r)
    BY <2>14, DeleteUsersSound
  <2>15. CASE SweepOrphans(r)
    BY <2>15, SweepOrphansSound
  <2>16. CASE DeleteDevices(r)
    BY <2>16, DeleteDevicesSound
  <2>17. CASE RemoveBlock(r)
    BY <2>17, RemoveBlockSound
  <2>18. CASE PurgeRadcheck(r)
    BY <2>18, PurgeRadcheckSound
  <2>19. CASE DeleteCustomer(r)
    BY <2>19, DeleteCustomerSound
  <2>20. CASE BulkDelete(r)
    BY <2>20, BulkDeleteSound
  <2>21. CASE FullSweep(r)
    BY <2>21, FullSweepSound
  <2>22. CASE Retire(r)
    BY <2>22, RetireSound
  <2>23. CASE Reclaim(r) \/ PreClean(r)
    <3>1. proc[r].op = "reclaim"
      BY <2>23, StepOn DEF Reclaim, PreClean, Within
    <3>. QED
      BY <2>23, <3>1, ReclaimSound
  <2>. QED
    BY <2>5, <2>6, <2>7, <2>8, <2>9, <2>10, <2>11, <2>12, <2>13, <2>14, <2>15, <2>16, <2>17,
       <2>18, <2>19, <2>20, <2>21, <2>22, <2>23 DEF Step
<1>. QED
  BY <1>1, <1>2

-----------------------------------------------------------------------------
(* The theorems.                                                           *)

\* The first state satisfies the invariant.
LEMMA IInvFirst == Init => IInv
<1>. SUFFICES ASSUME Init PROVE IInv
  OBVIOUS
<1>1. Types
  BY TypesFirst
<1>2. Rows
  BY DEF Init, Rows, Idle, OfARow
<1>3. ASSUME NEW c \in Customers PROVE Holds(c)
  <2>1. \A r \in Requests : proc[r] = Idle /\ proc[r].of # c
    BY NobodyIsNoCustomer DEF Init, Idle
  <2>2. None \notin Passwords /\ kill.victims = {}
    BY DEF Init, Quiet, None, Passwords
  <2>3. WriterAlone(c) /\ CreatorAlone(c) /\ KillStage(c)
    BY <2>1, <2>2 DEF WriterAlone, CreatorAlone, KillStage
  <2>4. Present(c) /\ Left(c)
    BY <2>2 DEF Init, Present, Left
  <2>. QED
    BY <2>1, <2>3, <2>4 DEF Holds
<1>. QED
  BY <1>1, <1>2, <1>3 DEF IInv, Sound

\* Every action keeps it.
LEMMA IInvNext == IInv /\ [Next]_vars => IInv'
<1>. SUFFICES ASSUME IInv, [Next]_vars PROVE IInv'
  OBVIOUS
<1>1. Types /\ Rows /\ Types' /\ Rows'
  BY TypesNext, RowsNext DEF IInv
<1>2. ASSUME NEW c \in Customers, taint'[c] = {} PROVE Holds(c)'
  <2>. USE <1>1, <1>2
  <2>1. Sound(c)
    BY DEF IInv
  <2>2. ASSUME NEW r \in Requests, NEW d \in Customers, NEW op \in Ops, Start(r, op, d)
        PROVE  Holds(c)'
    BY <2>1, <2>2, StartSound
  <2>3. ASSUME NEW r \in Requests, Step(r) PROVE Holds(c)'
    BY <2>1, <2>3, StepSound
  <2>4. ASSUME NEW r \in Requests, Killed(r) PROVE Holds(c)'
    BY <2>1, <2>4, KilledSound
  <2>5. ASSUME NEW d \in Customers, Alone(d) PROVE Holds(c)'
    BY <2>1, <2>5, AloneSound
  <2>6. CASE KillStep
    <3>1. ASSUME NEW d \in Customers, CutOff(d) PROVE Holds(c)'
      BY <2>1, <3>1, CutOffSound
    <3>. QED
      BY <2>1, <2>6, <3>1, SelectSound, UnblockSound, CommitKillSound DEF KillStep
  <2>7. CASE KillAborted
    BY <2>1, <2>7, KillAbortedSound
  <2>8. CASE UNCHANGED vars
    <3>1. Holds(c) /\ SameStores(c) /\ SameKill(c) /\ SameRequests(c)
      BY <2>1, <2>8 DEF Sound, vars, stores, SameStores, SameKill, SameRequests
    <3>. QED
      BY <3>1, Elsewhere
  <2>. QED
    BY <2>2, <2>3, <2>4, <2>5, <2>6, <2>7, <2>8, NextCases
<1>. QED
  BY <1>1, <1>2 DEF IInv, Sound

\* When everybody is done with a customer nothing is under way for it.
LEMMA RestIsRest ==
  ASSUME NEW c \in Customers, Holds(c), AtRest(c)
  PROVE  /\ \A steps : ~Deleting(c, steps)
         /\ ~Writing(c) /\ ~Archiving(c)
         /\ \A r \in Requests : proc[r].of # c
         /\ c \notin kill.victims
BY DEF AtRest, Of, Deleting, Writing, Archiving

\* A customer that is archived, deleted or expired does not get in again, for
\* any number of operators, operations and failures: archive_customer, the
\* deletes of the portal and the bot, and the kill may overlap in any order.
THEOREM DeletedStaysOut == Spec => []NoOrphanAccess
<1>1. IInv => NoOrphanAccess
  <2>. SUFFICES ASSUME IInv, NEW c \in Customers, AtRest(c), taint[c] = {}, cust[c] # "active"
                PROVE  radcheck[c] \notin Passwords
    BY DEF NoOrphanAccess
  <2>1. Holds(c)
    BY DEF IInv, Sound
  <2>2. cust[c] \in {"absent", "archived"}
    BY StoresAndKill DEF IInv
  <2>. QED
    BY <2>1, <2>2, RestIsRest DEF Holds, Present, Left
<1>. QED
  BY <1>1, IInvFirst, IInvNext, PTL DEF Spec

\* Portal login, RADIUS and rw-eap.conf accept the same password of an active
\* customer: create_client, rotate_eap, unarchive_customer and
\* renew_orphan_core leave no two of them apart.
THEOREM ActiveHasOnePassword == Spec => []OnePassword
<1>1. IInv => OnePassword
  <2>. SUFFICES ASSUME IInv, NEW c \in Customers, AtRest(c), taint[c] = {}, cust[c] = "active"
                PROVE  /\ radcheck[c] \in Passwords /\ user[c] = radcheck[c]
                       /\ block[c] = radcheck[c] /\ device[c] = "own"
    BY DEF OnePassword
  <2>1. Holds(c)
    BY DEF IInv, Sound
  <2>2. device[c] \in {"none", "own", "renamed"} /\ user[c] \in Numbers
    BY StoresAndKill DEF IInv
  <2>3. user[c] # None /\ device[c] = "own"
    BY <2>1, <2>2, RestIsRest DEF Holds, Present
  <2>4. block[c] = user[c] /\ radcheck[c] = user[c]
    BY <2>1, <2>3, RestIsRest DEF Holds, Present
  <2>5. user[c] \in Passwords
    BY <2>2, <2>3, BoundsAreNaturals DEF Numbers, Passwords, None
  <2>. QED
    BY <2>3, <2>4, <2>5
<1>. QED
  BY <1>1, IInvFirst, IInvNext, PTL DEF Spec

\* A deleted or expired customer leaves neither its block in rw-eap.conf nor
\* its device.
THEOREM NothingIsLeft == Spec => []NoLitter
<1>1. IInv => NoLitter
  <2>. SUFFICES ASSUME IInv, NEW c \in Customers, AtRest(c), taint[c] = {}, cust[c] = "absent"
                PROVE  block[c] = None /\ device[c] = "none"
    BY DEF NoLitter
  <2>1. Holds(c)
    BY DEF IInv, Sound
  <2>. QED
    BY <2>1, RestIsRest DEF Holds, Present, Left
<1>. QED
  BY <1>1, IInvFirst, IInvNext, PTL DEF Spec
=============================================================================
