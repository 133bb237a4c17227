--------------------------- MODULE SessionsProofs ---------------------------
(***************************************************************************)
(* For any numbers of sessions and threads and any lengths of the windows: *)
(* types, nothing is served after a logout or revocation, requests are     *)
(* accepted inside the window only, and an active user stays logged in.    *)
(*                                                                         *)
(* The argument: a row's window ends no later than seen + Ttl, and no      *)
(* earlier than that less MaxWait, because a request that applies late has *)
(* read the time at most MaxWait ago; a row that is gone although nobody   *)
(* ended it was over by the clock, and the clock does not go back.         *)
(***************************************************************************)
EXTENDS Sessions, TLAPS

\* What holds of the row of s and of its history.
RowInv(s) ==
  rows[s] # NoRow =>
    /\ born[s] # Never /\ rows[s].created = born[s]
    /\ rows[s].expires <= seen[s] + Ttl(s)
    /\ seen[s] + Ttl(s) <= rows[s].expires + MaxWait
    /\ s \in ended <=> rows[s].revoked
    /\ rows[s].revoked => s \in Operator

\* A row that is gone was ended or is over.
GoneInv(s) ==
  /\ born[s] # Never => born[s] <= seen[s] /\ seen[s] <= clock
  /\ s \in ended => born[s] # Never
  /\ rows[s] = NoRow /\ born[s] # Never /\ s \notin ended =>
       \/ clock + MaxWait > seen[s] + Ttl(s)
       \/ s \in Portal /\ clock >= born[s] + MaxAge

\* A request has read the time not long ago, and remembers a session ended.
ThreadInv(t) ==
  /\ proc[t].at # "idle" => proc[t].sid \in Ids /\ born[proc[t].sid] # Never
  /\ proc[t].at = "verify" => /\ proc[t].now <= clock /\ clock <= proc[t].now + MaxWait
                              /\ proc[t].over => proc[t].sid \in ended
  /\ proc[t].at = "serve" => ~proc[t].over

IInv == /\ TypeOK
        /\ \A s \in Ids : RowInv(s) /\ GoneInv(s)
        /\ \A t \in Threads : ThreadInv(t)
        /\ cleanup.now <= clock

-----------------------------------------------------------------------------
\* No session, no request: the types hold at the start.
LEMMA InitIInv == Init => IInv
  BY TimesAreNaturals, KindsDistinct
     DEF Init, IInv, TypeOK, RowInv, GoneInv, ThreadInv, Rows, NoRow, Row, Time, Idle, Kinds, Ids, Ttl

\* The ids' windows are lengths of time.
LEMMA TtlNat == \A s \in Ids : Ttl(s) \in Nat
  BY TimesAreNaturals DEF Ttl

\* Every step of a request, a login, the cleanup and the clock keeps the types.
LEMMA StepTypeOK == IInv /\ [Next]_vars => TypeOK'
<1>. SUFFICES ASSUME IInv, [Next]_vars PROVE TypeOK'
  OBVIOUS
<1>. USE TimesAreNaturals, TtlNat
     DEF TypeOK, Time, Rows, Kinds
<1>. USE DEF IInv, history
<1>1. CASE Tick
  BY <1>1 DEF Tick
<1>2. CASE RevokeAll
  <2>1. ASSUME NEW s \in Ids PROVE rows'[s] \in Rows
    BY <1>2 DEF RevokeAll
  <2>2. rows' \in [Ids -> Rows]
    <3>1. rows' = [s \in Ids |-> rows'[s]]
      BY <1>2, Zenon DEF RevokeAll
    <3>. QED
      BY <2>1, <3>1
  <2>. QED
    BY <1>2, <2>2 DEF RevokeAll, Ids
<1>3. CASE WakeCleanup
  BY <1>3 DEF WakeCleanup
<1>4. CASE CleanPortal
  BY <1>4 DEF CleanPortal, Purged
<1>5. CASE CleanOperator
  BY <1>5 DEF CleanOperator, Purged
<1>6. ASSUME NEW s \in Ids, Login(s) PROVE TypeOK'
  <2>1. Row(clock, clock + Ttl(s)) \in Rows
    BY DEF Row
  <2>. QED
    BY <1>6, <2>1 DEF Login
<1>7. ASSUME NEW t \in Threads, NEW s \in Ids, NEW k \in Kinds, Arrive(t, s, k) PROVE TypeOK'
  BY <1>7 DEF Arrive
<1>12. ASSUME NEW t \in Threads, NEW s \in Operator, OperatorLogout(t, s) PROVE TypeOK'
  <2>1. s \in Ids
    BY <1>12 DEF Ids
  <2>. QED
    BY <1>12, <2>1 DEF OperatorLogout, Idle
<1>8. ASSUME NEW t \in Threads, Verify(t) PROVE TypeOK'
  <2>. DEFINE s == proc[t].sid
  <2>1. s \in Ids
    BY <1>8 DEF Verify, ThreadInv
  <2>2. CASE Valid(s, proc[t].now)
    <3>1. rows' = [rows EXCEPT ![s].expires = proc[t].now + Ttl(s)]
      BY <1>8, <2>2 DEF Verify
    <3>2. rows[s] \in [created : Time, expires : Nat, revoked : BOOLEAN]
      BY <2>1, <2>2 DEF Valid
    <3>3. rows' \in [Ids -> Rows]
      BY <2>1, <3>1, <3>2
    <3>4. proc' \in [Threads -> [at : {"idle", "verify", "serve", "delete"}, kind : Kinds,
                                 sid : Ids \cup {Never}, now : Time, over : BOOLEAN]]
      <4>. DEFINE q == [proc[t] EXCEPT !.at = IF proc[t].kind = "logout" THEN "delete" ELSE "serve",
                                       !.now = 0]
      <4>1. q \in [at : {"idle", "verify", "serve", "delete"}, kind : Kinds,
                   sid : Ids \cup {Never}, now : Time, over : BOOLEAN]
        <5>1. proc[t] \in [at : {"idle", "verify", "serve", "delete"}, kind : Kinds,
                          sid : Ids \cup {Never}, now : Time, over : BOOLEAN]
          BY <1>8
        <5>2. 0 \in Time
          OBVIOUS
        <5>. QED
          BY <5>1, <5>2
      <4>2. proc' = [proc EXCEPT ![t] = q]
        BY <1>8, <2>2, Zenon DEF Verify
      <4>. QED
        BY <1>8, <4>1, <4>2
    <3>5. seen' \in [Ids -> Time]
      BY <1>8, <2>1, <2>2 DEF Verify
    <3>. QED
      BY <1>8, <3>3, <3>4, <3>5 DEF Verify
  <2>3. CASE ~Valid(s, proc[t].now)
    <3>1. rows' \in [Ids -> Rows]
      BY <1>8, <2>1, <2>3 DEF Verify
    <3>2. proc' = [proc EXCEPT ![t] = Idle] /\ UNCHANGED <<clock, cleanup, history>>
      BY <1>8, <2>3 DEF Verify
    <3>. QED
      BY <3>1, <3>2 DEF Idle
  <2>. QED
    BY <2>2, <2>3
<1>9. ASSUME NEW t \in Threads, Serve(t) PROVE TypeOK'
  BY <1>9 DEF Serve, Idle
<1>10. ASSUME NEW t \in Threads, Delete(t) PROVE TypeOK'
  BY <1>10 DEF Delete, Idle, ThreadInv
<1>11. CASE UNCHANGED vars
  BY <1>11 DEF vars
<1>. QED
  BY <1>1, <1>2, <1>3, <1>4, <1>5, <1>6, <1>7, <1>8, <1>9, <1>10, <1>11, <1>12 DEF Next, Cleanup

-----------------------------------------------------------------------------
\* What a step leaves to be shown once the types are known.
Rest == /\ \A s \in Ids : RowInv(s) /\ GoneInv(s)
        /\ \A t \in Threads : ThreadInv(t)
        /\ cleanup.now <= clock

\* A purge takes only rows whose window was over at a time already past.
LEMMA PurgeKeeps ==
  ASSUME IInv, NEW table, NEW now \in Time, now <= clock, rows' = Purged(table, now),
         UNCHANGED <<clock, proc, history>>, cleanup'.now <= clock
  PROVE  Rest'
<1>. USE TimesAreNaturals, TtlNat DEF IInv, TypeOK, Rest, history, Time
<1>1. ASSUME NEW s \in Ids PROVE RowInv(s)' /\ GoneInv(s)'
  <2>1. RowInv(s) /\ GoneInv(s) /\ seen[s] \in Nat /\ clock \in Nat /\ now \in Nat
    OBVIOUS
  <2>2. CASE rows'[s] = rows[s]
    BY <1>1, <2>1, <2>2 DEF RowInv, GoneInv, Ttl
  <2>3. CASE rows'[s] # rows[s]
    <3>1. rows'[s] = NoRow /\ rows[s] # NoRow /\ rows[s].expires < now
      BY <1>1, <2>3 DEF Purged
    <3>2. rows[s].expires \in Nat
      BY <1>1, <3>1 DEF Rows
    <3>. QED
      BY <1>1, <2>1, <3>1, <3>2 DEF RowInv, GoneInv, Ttl
  <2>. QED
    BY <2>2, <2>3
<1>2. ASSUME NEW t \in Threads PROVE ThreadInv(t)'
  BY <1>2 DEF ThreadInv
<1>. QED
  BY <1>1, <1>2

\* Every step keeps the windows, and what requests remember of them.
LEMMA StepRest == IInv /\ [Next]_vars => Rest'
<1>. SUFFICES ASSUME IInv, [Next]_vars PROVE Rest'
  OBVIOUS
<1>. USE TimesAreNaturals, TtlNat, KindsDistinct
     DEF IInv, TypeOK, Rest, history, Time
<1>1. CASE Tick
  <2>1. \A s \in Ids : RowInv(s)' /\ GoneInv(s)'
    BY <1>1 DEF Tick, RowInv, GoneInv, Ttl
  <2>2. \A t \in Threads : ThreadInv(t)'
    BY <1>1 DEF Tick, ThreadInv
  <2>. QED
    BY <1>1, <2>1, <2>2 DEF Tick
<1>2. CASE RevokeAll
  <2>1. ASSUME NEW s \in Ids PROVE RowInv(s)' /\ GoneInv(s)'
    <3>1. CASE rows'[s] = rows[s] /\ (s \in ended' <=> s \in ended)
      BY <1>2, <2>1, <3>1 DEF RevokeAll, RowInv, GoneInv, Ttl
    <3>2. CASE ~(rows'[s] = rows[s] /\ (s \in ended' <=> s \in ended))
      <4>1. s \in Operator /\ rows[s] # NoRow /\ s \in ended'
        BY <1>2, <2>1, <3>2 DEF RevokeAll
      <4>2. rows'[s] = [rows[s] EXCEPT !.revoked = TRUE]
        BY <1>2, <2>1, <3>2 DEF RevokeAll
      <4>3. rows[s] \in [created : Time, expires : Nat, revoked : BOOLEAN]
        BY <2>1, <4>1 DEF Rows
      <4>. QED
        BY <1>2, <2>1, <4>1, <4>2, <4>3 DEF RevokeAll, RowInv, GoneInv, Ttl
    <3>. QED
      BY <3>1, <3>2
  <2>2. \A t \in Threads : ThreadInv(t)'
    BY <1>2 DEF RevokeAll, ThreadInv
  <2>. QED
    BY <1>2, <2>1, <2>2 DEF RevokeAll
<1>3. CASE WakeCleanup
  <2>1. \A s \in Ids : RowInv(s)' /\ GoneInv(s)'
    BY <1>3 DEF WakeCleanup, RowInv, GoneInv, Ttl
  <2>2. \A t \in Threads : ThreadInv(t)'
    BY <1>3 DEF WakeCleanup, ThreadInv
  <2>. QED
    BY <1>3, <2>1, <2>2 DEF WakeCleanup
<1>4. CASE CleanPortal
  BY <1>4, PurgeKeeps DEF CleanPortal
<1>5. CASE CleanOperator
  BY <1>5, PurgeKeeps DEF CleanOperator
<1>6. ASSUME NEW u \in Ids, Login(u) PROVE Rest'
  <2>1. ASSUME NEW s \in Ids PROVE RowInv(s)' /\ GoneInv(s)'
    <3>1. CASE s # u
      BY <1>6, <2>1, <3>1 DEF Login, RowInv, GoneInv, Ttl
    <3>2. CASE s = u
      <4>1. rows'[s] = Row(clock, clock + Ttl(s)) /\ born'[s] = clock /\ seen'[s] = clock
        BY <1>6, <2>1, <3>2 DEF Login
      <4>2. s \notin ended' /\ clock' = clock
        BY <1>6, <2>1, <3>2 DEF Login, GoneInv
      <4>3. Row(clock, clock + Ttl(s)) # NoRow
        BY DEF NoRow, Row
      <4>4. clock # Never /\ Ttl(s) \in Nat
        OBVIOUS
      <4>. QED
        BY <4>1, <4>2, <4>3, <4>4 DEF RowInv, GoneInv, Row, Ttl
    <3>. QED
      BY <3>1, <3>2
  <2>2. \A t \in Threads : ThreadInv(t)'
    BY <1>6 DEF Login, ThreadInv
  <2>. QED
    BY <1>6, <2>1, <2>2 DEF Login
<1>7. ASSUME NEW u \in Threads, NEW i \in Ids, NEW k \in Kinds, Arrive(u, i, k) PROVE Rest'
  <2>1. \A s \in Ids : RowInv(s)' /\ GoneInv(s)'
    BY <1>7 DEF Arrive, RowInv, GoneInv, Ttl
  <2>2. ASSUME NEW t \in Threads PROVE ThreadInv(t)'
    <3>1. CASE t # u
      BY <1>7, <2>2, <3>1 DEF Arrive, ThreadInv
    <3>2. CASE t = u
      <4>1. /\ proc'[t].at \in {"verify", "delete"} /\ proc'[t].sid = i
            /\ proc'[t].now = clock
        BY <1>7, <3>2 DEF Arrive
      <4>2. proc'[t].over <=> i \in ended
        BY <1>7, <3>2 DEF Arrive
      <4>3. born'[i] # Never /\ clock' = clock /\ ended' = ended
        BY <1>7 DEF Arrive
      <4>. QED
        BY <1>7, <4>1, <4>2, <4>3 DEF ThreadInv
    <3>. QED
      BY <3>1, <3>2
  <2>. QED
    BY <1>7, <2>1, <2>2 DEF Arrive
<1>12. ASSUME NEW u \in Threads, NEW i \in Operator, OperatorLogout(u, i) PROVE Rest'
  <2>1. \A s \in Ids : RowInv(s)' /\ GoneInv(s)'
    BY <1>12 DEF OperatorLogout, RowInv, GoneInv, Ttl
  <2>2. i \in Ids
    BY <1>12 DEF Ids
  <2>3. \A t \in Threads : ThreadInv(t)'
    BY <1>12, <2>2 DEF OperatorLogout, ThreadInv, Idle
  <2>. QED
    BY <1>12, <2>1, <2>3 DEF OperatorLogout
<1>8. ASSUME NEW u \in Threads, Verify(u) PROVE Rest'
  <2>. DEFINE i == proc[u].sid
              now == proc[u].now
  <2>1. i \in Ids /\ now \in Nat /\ now <= clock /\ clock <= now + MaxWait /\ born[i] # Never
        /\ (proc[u].over => i \in ended)
    BY <1>8 DEF Verify, ThreadInv
  <2>2. CASE Valid(i, now)
    <3>1. /\ rows' = [rows EXCEPT ![i].expires = now + Ttl(i)]
          /\ seen' = [seen EXCEPT ![i] = IF seen[i] > now THEN seen[i] ELSE now]
          /\ UNCHANGED <<clock, cleanup, born, ended>>
      BY <1>8, <2>2 DEF Verify
    <3>2. /\ proc'[u].at \in {"serve", "delete"}
          /\ proc'[u].sid = i /\ proc'[u].over = proc[u].over
          /\ \A t \in Threads \ {u} : proc'[t] = proc[t]
      <4>. DEFINE q == [proc[u] EXCEPT !.at = IF proc[u].kind = "logout" THEN "delete" ELSE "serve",
                                       !.now = 0]
      <4>1. proc' = [proc EXCEPT ![u] = q]
        BY <1>8, <2>2, Zenon DEF Verify
      <4>2. proc[u] \in [at : {"idle", "verify", "serve", "delete"}, kind : Kinds,
                         sid : Ids \cup {Never}, now : Time, over : BOOLEAN]
        BY <1>8
      <4>3. q.at \in {"serve", "delete"} /\ q.sid = i /\ q.over = proc[u].over
        BY <4>2
      <4>. HIDE DEF q
      <4>. QED
        BY <1>8, <4>1, <4>3
    <3>3. rows[i] \in [created : Time, expires : Nat, revoked : BOOLEAN] /\ rows[i] # NoRow
      BY <2>1, <2>2 DEF Valid, Rows
    <3>4. ~proc[u].over
      BY <2>1, <2>2, <3>3 DEF Valid, RowInv
    <3>5. ASSUME NEW s \in Ids PROVE RowInv(s)' /\ GoneInv(s)'
      <4>1. CASE s # i
        BY <2>1, <3>1, <3>5, <4>1 DEF RowInv, GoneInv, Ttl
      <4>2. CASE s = i
        <5>1. /\ rows'[s].created = rows[s].created /\ rows'[s].revoked = rows[s].revoked
              /\ rows'[s].expires = now + Ttl(s)
              /\ rows'[s] \in [created : Time, expires : Nat, revoked : BOOLEAN]
          BY <2>1, <3>1, <3>3, <4>2
        <5>2. rows'[s] # NoRow
          BY <5>1 DEF NoRow, Row
        <5>3. seen'[s] = IF seen[s] > now THEN seen[s] ELSE now
          BY <2>1, <3>1, <4>2
        <5>. QED
          BY <2>1, <3>1, <3>3, <4>2, <5>1, <5>2, <5>3 DEF RowInv, GoneInv, Ttl
      <4>. QED
        BY <4>1, <4>2
    <3>6. \A t \in Threads : ThreadInv(t)'
      BY <2>1, <3>1, <3>2, <3>4 DEF ThreadInv
    <3>. QED
      BY <3>1, <3>5, <3>6
  <2>3. CASE ~Valid(i, now)
    <3>1. /\ rows' = IF Stale(i, now) THEN [rows EXCEPT ![i] = NoRow] ELSE rows
          /\ proc' = [proc EXCEPT ![u] = Idle]
          /\ UNCHANGED <<clock, cleanup, history>>
      BY <1>8, <2>3 DEF Verify
    <3>2. ASSUME NEW s \in Ids PROVE RowInv(s)' /\ GoneInv(s)'
      <4>1. CASE rows'[s] = rows[s]
        BY <3>1, <3>2, <4>1 DEF RowInv, GoneInv, Ttl
      <4>2. CASE rows'[s] # rows[s]
        <5>1. s = i /\ Stale(s, now) /\ rows'[s] = NoRow
          BY <2>1, <3>1, <3>2, <4>2
        <5>2. rows[s] # NoRow /\ rows[s].expires \in Nat /\ rows[s].created \in Nat
          BY <3>2, <5>1 DEF Stale, Rows
        <5>. QED
          BY <2>1, <3>1, <3>2, <5>1, <5>2 DEF Stale, RowInv, GoneInv, Ttl
      <4>. QED
        BY <4>1, <4>2
    <3>3. \A t \in Threads : ThreadInv(t)'
      BY <3>1 DEF ThreadInv, Idle
    <3>. QED
      BY <3>1, <3>2, <3>3
  <2>. QED
    BY <2>2, <2>3
<1>9. ASSUME NEW u \in Threads, Serve(u) PROVE Rest'
  <2>1. \A s \in Ids : RowInv(s)' /\ GoneInv(s)'
    BY <1>9 DEF Serve, RowInv, GoneInv, Ttl
  <2>2. \A t \in Threads : ThreadInv(t)'
    BY <1>9 DEF Serve, ThreadInv, Idle
  <2>. QED
    BY <1>9, <2>1, <2>2 DEF Serve
<1>10. ASSUME NEW u \in Threads, Delete(u) PROVE Rest'
  <2>1. proc[u].sid \in Ids /\ born[proc[u].sid] # Never
    BY <1>10 DEF Delete, ThreadInv
  <2>2. \A s \in Ids : RowInv(s)' /\ GoneInv(s)'
    BY <1>10, <2>1 DEF Delete, RowInv, GoneInv, Ttl
  <2>3. \A t \in Threads : ThreadInv(t)'
    BY <1>10 DEF Delete, ThreadInv, Idle
  <2>. QED
    BY <1>10, <2>2, <2>3 DEF Delete
<1>11. CASE UNCHANGED vars
  BY <1>11 DEF vars, RowInv, GoneInv, ThreadInv, Ttl
<1>. QED
  BY <1>1, <1>2, <1>3, <1>4, <1>5, <1>6, <1>7, <1>8, <1>9, <1>10, <1>11, <1>12 DEF Next, Cleanup

\* The strengthening is an invariant.
LEMMA Inductive == Spec => []IInv
<1>1. IInv /\ [Next]_vars => IInv'
  BY StepTypeOK, StepRest DEF IInv, Rest
<1>. QED
  BY <1>1, InitIInv, PTL DEF Spec

-----------------------------------------------------------------------------
\* Types, for any number of sessions, threads and ticks.
THEOREM TypeCorrect == Spec => []TypeOK
<1>1. IInv => TypeOK
  BY DEF IInv
<1>. QED
  BY <1>1, Inductive, PTL

\* Whoever logs out, or is revoked everywhere, is served no request that
\* arrives afterwards, whatever other requests do to the same row.
THEOREM NothingAfterEnd == Spec => []NotAfterEnd
<1>1. IInv => NotAfterEnd
  BY DEF IInv, ThreadInv, NotAfterEnd
<1>. QED
  BY <1>1, Inductive, PTL

\* Nothing but a logout, a revocation or the age cap ends the session of a
\* user whose last accepted request is younger than the window less MaxWait.
THEOREM ActivityKeeps == Spec => []ActiveStaysIn
<1>1. ASSUME IInv PROVE ActiveStaysIn
  <2>. SUFFICES ASSUME NEW s \in Ids, born[s] # Never, s \notin ended,
                       clock + MaxWait <= seen[s] + Ttl(s),
                       s \in Portal => clock < born[s] + MaxAge
                PROVE  Valid(s, clock)
    BY DEF ActiveStaysIn
  <2>1. clock \in Nat /\ seen[s] \in Nat /\ born[s] \in Nat /\ Ttl(s) \in Nat
    BY <1>1, TtlNat, TimesAreNaturals DEF IInv, TypeOK, Time
  <2>2. RowInv(s) /\ GoneInv(s)
    BY <1>1 DEF IInv
  <2>3. rows[s] # NoRow
    BY <2>1, <2>2, TimesAreNaturals DEF GoneInv
  <2>4. rows[s].expires \in Nat /\ rows[s].revoked \in BOOLEAN
    BY <1>1, <2>3 DEF IInv, TypeOK, Rows
  <2>. QED
    BY <2>1, <2>2, <2>3, <2>4, TimesAreNaturals DEF RowInv, Valid
<1>. QED
  BY <1>1, Inductive, PTL

\* Requests that apply out of order never stretch a window or the cap.
THEOREM WindowsHold == Spec => AcceptedInWindow
<1>1. ASSUME IInv, Next,
             NEW t \in Threads, proc[t].at = "verify", proc'[t].at \in {"serve", "delete"}
      PROVE  /\ proc[t].now <= seen[proc[t].sid] + Ttl(proc[t].sid)
             /\ proc[t].sid \in Portal => proc[t].now < born[proc[t].sid] + MaxAge
  <2>1. Verify(t)
    <3>. USE <1>1 DEF IInv, TypeOK
    <3>1. ~(Tick \/ RevokeAll \/ Cleanup \/ \E s \in Ids : Login(s))
      BY DEF Tick, RevokeAll, Cleanup, WakeCleanup, CleanPortal, CleanOperator, Login
    <3>2. ASSUME NEW u \in Threads, u # t PROVE ~(Verify(u) \/ Serve(u) \/ Delete(u))
      BY <3>2 DEF Verify, Serve, Delete
    <3>3. ~(Serve(t) \/ Delete(t))
      BY DEF Serve, Delete
    <3>4. ASSUME NEW u \in Threads, NEW s \in Ids, NEW k \in Kinds PROVE ~Arrive(u, s, k)
      BY <3>4 DEF Arrive, Idle
    <3>5. ASSUME NEW u \in Threads, NEW s \in Operator PROVE ~OperatorLogout(u, s)
      BY <3>5 DEF OperatorLogout, Idle
    <3>. QED
      BY <3>1, <3>2, <3>3, <3>4, <3>5 DEF Next
  <2>2. Valid(proc[t].sid, proc[t].now)
    BY <1>1, <2>1 DEF Verify, IInv, TypeOK, Idle
  <2>3. proc[t].sid \in Ids /\ proc[t].now \in Nat
    BY <1>1, TimesAreNaturals DEF IInv, TypeOK, ThreadInv, Time
  <2>4. RowInv(proc[t].sid) /\ rows[proc[t].sid].expires \in Nat
        /\ seen[proc[t].sid] \in Nat /\ Ttl(proc[t].sid) \in Nat
    BY <1>1, <2>2, <2>3, TtlNat, TimesAreNaturals DEF IInv, TypeOK, Rows, Valid, Time
  <2>. QED
    BY <2>2, <2>3, <2>4, TimesAreNaturals DEF Valid, RowInv
<1>2. IInv /\ [Next]_vars
        => [\A t \in Threads :
              proc[t].at = "verify" /\ proc'[t].at \in {"serve", "delete"}
                => /\ proc[t].now <= seen[proc[t].sid] + Ttl(proc[t].sid)
                   /\ proc[t].sid \in Portal
                        => proc[t].now < born[proc[t].sid] + MaxAge]_vars
  BY <1>1
<1>. QED
  BY <1>2, Inductive, PTL DEF Spec, AcceptedInWindow
=============================================================================
