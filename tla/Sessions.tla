------------------------------ MODULE Sessions ------------------------------
(***************************************************************************)
(* Login sessions of the portal: the customers' (customer_portal_sessions) *)
(* and the operators' (operator_sessions), kept in MariaDB and shared by   *)
(* every request thread (portal_auth.py; the login, logout and portal      *)
(* endpoints and the cleanup loop of app.py).                              *)
(*                                                                         *)
(* Each request reads the time once, waits for its row, and then checks    *)
(* and slides it in one transaction.  So requests apply in another order   *)
(* than they read the time in, and the cleanup and the logouts run in      *)
(* between.  Ids are the random tokens, each handed out once; the two      *)
(* tables are one function here, since no id is in both.                   *)
(***************************************************************************)
EXTENDS Naturals, FiniteSets

CONSTANTS Portal,       \* ids of customers' sessions
          Operator,     \* ids of operators' sessions, of one operator
          Threads,      \* request threads
          PortalTtl,    \* PORTAL_TTL
          OperatorTtl,  \* OPERATOR_TTL
          MaxAge,       \* CUSTOMER_MAX_SESSION_AGE
          MaxWait,      \* the longest a statement waits for a row lock
          Never,        \* no time, no row
          MaxLogins,    \* bound: logins that succeed
          MaxTime       \* bound: the time

ASSUME KindsDistinct == Portal \cap Operator = {}
ASSUME TimesAreNaturals ==
  /\ PortalTtl \in Nat /\ OperatorTtl \in Nat /\ MaxAge \in Nat
  /\ MaxWait \in Nat /\ MaxLogins \in Nat /\ MaxTime \in Nat
  /\ Never \notin Nat

VARIABLES
  clock,     \* time.time(), in ticks
  rows,      \* the sessions tables
  proc,      \* what each thread is doing
  cleanup,   \* what _session_cleanup_loop is doing
  born,      \* history: when each id was handed out
  seen,      \* history: the latest time a request on it was accepted at
  ended      \* history: ids logged out or revoked

history == <<born, seen, ended>>
vars    == <<clock, rows, proc, cleanup, history>>

Ids    == Portal \cup Operator
Ttl(s) == IF s \in Portal THEN PortalTtl ELSE OperatorTtl
Time   == 0 .. MaxTime
Row(created, expires) == [created |-> created, expires |-> expires, revoked |-> FALSE]
NoRow  == Row(Never, Never)
Rows   == [created : Time, expires : Nat, revoked : BOOLEAN] \cup {NoRow}
Kinds  == {"call", "logout"}

Idle == [at |-> "idle", kind |-> "call", sid |-> Never, now |-> 0, over |-> FALSE]

\* Every variable keeps its type.
TypeOK ==
  /\ clock \in Time
  /\ rows \in [Ids -> Rows]
  /\ proc \in [Threads -> [at : {"idle", "verify", "serve", "delete"},
                           kind : Kinds, sid : Ids \cup {Never}, now : Time,
                           over : BOOLEAN]]
  /\ cleanup \in [at : {"sleep", "portal", "operator"}, now : Time]
  /\ born \in [Ids -> Time \cup {Never}]
  /\ seen \in [Ids -> Time]
  /\ ended \subseteq Ids

Init ==
  /\ clock = 0
  /\ rows = [s \in Ids |-> NoRow]
  /\ proc = [t \in Threads |-> Idle]
  /\ cleanup = [at |-> "sleep", now |-> 0]
  /\ born = [s \in Ids |-> Never]
  /\ seen = [s \in Ids |-> 0]
  /\ ended = {}

\* Nobody waits for a row longer than the database lets it.
Tick ==
  /\ clock < MaxTime
  /\ \A t \in Threads : proc[t].at = "verify" => clock - proc[t].now < MaxWait
  /\ cleanup.at # "sleep" => clock - cleanup.now < MaxWait
  /\ clock' = clock + 1
  /\ UNCHANGED <<rows, proc, cleanup, history>>

-----------------------------------------------------------------------------
(* Logging in.                                                             *)

\* create_session and create_operator_session, once the customer or operator is
\* looked up, status and device are checked and the password is verified: a
\* login that fails before has written nothing.
Login(s) ==
  /\ born[s] = Never /\ Cardinality({u \in Ids : born[u] # Never}) < MaxLogins
  /\ rows' = [rows EXCEPT ![s] = Row(clock, clock + Ttl(s))]
  /\ born' = [born EXCEPT ![s] = clock]
  /\ seen' = [seen EXCEPT ![s] = clock]
  /\ UNCHANGED <<clock, proc, cleanup, ended>>

-----------------------------------------------------------------------------
(* A request on a session.                                                 *)

\* require_portal_session, require_operator_session: the thread reads the time.
Arrive(t, s, k) ==
  /\ proc[t] = Idle /\ born[s] # Never
  /\ s \in Operator => k = "call"
  /\ proc' = [proc EXCEPT ![t] = [at |-> "verify", kind |-> k, sid |-> s, now |-> clock,
                                  over |-> s \in ended]]
  /\ UNCHANGED <<clock, rows, cleanup, history>>

\* /api/logout deletes the row unasked; /api/portal/logout verifies first.
OperatorLogout(t, s) ==
  /\ proc[t] = Idle /\ born[s] # Never
  /\ proc' = [proc EXCEPT ![t] = [Idle EXCEPT !.at = "delete", !.kind = "logout", !.sid = s]]
  /\ UNCHANGED <<clock, rows, cleanup, history>>

\* Mutants: the revoked flag, or the age cap, is not looked at.
ValidIgnoringRevoked(s, now) ==
  /\ rows[s] # NoRow /\ rows[s].expires >= now
  /\ s \in Portal => rows[s].created + MaxAge > now
ValidAtAnyAge(s, now) == rows[s] # NoRow /\ rows[s].expires >= now /\ ~rows[s].revoked

\* The DELETE of a row that did not match; a revoked row stays.
Stale(s, now) ==
  rows[s] # NoRow /\ \/ rows[s].expires < now
                     \/ s \in Portal /\ rows[s].created + MaxAge <= now

\* Mutant: a row that did not match and is not stale is taken for one that did.
ValidUnlessStale(s, now) == ~Stale(s, now)

\* The UPDATE's WHERE clause: of the two tables one has a flag, the other a cap.
Valid(s, now) ==
  /\ rows[s] # NoRow /\ rows[s].expires >= now
  /\ s \in Operator => ~rows[s].revoked
  /\ s \in Portal => rows[s].created + MaxAge > now

\* verify_session, verify_operator_session: the UPDATE holds the row until
\* the commit, so the SELECT after it sees what the UPDATE wrote.
Verify(t) ==
  LET s == proc[t].sid
      now == proc[t].now
  IN /\ proc[t].at = "verify"
     /\ IF Valid(s, now)
        THEN /\ rows' = [rows EXCEPT ![s].expires = now + Ttl(s)]
             /\ seen' = [seen EXCEPT ![s] = IF @ > now THEN @ ELSE now]
             /\ proc' = [proc EXCEPT ![t] =
                  [@ EXCEPT !.at = IF proc[t].kind = "logout" THEN "delete" ELSE "serve",
                            !.now = 0]]
        ELSE /\ rows' = IF Stale(s, now) THEN [rows EXCEPT ![s] = NoRow] ELSE rows
             /\ proc' = [proc EXCEPT ![t] = Idle]
             /\ UNCHANGED seen
     /\ UNCHANGED <<clock, cleanup, born, ended>>

\* The handler is done; events_stream runs until the browser goes away, and
\* asks for the session no more.
Serve(t) ==
  /\ proc[t].at = "serve"
  /\ proc' = [proc EXCEPT ![t] = Idle]
  /\ UNCHANGED <<clock, rows, cleanup, history>>

\* delete_session, delete_operator_session.
Delete(t) ==
  /\ proc[t].at = "delete"
  /\ rows' = [rows EXCEPT ![proc[t].sid] = NoRow]
  /\ ended' = ended \cup {proc[t].sid}
  /\ proc' = [proc EXCEPT ![t] = Idle]
  /\ UNCHANGED <<clock, cleanup, born, seen>>

\* revoke_all_operator_sessions.
RevokeAll ==
  LET open == {s \in Operator : rows[s] # NoRow /\ ~rows[s].revoked}
  IN /\ open # {}
     /\ rows' = [s \in Ids |-> IF s \in open THEN [rows[s] EXCEPT !.revoked = TRUE]
                               ELSE rows[s]]
     /\ ended' = ended \cup open
     /\ UNCHANGED <<clock, proc, cleanup, born, seen>>

-----------------------------------------------------------------------------
(* _session_cleanup_loop: each purge reads the time, then deletes.         *)

WakeCleanup ==
  /\ cleanup.at = "sleep"
  /\ cleanup' = [at |-> "portal", now |-> clock]
  /\ UNCHANGED <<clock, rows, proc, history>>

\* Mutant: a row's age decides, not its window.
PurgedByAge(table, now) ==
  [s \in Ids |-> IF s \in table /\ rows[s] # NoRow /\ rows[s].created + Ttl(s) < now
                 THEN NoRow ELSE rows[s]]

\* purge_expired_sessions, purge_expired_operator_sessions.
Purged(table, now) ==
  [s \in Ids |-> IF s \in table /\ rows[s] # NoRow /\ rows[s].expires < now
                 THEN NoRow ELSE rows[s]]

\* Mutant: the operators' purge is defined and never called.
CleanPortalOnly ==
  /\ cleanup.at = "portal"
  /\ rows' = Purged(Portal, cleanup.now)
  /\ cleanup' = [at |-> "sleep", now |-> 0]
  /\ UNCHANGED <<clock, proc, history>>

CleanPortal ==
  /\ cleanup.at = "portal"
  /\ rows' = Purged(Portal, cleanup.now)
  /\ cleanup' = [at |-> "operator", now |-> clock]
  /\ UNCHANGED <<clock, proc, history>>

CleanOperator ==
  /\ cleanup.at = "operator"
  /\ rows' = Purged(Operator, cleanup.now)
  /\ cleanup' = [at |-> "sleep", now |-> 0]
  /\ UNCHANGED <<clock, proc, history>>

Cleanup == WakeCleanup \/ CleanPortal \/ CleanOperator

Next ==
  \/ Tick \/ RevokeAll \/ Cleanup
  \/ \E s \in Ids : Login(s)
  \/ \E t \in Threads, s \in Ids, k \in Kinds : Arrive(t, s, k)
  \/ \E t \in Threads, s \in Operator : OperatorLogout(t, s)
  \/ \E t \in Threads : Verify(t) \/ Serve(t) \/ Delete(t)

\* The loop comes back every five minutes, and the request threads run.
Spec == /\ Init /\ [][Next]_vars /\ WF_vars(Cleanup)
        /\ \A t \in Threads : WF_vars(Verify(t))

-----------------------------------------------------------------------------
(* Properties.                                                             *)

\* Who stays active stays logged in: as long as an accepted request is not
\* older than the window, less what a statement may have waited, neither a
\* purge, nor another request that applies late and sets the window back,
\* nor a failed verification takes the session away; only a logout, a
\* revocation and the age cap do (portal_auth.py verify_session, app.py
\* _session_cleanup_loop).
ActiveStaysIn ==
  \A s \in Ids :
    /\ born[s] # Never /\ s \notin ended
    /\ clock + MaxWait <= seen[s] + Ttl(s)
    /\ s \in Portal => clock < born[s] + MaxAge
    => Valid(s, clock)

\* A request that arrives after its session was logged out or revoked is not
\* served, although others may be sliding the same row (require_session).
NotAfterEnd == \A t \in Threads : proc[t].at = "serve" => ~proc[t].over

\* No request is accepted later than the window after every accepted one
\* before it, nor on a customer's session older than the cap: requests that
\* apply out of order do not add up to a longer window.
AcceptedInWindow ==
  [][\A t \in Threads :
       proc[t].at = "verify" /\ proc'[t].at \in {"serve", "delete"}
         => /\ proc[t].now <= seen[proc[t].sid] + Ttl(proc[t].sid)
            /\ proc[t].sid \in Portal => proc[t].now < born[proc[t].sid] + MaxAge]_vars

\* A row whose window is over is deleted, unless a request that read the time
\* before slides it.
ExpiredPurged ==
  \A s \in Ids :
    rows[s] # NoRow /\ rows[s].expires < clock
      ~> rows[s] = NoRow \/ rows[s].expires >= clock
=============================================================================
