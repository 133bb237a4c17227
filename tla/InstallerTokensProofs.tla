----------------------- MODULE InstallerTokensProofs -----------------------
(***************************************************************************)
(* For any numbers of links, threads and changes to the customer: types, a *)
(* password goes out only for an open link, a refusal has a cause, a fetch *)
(* that fails leaves the link, and fetches that do not overlap bring the   *)
(* password once.                                                          *)
(*                                                                         *)
(* The argument: at each statement the request has seen the conditions of  *)
(* the statements before it (Seen), each at its own time.  A link that has *)
(* brought its password is burnt and keeps its row (LinkInv), so that of   *)
(* the requests past their lookup there is one, or the password is still   *)
(* to come (Once).                                                         *)
(***************************************************************************)
EXTENDS InstallerTokens, FiniteSetTheorems, TLAPS

Procs == [at : {"idle", "look", "device", "insert", "user", "secret", "burn", "answer", "refused", "failed"},
          kind : Kinds, token : Tokens \cup {NoToken}, now : Time, named : BOOLEAN]

\* Where a request of each kind can be.
Route(p) ==
  /\ p.kind = "fetch" /\ p.at # "idle" => p.token \in Tokens /\ p.at # "insert"
  /\ p.kind # "fetch" => p.at \notin {"user", "burn"}
  /\ p.kind = "link"  => p.at \notin {"secret", "answer"}
  /\ p.at = "insert"  => p.token \in Tokens
  /\ p.at = "secret" /\ p.kind = "fetch" => p.named

\* The conditions a request has seen to hold.
Seen(p) ==
  {c \in Conditions :
     \/ p.kind = "fetch" /\ \/ p.at \in {"device", "user", "secret", "burn", "answer"}
                               /\ c \in {"unused", "current", "active"}
                            \/ p.at \in {"user", "secret", "burn", "answer"} /\ c = "device"
                            \/ p.at \in {"secret", "burn", "answer"} /\ c = "user"
                            \/ p.at \in {"burn", "answer"} /\ c = "block"
     \/ p.kind = "bake"  /\ \/ p.at \in {"device", "secret", "answer"} /\ c = "active"
                            \/ p.at \in {"secret", "answer"} /\ c = "device"
                            \/ p.at = "secret" /\ p.named /\ c = "named"
                            \/ p.at = "answer" /\ c \in {"named", "block"}}

ThreadInv(t) ==
  /\ Route(proc[t])
  /\ Seen(proc[t]) \subseteq held[t]
  /\ proc[t].at = "refused" => t \in broken
  /\ proc[t].at = "secret" /\ proc[t].kind = "bake" /\ ~proc[t].named => t \in broken

IInv == /\ TypeOK
        /\ \A t \in Threads : ThreadInv(t)
        /\ FailedFetchKeepsLink

-----------------------------------------------------------------------------
\* Nothing is under way at the start.
LEMMA InitIInv == Init => IInv
<1>. SUFFICES ASSUME Init PROVE IInv
  OBVIOUS
<1>1. Idle \in Procs /\ NoLink \in Links
  BY BoundsAreNaturals DEF Idle, Procs, Kinds, Time, NoLink, Links
<1>2. TypeOK
  <2>1. proc \in [Threads -> Procs] /\ links \in [Tokens -> Links]
    BY <1>1 DEF Init
  <2>. QED
    <3>1. /\ clock \in Time /\ requests \in 0 .. MaxRequests
          /\ changes \in 0 .. MaxChanges /\ losses \in 0 .. MaxLost
      BY BoundsAreNaturals DEF Init, Time
    <3>2. held \in [Threads -> SUBSET Conditions] /\ answered \in [Tokens -> 0 .. 2]
      BY DEF Init
    <3>. QED
      BY <2>1, <3>1, <3>2 DEF Init, TypeOK, Procs
<1>3. ASSUME NEW t \in Threads PROVE ThreadInv(t)
  <2>1. proc[t] = Idle
    BY <1>3 DEF Init
  <2>2. Route(Idle) /\ Seen(Idle) = {} /\ Idle.at = "idle"
    BY DEF Route, Seen, Idle
  <2>. QED
    BY <2>1, <2>2 DEF ThreadInv
<1>4. FailedFetchKeepsLink
  BY DEF Init, FailedFetchKeepsLink
<1>. QED
  BY <1>2, <1>3, <1>4 DEF IInv

\* The types of a thread's record, under one name.
LEMMA ProcsTyped == TypeOK <=> TypeOK /\ proc \in [Threads -> Procs]
  BY DEF TypeOK, Procs

\* Every step keeps the types.
LEMMA StepTypeOK == IInv /\ [Next]_vars => TypeOK'
<1>. SUFFICES ASSUME IInv, [Next]_vars PROVE TypeOK'
  OBVIOUS
<1>. USE BoundsAreNaturals DEF IInv, Time
<1>1. CASE UNCHANGED vars
  BY <1>1 DEF vars, TypeOK, customer, told, counts
<1>2. CASE Next
  <2>1. /\ held' \in [Threads -> SUBSET Conditions] /\ broken' \subseteq Threads
        /\ overlapped' \subseteq Tokens
    BY <1>2 DEF Next, Watch, TypeOK
  <2>2. /\ clock' \in Time /\ links' \in [Tokens -> Links]
        /\ active' \in BOOLEAN /\ device' \in {"on", "off", "none"}
        /\ renamed' \in BOOLEAN /\ user' \in BOOLEAN /\ block' \in BOOLEAN
        /\ answered' \in [Tokens -> 0 .. 2] /\ lost' \subseteq Tokens
        /\ requests' \in 0 .. MaxRequests /\ changes' \in 0 .. MaxChanges
        /\ losses' \in 0 .. MaxLost /\ proc' \in [Threads -> Procs]
    <3>. USE ProcsTyped DEF TypeOK
    <3>0. Idle \in Procs
      BY DEF Idle, Procs, Kinds
    <3>1. CASE Tick
      BY <3>1 DEF Tick, customer, told, counts
    <3>2. CASE Change
      <4>1. /\ active' \in BOOLEAN /\ device' \in {"on", "off", "none"} /\ renamed' \in BOOLEAN
            /\ user' \in BOOLEAN /\ block' \in BOOLEAN
        BY <3>2 DEF Change
      <4>. QED
        BY <3>2, <4>1 DEF Change, told
    <3>3. ASSUME NEW t \in Threads, NEW kind \in Kinds, NEW k \in Tokens \cup {NoToken}, Arrive(t, kind, k)
          PROVE  /\ proc' \in [Threads -> Procs] /\ requests' \in 0 .. MaxRequests
                 /\ UNCHANGED <<clock, links, customer, told, changes, losses>>
      <4>1. [Idle EXCEPT !.at = "look", !.kind = kind, !.token = k] \in Procs
        BY <3>0, <3>3 DEF Procs
      <4>. QED
        BY <3>3, <4>1 DEF Arrive
    <3>4. ASSUME NEW t \in Threads, CheckCustomer(t) \/ LookUp(t) \/ FindDevice(t) \/ Burn(t)
          PROVE  /\ proc' \in [Threads -> Procs] /\ links' \in [Tokens -> Links]
                 /\ UNCHANGED <<clock, customer, told, counts>>
      <4>1. proc' \in [Threads -> Procs]
        BY <3>4 DEF CheckCustomer, LookUp, FindDevice, Burn, If, Goto, Procs
      <4>2. links' \in [Tokens -> Links]
        <5>1. CASE Burn(t)
          <6>1. proc[t].token \in Tokens
            BY <5>1 DEF Burn, ThreadInv, Route
          <6>2. [links[proc[t].token] EXCEPT !.consumed = TRUE] \in Links
            BY <6>1 DEF Links
          <6>. QED
            BY <5>1, <6>1, <6>2 DEF Burn
        <5>2. CASE ~Burn(t)
          BY <3>4, <5>2 DEF CheckCustomer, LookUp, FindDevice
        <5>. QED
          BY <5>1, <5>2
      <4>. QED
        BY <3>4, <4>1, <4>2 DEF CheckCustomer, LookUp, FindDevice, Burn
    <3>5. ASSUME NEW t \in Threads, PickDevice(t)
          PROVE  proc' \in [Threads -> Procs] /\ UNCHANGED <<clock, links, customer, told, counts>>
      <4>. DEFINE p == proc[t]
      <4>1. p \in Procs
        OBVIOUS
      <4>2. CASE proc' = [proc EXCEPT ![t].at = IF device = "on" THEN "secret" ELSE "refused",
                                      ![t].named = ~renamed]
        <5>1. [p EXCEPT !.at = IF device = "on" THEN "secret" ELSE "refused", !.named = ~renamed] \in Procs
          BY <4>1 DEF Procs
        <5>. QED
          BY <3>5, <4>2, <5>1 DEF PickDevice
      <4>3. ASSUME NEW k \in Tokens,
                   proc' = [proc EXCEPT ![t].at = "insert", ![t].token = k, ![t].now = clock]
            PROVE  proc' \in [Threads -> Procs]
        <5>1. [p EXCEPT !.at = "insert", !.token = k, !.now = clock] \in Procs
          BY <4>1 DEF Procs
        <5>. QED
          BY <4>3, <5>1
      <4>4. CASE Goto(t, "refused")
        <5>1. [p EXCEPT !.at = "refused"] \in Procs
          BY <4>1 DEF Procs
        <5>. QED
          BY <3>5, <4>4, <5>1 DEF Goto, PickDevice
      <4>. QED
        BY <3>5, <4>2, <4>3, <4>4 DEF PickDevice
    <3>6. ASSUME NEW t \in Threads, Insert(t)
          PROVE  /\ proc' \in [Threads -> Procs] /\ links' \in [Tokens -> Links]
                 /\ UNCHANGED <<clock, customer, told, counts>>
      <4>1. Link(proc[t].now) \in Links
        <5>1. proc[t].now \in Time
          BY DEF Procs
        <5>. QED
          BY <5>1 DEF Link, Links
      <4>. QED
        BY <3>0, <3>6, <4>1 DEF Insert
    <3>7. ASSUME NEW t \in Threads, FindUser(t)
          PROVE  proc' \in [Threads -> Procs] /\ UNCHANGED <<clock, links, customer, told, counts>>
      <4>1. [proc[t] EXCEPT !.at = IF user THEN "secret" ELSE "refused", !.named = user] \in Procs
        BY DEF Procs
      <4>. QED
        BY <3>7, <4>1 DEF FindUser
    <3>8. ASSUME NEW t \in Threads, ReadSecret(t)
          PROVE  /\ proc' \in [Threads -> Procs] /\ losses' \in 0 .. MaxLost
                 /\ UNCHANGED <<clock, links, customer, told, requests, changes>>
      <4>1. proc' \in [Threads -> Procs]
        BY <3>8 DEF ReadSecret, Goto, AfterSecret, Procs
      <4>. QED
        BY <3>8, <4>1 DEF ReadSecret
    <3>9. ASSUME NEW t \in Threads, Done(t) \/ Lose(t)
          PROVE  /\ proc' \in [Threads -> Procs] /\ answered' \in [Tokens -> 0 .. 2]
                 /\ lost' \subseteq Tokens /\ losses' \in 0 .. MaxLost
                 /\ UNCHANGED <<clock, links, customer, requests, changes>>
      <4>1. CASE Done(t)
        BY <3>0, <4>1 DEF Done, counts, told
      <4>2. CASE Lose(t)
        <5>1. proc[t].token \in Tokens
          BY <4>2 DEF Lose, ThreadInv, Route
        <5>. QED
          BY <3>0, <4>2, <5>1 DEF Lose
      <4>. QED
        BY <3>9, <4>1, <4>2
    <3>. QED
      BY <1>2, <3>1, <3>2, <3>3, <3>4, <3>5, <3>6, <3>7, <3>8, <3>9
         DEF Next, Step, customer, told, counts, Kinds
  <2>. QED
    BY <2>1, <2>2 DEF TypeOK, Procs
<1>. QED
  BY <1>1, <1>2

-----------------------------------------------------------------------------
\* A step of one thread, or of none, leaves what the others know.
LEMMA OthersKeep ==
  ASSUME IInv, Step, Watch, NEW t \in Threads, proc'[t] = proc[t]
  PROVE  ThreadInv(t)'
<1>1. ThreadInv(t) /\ proc[t] \in Procs
  BY ProcsTyped DEF IInv
<1>3. proc[t].at # "idle" => held[t] \subseteq held'[t] /\ (t \in broken => t \in broken')
  BY DEF Watch, Held, IInv, TypeOK
<1>4. proc[t].at = "idle" => Seen(proc[t]) = {}
  BY DEF Seen
<1>. QED
  BY <1>1, <1>3, <1>4 DEF ThreadInv, Route, Seen

\* What the thread t has seen after its step, and whether it may be refused.
LEMMA MoverKeeps ==
  ASSUME IInv, Watch, NEW t \in Threads, proc'[t].at # "idle", Route(proc'[t]),
         NEW k \in Tokens \cup {NoToken}, proc'[t].token = k,
         \A c \in Seen(proc'[t]) : c \in Seen(proc[t]) \/ Holds(c, k)',
         \/ proc'[t].at = "refused"
         \/ proc'[t].at = "secret" /\ proc'[t].kind = "bake" /\ ~proc'[t].named
         => \/ t \in broken /\ proc[t].at # "idle"
            \/ \E c \in Needs(proc'[t].kind) : ~Holds(c, k)'
  PROVE  ThreadInv(t)'
<1>1. proc[t].at = "idle" => Seen(proc[t]) = {}
  BY DEF Seen
<1>2. Seen(proc[t]) \subseteq held[t]
  BY DEF IInv, ThreadInv
<1>3. Seen(proc'[t]) \subseteq held'[t]
  <2>1. ASSUME NEW c \in Seen(proc'[t]) PROVE c \in Conditions /\ Held(c, t)
    <3>1. c \in Conditions
      BY <2>1 DEF Seen
    <3>2. CASE c \in Seen(proc[t])
      BY <1>1, <1>2, <3>1, <3>2 DEF Held
    <3>3. CASE Holds(c, k)'
      BY <3>1, <3>3 DEF Held
    <3>. QED
      BY <2>1, <3>1, <3>2, <3>3
  <2>. QED
    BY <2>1 DEF Watch
<1>4. \/ proc'[t].at = "refused"
      \/ proc'[t].at = "secret" /\ proc'[t].kind = "bake" /\ ~proc'[t].named
      => t \in broken'
  BY DEF Watch
<1>. QED
  BY <1>3, <1>4 DEF ThreadInv, Route, Seen
-----------------------------------------------------------------------------
\* Every request knows what it has seen, after every step.
LEMMA StepThreads == IInv /\ Next => \A u \in Threads : ThreadInv(u)'
<1>. SUFFICES ASSUME IInv, Next, NEW u \in Threads PROVE ThreadInv(u)'
  OBVIOUS
<1>. USE DEF IInv
<1>1. Step /\ Watch /\ proc \in [Threads -> Procs] /\ ThreadInv(u) /\ proc[u] \in Procs
  BY ProcsTyped DEF Next
<1>2. CASE proc'[u] = proc[u]
  BY <1>1, <1>2, OthersKeep
<1>3. CASE proc'[u].at = "idle"
  BY <1>3 DEF ThreadInv, Route, Seen
<1>4. CASE proc'[u] # proc[u] /\ proc'[u].at # "idle"
  <2>1. PICK t \in Threads :
          \/ \E kind \in {"link", "bake"} : Arrive(t, kind, NoToken)
          \/ \E k \in Tokens : links[k] # NoLink /\ Arrive(t, "fetch", k)
          \/ CheckCustomer(t) \/ PickDevice(t) \/ LookUp(t) \/ FindDevice(t)
          \/ FindUser(t) \/ ReadSecret(t) \/ Burn(t)
    <3>1. ASSUME NEW t \in Threads PROVE ~Done(t) /\ ~Lose(t) /\ ~Insert(t)
      BY <1>1, <1>4 DEF Done, Lose, Insert, Idle
    <3>2. ~Tick /\ ~Change
      BY <1>4 DEF Tick, Change
    <3>. QED
      BY <1>1, <3>1, <3>2 DEF Step
  <2>2. t = u
    BY <1>1, <1>4, <2>1
       DEF Arrive, CheckCustomer, PickDevice, LookUp, FindDevice, FindUser, ReadSecret, Burn, If, Goto
  <2>3. UNCHANGED <<clock, customer>>
    BY <2>1 DEF Arrive, CheckCustomer, PickDevice, LookUp, FindDevice, FindUser, ReadSecret, Burn
  <2>4. Route(proc[u]) /\ proc[u].token \in Tokens \cup {NoToken}
    BY <1>1, BoundsAreNaturals DEF TypeOK, ThreadInv, Procs
  <2>5. CASE CheckCustomer(u)
    <3>1. /\ proc[u].at = "look" /\ proc[u].kind \in {"link", "bake"} /\ UNCHANGED links
          /\ proc'[u] = [proc[u] EXCEPT !.at = IF active THEN "device" ELSE "refused"]
      BY <1>1, <2>5 DEF CheckCustomer, If, Goto, Procs, Kinds, Route
    <3>2. Route(proc'[u])
      BY <1>1, <2>3, <2>4, <3>1 DEF Route, Procs, customer
    <3>3. \A c \in Seen(proc'[u]) : c \in Seen(proc[u]) \/ Holds(c, proc[u].token)'
      BY <1>1, <2>3, <2>4, <3>1 DEF Seen, Holds, Route, Procs, customer
    <3>4. \/ proc'[u].at = "refused"
          \/ proc'[u].at = "secret" /\ proc'[u].kind = "bake" /\ ~proc'[u].named
          => \E c \in Needs(proc'[u].kind) : ~Holds(c, proc[u].token)'
      BY <1>1, <2>3, <2>4, <3>1 DEF Needs, Conditions, Holds, Route, Procs, customer
    <3>. QED
      BY <1>1, <1>4, <2>4, <3>1, <3>2, <3>3, <3>4, MoverKeeps DEF Procs
  <2>6. CASE LookUp(u)
    <3>1. /\ proc[u].at = "look" /\ proc[u].kind = "fetch" /\ UNCHANGED links
          /\ proc'[u] = [proc[u] EXCEPT !.at = IF Admits(proc[u].token) THEN "device" ELSE "refused"]
      BY <1>1, <2>6 DEF LookUp, If, Goto, Procs, Kinds, Route
    <3>2. Route(proc'[u])
      BY <1>1, <2>3, <2>4, <3>1 DEF Route, Procs, customer
    <3>3. \A c \in Seen(proc'[u]) : c \in Seen(proc[u]) \/ Holds(c, proc[u].token)'
      BY <1>1, <2>3, <2>4, <3>1 DEF Seen, Holds, Route, Procs, customer, Admits
    <3>4. \/ proc'[u].at = "refused"
          \/ proc'[u].at = "secret" /\ proc'[u].kind = "bake" /\ ~proc'[u].named
          => \E c \in Needs(proc'[u].kind) : ~Holds(c, proc[u].token)'
      BY <1>1, <2>3, <2>4, <3>1 DEF Needs, Conditions, Holds, Route, Procs, customer, Admits, NoLink
    <3>. QED
      BY <1>1, <1>4, <2>4, <3>1, <3>2, <3>3, <3>4, MoverKeeps DEF Procs
  <2>7. CASE FindDevice(u)
    <3>1. /\ proc[u].at = "device" /\ proc[u].kind = "fetch" /\ UNCHANGED links
          /\ proc'[u] = [proc[u] EXCEPT !.at = IF device = "on" THEN "user" ELSE "refused"]
      BY <1>1, <2>7 DEF FindDevice, If, Goto, Procs, Kinds, Route
    <3>2. Route(proc'[u])
      BY <1>1, <2>3, <2>4, <3>1 DEF Route, Procs, customer
    <3>3. \A c \in Seen(proc'[u]) : c \in Seen(proc[u]) \/ Holds(c, proc[u].token)'
      BY <1>1, <2>3, <2>4, <3>1 DEF Seen, Holds, Route, Procs, customer
    <3>4. \/ proc'[u].at = "refused"
          \/ proc'[u].at = "secret" /\ proc'[u].kind = "bake" /\ ~proc'[u].named
          => \E c \in Needs(proc'[u].kind) : ~Holds(c, proc[u].token)'
      BY <1>1, <2>3, <2>4, <3>1 DEF Needs, Conditions, Holds, Route, Procs, customer
    <3>. QED
      BY <1>1, <1>4, <2>4, <3>1, <3>2, <3>3, <3>4, MoverKeeps DEF Procs
  <2>8. CASE FindUser(u)
    <3>1. /\ proc[u].at = "user" /\ proc[u].kind = "fetch" /\ UNCHANGED links
          /\ proc'[u] = [proc[u] EXCEPT !.at = IF user THEN "secret" ELSE "refused", !.named = user]
      <4>1. proc[u].at = "user" /\ proc[u].kind = "fetch"
        BY <1>1, <2>4, <2>8 DEF FindUser, Route, Procs
      <4>. QED
        BY <1>1, <2>8, <4>1 DEF FindUser, Procs
    <3>2. Route(proc'[u])
      BY <1>1, <2>3, <2>4, <3>1 DEF Route, Procs, customer
    <3>3. \A c \in Seen(proc'[u]) : c \in Seen(proc[u]) \/ Holds(c, proc[u].token)'
      BY <1>1, <2>3, <2>4, <3>1 DEF Seen, Holds, Route, Procs, customer
    <3>4. \/ proc'[u].at = "refused"
          \/ proc'[u].at = "secret" /\ proc'[u].kind = "bake" /\ ~proc'[u].named
          => \E c \in Needs(proc'[u].kind) : ~Holds(c, proc[u].token)'
      BY <1>1, <2>3, <2>4, <3>1 DEF Needs, Conditions, Holds, Route, Procs, customer
    <3>. QED
      BY <1>1, <1>4, <2>4, <3>1, <3>2, <3>3, <3>4, MoverKeeps DEF Procs
  <2>9. CASE Burn(u)
    <3>1. /\ proc[u].at = "burn" /\ proc[u].kind = "fetch"
          /\ proc'[u] = [proc[u] EXCEPT !.at = "answer"]
      BY <1>1, <2>4, <2>9 DEF Burn, Goto, Procs, Route
    <3>2. Route(proc'[u])
      BY <1>1, <2>3, <2>4, <3>1 DEF Route, Procs, customer
    <3>3. \A c \in Seen(proc'[u]) : c \in Seen(proc[u])
      BY <1>1, <3>1 DEF Seen, Procs
    <3>. QED
      BY <1>1, <1>4, <2>4, <3>1, <3>2, <3>3, MoverKeeps DEF Procs
  <2>10. ASSUME NEW kind \in Kinds, NEW k \in Tokens \cup {NoToken}, Arrive(u, kind, k),
                kind = "fetch" => k \in Tokens
         PROVE  ThreadInv(u)'
    <3>1. proc'[u] = [Idle EXCEPT !.at = "look", !.kind = kind, !.token = k]
      BY <1>1, <2>10 DEF Arrive
    <3>2. /\ proc'[u].at = "look" /\ proc'[u].kind = kind /\ proc'[u].token = k
      BY <3>1 DEF Idle
    <3>3. Route(proc'[u])
      BY <2>3, <2>4, <2>10, <3>2 DEF Route, customer
    <3>4. Seen(proc'[u]) = {}
      BY <3>2 DEF Seen
    <3>. QED
      BY <1>1, <1>4, <3>2, <3>3, <3>4, MoverKeeps
  <2>11. CASE PickDevice(u)
    <3>1. proc[u].at = "device" /\ proc[u].kind \in {"link", "bake"}
      BY <1>1, <2>11 DEF PickDevice, Procs, Kinds
    <3>2. CASE /\ proc[u].kind = "bake"
               /\ proc' = [proc EXCEPT ![u].at = IF device = "on" THEN "secret" ELSE "refused",
                                       ![u].named = ~renamed]
      <4>1. proc'[u] = [proc[u] EXCEPT !.at = IF device = "on" THEN "secret" ELSE "refused",
                                       !.named = ~renamed]
        BY <1>1, <3>2 DEF Procs
      <4>2. Route(proc'[u])
        BY <1>1, <2>3, <2>4, <3>1, <3>2, <4>1 DEF Route, Procs, customer
      <4>3. \A c \in Seen(proc'[u]) : c \in Seen(proc[u]) \/ Holds(c, proc[u].token)'
        BY <1>1, <2>3, <3>1, <3>2, <4>1 DEF Seen, Holds, Procs, customer
      <4>4. \/ proc'[u].at = "refused"
            \/ proc'[u].at = "secret" /\ proc'[u].kind = "bake" /\ ~proc'[u].named
            => \E c \in Needs(proc'[u].kind) : ~Holds(c, proc[u].token)'
        BY <1>1, <2>3, <3>1, <3>2, <4>1 DEF Needs, Holds, Procs, customer, TypeOK
      <4>. QED
        BY <1>1, <1>4, <2>4, <4>1, <4>2, <4>3, <4>4, MoverKeeps DEF Procs
    <3>3. ASSUME proc[u].kind = "link", NEW k \in Tokens,
                 proc' = [proc EXCEPT ![u].at = "insert", ![u].token = k, ![u].now = clock],
                 device = "on"
          PROVE  ThreadInv(u)'
      <4>1. proc'[u] = [proc[u] EXCEPT !.at = "insert", !.token = k, !.now = clock]
        BY <1>1, <3>3 DEF Procs
      <4>2. Route(proc'[u])
        BY <1>1, <2>3, <2>4, <3>1, <3>3, <4>1 DEF Route, Procs, customer
      <4>3. Seen(proc'[u]) = {} /\ proc'[u].at = "insert" /\ proc'[u].token = k
        BY <1>1, <3>3, <4>1 DEF Seen, Procs
      <4>. QED
        BY <1>1, <1>4, <2>4, <4>2, <4>3, MoverKeeps
    <3>4. CASE proc[u].kind = "link" /\ device # "on" /\ Goto(u, "refused")
      <4>1. proc'[u] = [proc[u] EXCEPT !.at = "refused"]
        BY <1>1, <3>4 DEF Procs, Goto
      <4>2. Route(proc'[u])
        BY <1>1, <2>3, <2>4, <3>1, <3>4, <4>1 DEF Route, Procs, customer
      <4>3. Seen(proc'[u]) = {}
        BY <1>1, <3>4, <4>1 DEF Seen, Procs
      <4>4. \E c \in Needs(proc'[u].kind) : ~Holds(c, proc[u].token)'
        BY <1>1, <2>3, <3>4, <4>1 DEF Needs, Holds, Procs, customer
      <4>. QED
        BY <1>1, <1>4, <2>4, <4>1, <4>2, <4>3, <4>4, MoverKeeps DEF Procs
    <3>. QED
      BY <2>11, <3>2, <3>3, <3>4 DEF PickDevice
  <2>12. CASE ReadSecret(u)
    <3>1. proc[u].at = "secret" /\ proc[u].kind \in {"fetch", "bake"}
      BY <1>1, <2>4, <2>12 DEF ReadSecret, Route, Procs, Kinds
    <3>2. CASE /\ BlockFound(u)
               /\ Goto(u, AfterSecret(u))
      <4>1. proc'[u] = [proc[u] EXCEPT !.at = IF proc[u].kind = "bake" THEN "answer" ELSE "burn"]
        BY <1>1, <3>2 DEF Procs, Goto, AfterSecret
      <4>2. Route(proc'[u])
        BY <1>1, <2>3, <2>4, <3>1, <3>2, <4>1 DEF Route, Procs, customer, BlockFound
      <4>3. \A c \in Seen(proc'[u]) : c \in Seen(proc[u]) \/ Holds(c, proc[u].token)'
        BY <1>1, <2>3, <3>1, <3>2, <4>1 DEF Seen, Holds, Procs, customer, BlockFound
      <4>. QED
        BY <1>1, <1>4, <2>4, <4>1, <4>2, <4>3, MoverKeeps DEF Procs
    <3>3. CASE ~BlockFound(u) /\ Goto(u, "refused")
      <4>1. proc'[u] = [proc[u] EXCEPT !.at = "refused"]
        BY <1>1, <3>3 DEF Procs, Goto
      <4>2. Route(proc'[u])
        BY <1>1, <2>3, <2>4, <3>1, <4>1 DEF Route, Procs, customer
      <4>3. Seen(proc'[u]) = {}
        BY <1>1, <4>1 DEF Seen, Procs
      <4>4. \/ u \in broken /\ proc[u].at # "idle"
            \/ \E c \in Needs(proc'[u].kind) : ~Holds(c, proc[u].token)'
        <5>1. CASE ~block
          <6>1. "block" \in Needs(proc'[u].kind)
            BY <1>1, <3>1, <4>1 DEF Needs, Conditions, Procs
          <6>2. ~Holds("block", proc[u].token)'
            BY <2>3, <5>1 DEF Holds, customer
          <6>. QED
            BY <6>1, <6>2
        <5>2. CASE block
          BY <1>1, <2>4, <3>1, <3>3, <5>2 DEF BlockFound, ThreadInv, Route
        <5>. QED
          BY <5>1, <5>2
      <4>. QED
        BY <1>1, <1>4, <2>4, <4>1, <4>2, <4>3, <4>4, MoverKeeps DEF Procs
    <3>4. CASE Goto(u, "failed")
      <4>1. proc'[u] = [proc[u] EXCEPT !.at = "failed"]
        BY <1>1, <3>4 DEF Procs, Goto
      <4>2. Route(proc'[u])
        BY <1>1, <2>3, <2>4, <3>1, <4>1 DEF Route, Procs, customer
      <4>3. Seen(proc'[u]) = {}
        BY <1>1, <4>1 DEF Seen, Procs
      <4>. QED
        BY <1>1, <1>4, <2>4, <4>1, <4>2, <4>3, MoverKeeps DEF Procs
    <3>. QED
      BY <2>12, <3>2, <3>3, <3>4 DEF ReadSecret
  <2>. QED
    BY <2>1, <2>2, <2>5, <2>6, <2>7, <2>8, <2>9, <2>10, <2>11, <2>12 DEF Kinds
<1>. QED
  BY <1>2, <1>3, <1>4

\* A link is used up by a fetch that goes on to its answer, and only there.
LEMMA StepLinks == IInv /\ Next => FailedFetchKeepsLink'
<1>. SUFFICES ASSUME IInv, Next, NEW k \in Tokens, links'[k].consumed
              PROVE  \/ links'[k] = NoLink \/ answered'[k] > 0 \/ k \in lost'
                     \/ \E t \in Threads : proc'[t].at = "answer" /\ proc'[t].token = k
  BY DEF FailedFetchKeepsLink
<1>. USE DEF IInv
<1>1. Step /\ proc \in [Threads -> Procs] /\ TypeOK
  BY ProcsTyped DEF Next
<1>. DEFINE Answering(t) == proc[t].at = "answer" /\ proc[t].token = k
<1>2. CASE \E t \in Threads : Burn(t) /\ proc[t].token = k
  <2>1. PICK t \in Threads : Burn(t) /\ proc[t].token = k
    BY <1>2
  <2>. QED
    BY <1>1, <2>1 DEF Burn, Goto, Procs
<1>3. CASE /\ links'[k] = links[k] /\ UNCHANGED told
           /\ \A t \in Threads : Answering(t) => Answering(t)'
  BY <1>3 DEF FailedFetchKeepsLink, told
<1>4. ASSUME NEW t \in Threads, Done(t) \/ Lose(t)
      PROVE  \/ answered'[k] > 0 \/ k \in lost'
             \/ /\ links' = links /\ lost \subseteq lost' /\ answered'[k] >= answered[k]
                /\ \A v \in Threads : Answering(v) => Answering(v)'
  <2>1. answered[k] \in 0 .. 2
    BY <1>1 DEF TypeOK
  <2>2. CASE Done(t)
    <3>1. CASE Answering(t)
      BY <1>1, <2>1, <2>2, <3>1 DEF Done, TypeOK
    <3>2. CASE ~Answering(t)
      <4>1. \A v \in Threads : Answering(v) => Answering(v)'
        BY <1>1, <2>2, <3>2 DEF Done
      <4>2. answered'[k] >= answered[k] /\ lost' = lost
        BY <1>1, <2>1, <2>2, <3>2 DEF Done, told, TypeOK
      <4>. QED
        BY <2>2, <4>1, <4>2 DEF Done
    <3>. QED
      BY <3>1, <3>2
  <2>3. CASE Lose(t)
    <3>1. CASE Answering(t)
      BY <2>3, <3>1 DEF Lose
    <3>2. CASE ~Answering(t)
      <4>1. \A v \in Threads : Answering(v) => Answering(v)'
        BY <1>1, <2>3, <3>2 DEF Lose
      <4>. QED
        BY <2>1, <2>3, <4>1 DEF Lose
    <3>. QED
      BY <3>1, <3>2
  <2>. QED
    BY <1>4, <2>2, <2>3
<1>5. ASSUME NEW t \in Threads, Done(t) \/ Lose(t)
      PROVE  \/ links'[k] = NoLink \/ answered'[k] > 0 \/ k \in lost'
             \/ \E v \in Threads : Answering(v)'
  <2>1. TypeOK'
    BY StepTypeOK
  <2>2. answered[k] \in Nat /\ answered'[k] \in Nat
    BY <1>1, <2>1 DEF TypeOK
  <2>. QED
    BY <1>4, <1>5, <2>2 DEF FailedFetchKeepsLink
<1>6. ASSUME NEW t \in Threads, Insert(t) \/ Burn(t), ~\E v \in Threads : Burn(v) /\ proc[v].token = k
      PROVE  /\ links'[k] = links[k] /\ UNCHANGED told
             /\ \A v \in Threads : Answering(v) => Answering(v)'
  <2>1. CASE Insert(t)
    <3>1. links' = [links EXCEPT ![proc[t].token] = Link(proc[t].now)] /\ UNCHANGED told
      BY <2>1 DEF Insert
    <3>2. proc[t].token # k
      BY <1>1, <3>1 DEF Link, TypeOK
    <3>3. \A v \in Threads : Answering(v) => Answering(v)'
      BY <1>1, <2>1 DEF Insert
    <3>. QED
      BY <1>1, <3>1, <3>2, <3>3 DEF TypeOK
  <2>2. CASE Burn(t)
    BY <1>1, <1>6, <2>2 DEF Burn, Goto, TypeOK
  <2>. QED
    BY <1>6, <2>1, <2>2
<1>7. ASSUME \/ Tick \/ Change
             \/ \E t \in Threads :
                  \/ \E kind \in Kinds, j \in Tokens \cup {NoToken} : Arrive(t, kind, j)
                  \/ CheckCustomer(t) \/ PickDevice(t) \/ LookUp(t) \/ FindDevice(t)
                  \/ FindUser(t) \/ ReadSecret(t)
      PROVE  /\ links'[k] = links[k] /\ UNCHANGED told
             /\ \A v \in Threads : Answering(v) => Answering(v)'
  <2>1. links' = links /\ UNCHANGED told
    BY <1>7 DEF Tick, Change, Arrive, CheckCustomer, PickDevice, LookUp, FindDevice, FindUser, ReadSecret
  <2>2. ASSUME NEW v \in Threads, Answering(v) PROVE proc'[v] = proc[v]
    <3>1. CASE Tick \/ Change
      BY <3>1 DEF Tick, Change
    <3>2. CASE \E t \in Threads :
                  \/ \E kind \in Kinds, j \in Tokens \cup {NoToken} : Arrive(t, kind, j)
                  \/ CheckCustomer(t) \/ PickDevice(t) \/ LookUp(t) \/ FindDevice(t)
                  \/ FindUser(t) \/ ReadSecret(t)
      <4>1. PICK t \in Threads :
                  \/ \E kind \in Kinds, j \in Tokens \cup {NoToken} : Arrive(t, kind, j)
                  \/ CheckCustomer(t) \/ PickDevice(t) \/ LookUp(t) \/ FindDevice(t)
                  \/ FindUser(t) \/ ReadSecret(t)
        BY <3>2
      <4>2. proc[t].at \in {"idle", "look", "device", "user", "secret"}
        <5>1. CASE proc[t] = Idle
          BY <5>1 DEF Idle
        <5>2. CASE ~(proc[t] = Idle)
          BY <4>1, <5>2 DEF Arrive, CheckCustomer, PickDevice, LookUp, FindDevice, FindUser, ReadSecret
        <5>. QED
          BY <5>1, <5>2
      <4>3. \A x \in Threads : x # t => proc'[x] = proc[x]
        BY <1>1, <4>1 DEF Arrive, CheckCustomer, PickDevice, LookUp, FindDevice, FindUser, ReadSecret,
                          If, Goto
      <4>. QED
        BY <2>2, <4>2, <4>3
    <3>. QED
      BY <1>7, <3>1, <3>2
  <2>. QED
    BY <2>1, <2>2
<1>. QED
  BY <1>1, <1>2, <1>3, <1>5, <1>6, <1>7 DEF Step, Kinds

\* The inductive invariant.
LEMMA StepIInv == IInv /\ [Next]_vars => IInv'
<1>. SUFFICES ASSUME IInv, [Next]_vars PROVE IInv'
  OBVIOUS
<1>1. CASE Next
  BY <1>1, StepTypeOK, StepThreads, StepLinks DEF IInv
<1>2. CASE UNCHANGED vars
  <2>1. /\ proc' = proc /\ held' = held /\ broken' = broken
        /\ links' = links /\ answered' = answered /\ lost' = lost
    BY <1>2 DEF vars, customer, told
  <2>. QED
    BY <2>1, StepTypeOK DEF IInv, ThreadInv, Route, Seen, FailedFetchKeepsLink
<1>. QED
  BY <1>1, <1>2

LEMMA Invariant == Spec => []IInv
  BY InitIInv, StepIInv, PTL DEF Spec

\* Every variable keeps its type.
THEOREM TypeCorrect == Spec => []TypeOK
<1>1. IInv => TypeOK
  BY DEF IInv
<1>. QED
  BY <1>1, Invariant, PTL

\* consume_installer_token, create_installer_token: a password goes out only if
\* each condition of the request held while it ran.
THEOREM OnlyOpenLinks == Spec => []ServedWhenOpen
<1>1. IInv => ServedWhenOpen
  <2>. SUFFICES ASSUME IInv, NEW t \in Threads, proc[t].at = "answer"
                PROVE  Needs(proc[t].kind) \subseteq held[t]
    BY DEF ServedWhenOpen
  <2>1. Seen(proc[t]) \subseteq held[t] /\ proc[t].kind \in {"fetch", "bake"}
    BY ProcsTyped DEF IInv, ThreadInv, Route, Procs, Kinds
  <2>2. Needs(proc[t].kind) \subseteq Seen(proc[t])
    BY <2>1 DEF Needs, Seen, Conditions
  <2>. QED
    BY <2>1, <2>2
<1>. QED
  BY <1>1, Invariant, PTL

\* consume_installer_token: a refusal has a cause that held while it ran.
THEOREM RefusalsHaveCauses == Spec => []RefusedForCause
<1>1. IInv => RefusedForCause
  BY DEF IInv, ThreadInv, RefusedForCause
<1>. QED
  BY <1>1, Invariant, PTL

\* consume_installer_token: only a fetch that gets the password uses the link up.
THEOREM FailuresKeepLinks == Spec => []FailedFetchKeepsLink
<1>1. IInv => FailedFetchKeepsLink
  BY DEF IInv
<1>. QED
  BY <1>1, Invariant, PTL


-----------------------------------------------------------------------------
(* A link brings its password once.                                        *)

Inserting(t, k) == proc[t].at = "insert" /\ proc[t].token = k
Bringing(t, k)  == proc[t].at = "answer" /\ proc[t].token = k
Under(t, k)     == Fetching(t, k) \/ Bringing(t, k)

\* A link that has brought its password is burnt, and its row is still there;
\* so is that of a link being fetched.  One being inserted has none.
LinkInv(k) ==
  /\ links[k] # NoLink => links[k].expires > 0
  /\ answered[k] > 0 \/ k \in lost \/ (\E t \in Threads : Bringing(t, k))
     => links[k].consumed /\ links[k] # NoLink
  /\ \A t \in Threads : Fetching(t, k) => links[k] # NoLink
  /\ \A t \in Threads : Inserting(t, k) => links[k] = NoLink
  /\ \A s, t \in Threads : Inserting(s, k) /\ Inserting(t, k) => s = t

\* Of the fetches past their lookup there is one, and then nothing has come.
Once(k) ==
  k \notin overlapped =>
    /\ \A s, t \in Threads : Under(s, k) /\ Under(t, k) => s = t
    /\ (\E t \in Threads : Under(t, k)) => answered[k] = 0 /\ k \notin lost
    /\ answered[k] <= 1 /\ (answered[k] = 0 \/ k \notin lost)

OInv == /\ \A t \in Threads : proc[t].kind = "bake" => proc[t].token = NoToken
        /\ \A k \in Tokens : LinkInv(k) /\ Once(k)

LEMMA InitOInv == Init => OInv
<1>. SUFFICES ASSUME Init PROVE OInv
  OBVIOUS
<1>1. \A t \in Threads : proc[t] = Idle /\ Idle.at = "idle" /\ Idle.kind = "fetch"
  BY DEF Init, Idle
<1>2. \A t \in Threads, k \in Tokens : ~Inserting(t, k) /\ ~Bringing(t, k) /\ ~Fetching(t, k)
  BY <1>1 DEF Inserting, Bringing, Fetching
<1>3. \A k \in Tokens : links[k] = NoLink /\ answered[k] = 0 /\ k \notin lost
  BY DEF Init
<1>. QED
  BY <1>1, <1>2, <1>3 DEF OInv, LinkInv, Once, Under

\* The step of t neither starts nor ends anything that matters to a link.
Quiet(t) ==
  /\ UNCHANGED <<links, told>>
  /\ \A v \in Threads \ {t} : proc'[v] = proc[v]
  /\ \A k \in Tokens : ~Inserting(t, k)' /\ ~Bringing(t, k)' /\ (Fetching(t, k)' => Fetching(t, k))
  /\ proc'[t].kind = "bake" => proc'[t].token = NoToken

\* A record r in place of the record p does none of that.
Harmless(p, r) ==
  /\ r.at # "insert"
  /\ r.at = "answer" \/ r.kind = "bake" => r.token = NoToken
  /\ r.kind = "fetch" /\ r.at \in {"device", "user", "secret", "burn"} =>
       /\ p.kind = "fetch" /\ p.at \in {"device", "user", "secret", "burn"}
       /\ r.token = p.token

LEMMA HarmlessIsQuiet ==
  ASSUME proc \in [Threads -> Procs], NEW t \in Threads, NEW r \in Procs,
         proc' = [proc EXCEPT ![t] = r], UNCHANGED <<links, told>>, Harmless(proc[t], r)
  PROVE  Quiet(t)
<1>1. proc'[t] = r /\ \A v \in Threads \ {t} : proc'[v] = proc[v]
  OBVIOUS
<1>. QED
  BY <1>1, NoTokenIsNone DEF Quiet, Harmless, Inserting, Bringing, Fetching

LEMMA QuietOInv ==
  ASSUME OInv, Watch, NEW t \in Threads, Quiet(t)
  PROVE  OInv'
<1>1. \A v \in Threads, k \in Tokens :
        /\ Inserting(v, k)' => Inserting(v, k)
        /\ Bringing(v, k)' => Bringing(v, k)
        /\ Fetching(v, k)' => Fetching(v, k)
  BY DEF Quiet, Inserting, Bringing, Fetching
<1>2. links' = links /\ answered' = answered /\ lost' = lost /\ overlapped \subseteq overlapped'
  BY DEF Quiet, told, Watch
<1>3. \A v \in Threads : proc'[v].kind = "bake" => proc'[v].token = NoToken
  BY DEF Quiet, OInv
<1>4. \A k \in Tokens : LinkInv(k)'
  BY <1>1, <1>2 DEF OInv, LinkInv
<1>5. \A k \in Tokens : Once(k)'
  BY <1>1, <1>2 DEF OInv, Once, Under
<1>. QED
  BY <1>3, <1>4, <1>5 DEF OInv

\* Every step that is not one of those below is quiet.
LEMMA StepQuiet ==
  ASSUME IInv, OInv, Next
  PROVE  \/ UNCHANGED <<links, told, proc>>
         \/ \E t \in Threads :
              \/ Quiet(t)
              \/ /\ LookUp(t) /\ Admits(proc[t].token)
              \/ PickDevice(t) /\ proc[t].kind = "link"
              \/ Insert(t) \/ Burn(t)
              \/ (Done(t) \/ Lose(t)) /\ proc[t].at = "answer"
<1>0. proc \in [Threads -> Procs] /\ \A t \in Threads : Route(proc[t])
  BY ProcsTyped DEF IInv, ThreadInv
<1>1. CASE Tick \/ Change
  BY <1>1 DEF Tick, Change
<1>2. Idle \in Procs /\ Idle.at = "idle" /\ Idle.kind = "fetch"
  BY BoundsAreNaturals DEF Idle, Procs, Kinds, Time
<1>3. ASSUME NEW t \in Threads, NEW kind \in Kinds, NEW k \in Tokens \cup {NoToken}, Arrive(t, kind, k),
             kind = "bake" => k = NoToken
      PROVE  Quiet(t)
  <2>. DEFINE r == [Idle EXCEPT !.at = "look", !.kind = kind, !.token = k]
  <2>1. r \in Procs /\ r.at = "look" /\ r.kind = kind /\ r.token = k
    BY <1>2 DEF Procs
  <2>2. proc' = [proc EXCEPT ![t] = r] /\ UNCHANGED <<links, told>>
    BY <1>3 DEF Arrive
  <2>. HIDE DEF r
  <2>3. Harmless(proc[t], r)
    BY <1>3, <2>1 DEF Harmless
  <2>. QED
    BY <1>0, <2>1, <2>2, <2>3, HarmlessIsQuiet
<1>4. ASSUME NEW t \in Threads,
             \/ CheckCustomer(t) \/ FindDevice(t) \/ ReadSecret(t)
             \/ LookUp(t) /\ ~Admits(proc[t].token)
      PROVE  Quiet(t)
  <2>1. PICK at \in {"device", "user", "burn", "answer", "refused", "failed"} :
          /\ Goto(t, at)
          /\ at = "device" => proc[t].kind # "fetch"
          /\ at \in {"user", "burn"} => proc[t].at \in {"device", "secret"}
          /\ at = "answer" => proc[t].kind = "bake"
    BY <1>4 DEF CheckCustomer, FindDevice, ReadSecret, LookUp, If, AfterSecret
  <2>. DEFINE r == [proc[t] EXCEPT !.at = at]
  <2>2. r \in Procs /\ r.at = at /\ r.kind = proc[t].kind /\ r.token = proc[t].token
    BY <1>0 DEF Procs
  <2>3. proc' = [proc EXCEPT ![t] = r] /\ UNCHANGED <<links, told>>
    BY <1>0, <1>4, <2>1 DEF Goto, CheckCustomer, FindDevice, ReadSecret, LookUp
  <2>. HIDE DEF r
  <2>4. Harmless(proc[t], r)
    BY <2>1, <2>2 DEF OInv, Harmless
  <2>. QED
    BY <1>0, <2>2, <2>3, <2>4, HarmlessIsQuiet
<1>5. ASSUME NEW t \in Threads, FindUser(t) \/ (PickDevice(t) /\ proc[t].kind # "link")
      PROVE  Quiet(t)
  <2>1. PICK at \in {"secret", "refused"}, named \in BOOLEAN :
          /\ proc' = [proc EXCEPT ![t].at = at, ![t].named = named]
          /\ proc[t].kind # "fetch" \/ proc[t].at = "user"
    BY <1>5 DEF FindUser, PickDevice, IInv, TypeOK
  <2>. DEFINE r == [proc[t] EXCEPT !.at = at, !.named = named]
  <2>2. r \in Procs /\ r.at = at /\ r.kind = proc[t].kind /\ r.token = proc[t].token
    BY <1>0 DEF Procs
  <2>3. proc' = [proc EXCEPT ![t] = r] /\ UNCHANGED <<links, told>>
    BY <1>0, <1>5, <2>1 DEF FindUser, PickDevice
  <2>. HIDE DEF r
  <2>4. Harmless(proc[t], r)
    BY <2>1, <2>2 DEF OInv, Harmless
  <2>. QED
    BY <1>0, <2>2, <2>3, <2>4, HarmlessIsQuiet
<1>6. ASSUME NEW t \in Threads, Done(t), proc[t].at # "answer"
      PROVE  Quiet(t)
  <2>1. proc' = [proc EXCEPT ![t] = Idle] /\ UNCHANGED <<links, told>>
    BY <1>6 DEF Done
  <2>2. Harmless(proc[t], Idle)
    BY <1>2 DEF Harmless
  <2>. QED
    BY <1>0, <1>2, <2>1, <2>2, HarmlessIsQuiet
<1>7. CASE ~Tick /\ ~Change
  <2>1. PICK t \in Threads :
          \/ \E kind \in {"link", "bake"} : Arrive(t, kind, NoToken)
          \/ \E k \in Tokens : Arrive(t, "fetch", k)
          \/ CheckCustomer(t) \/ PickDevice(t) \/ Insert(t)
          \/ LookUp(t) \/ FindDevice(t) \/ FindUser(t) \/ ReadSecret(t) \/ Burn(t)
          \/ Done(t) \/ Lose(t)
    BY <1>7 DEF Next, Step
  <2>2. (\E kind \in {"link", "bake"} : Arrive(t, kind, NoToken))
        \/ (\E k \in Tokens : Arrive(t, "fetch", k)) => Quiet(t)
    BY <1>3 DEF Kinds
  <2>3. Lose(t) => proc[t].at = "answer"
    BY DEF Lose
  <2>4. CheckCustomer(t) \/ FindDevice(t) \/ ReadSecret(t) \/ FindUser(t) => Quiet(t)
    BY <1>4, <1>5
  <2>5. LookUp(t) => Quiet(t) \/ (LookUp(t) /\ Admits(proc[t].token))
    BY <1>4
  <2>6. PickDevice(t) => Quiet(t) \/ (PickDevice(t) /\ proc[t].kind = "link")
    BY <1>5
  <2>7. Done(t) => Quiet(t) \/ (Done(t) /\ proc[t].at = "answer")
    BY <1>6
  <2>8. \/ Quiet(t)
        \/ LookUp(t) /\ Admits(proc[t].token)
        \/ PickDevice(t) /\ proc[t].kind = "link"
        \/ Insert(t) \/ Burn(t)
        \/ (Done(t) \/ Lose(t)) /\ proc[t].at = "answer"
    BY <2>1, <2>2, <2>3, <2>4, <2>5, <2>6, <2>7
  <2>. QED
    BY <2>8
<1>. QED
  BY <1>1, <1>7

\* The steps of a thread that start or end something.
LEMMA LoudOInv ==
  ASSUME IInv, OInv, Next, NEW t \in Threads,
         \/ /\ LookUp(t) /\ Admits(proc[t].token)
         \/ PickDevice(t) /\ proc[t].kind = "link"
         \/ Insert(t) \/ Burn(t)
         \/ (Done(t) \/ Lose(t)) /\ proc[t].at = "answer"
  PROVE  OInv'
<1>0. /\ proc \in [Threads -> Procs] /\ Route(proc[t]) /\ links \in [Tokens -> Links]
      /\ answered \in [Tokens -> 0 .. 2] /\ overlapped \subseteq overlapped' /\ TypeOK'
      /\ \A v \in Threads : proc[v].kind = "bake" => proc[v].token = NoToken
      /\ Idle.at = "idle" /\ Idle.kind = "fetch" /\ NoToken \notin Tokens
      /\ NoLink.expires = 0 /\ NoLink.consumed
  BY ProcsTyped, NoTokenIsNone, StepTypeOK DEF IInv, TypeOK, ThreadInv, Next, Watch, OInv, Idle, NoLink
<1>1. \A v \in Threads \ {t} : proc'[v] = proc[v]
  BY <1>0 DEF LookUp, PickDevice, Insert, Burn, Done, Lose, If, Goto
<1>2. \A v \in Threads \ {t}, k \in Tokens :
        /\ Inserting(v, k)' <=> Inserting(v, k)
        /\ Bringing(v, k)' <=> Bringing(v, k)
        /\ Fetching(v, k)' <=> Fetching(v, k)
  BY <1>1 DEF Inserting, Bringing, Fetching
<1>3. CASE LookUp(t) /\ Admits(proc[t].token)
  <2>0. PICK k \in Tokens : k = proc[t].token
    BY <1>0, <1>3 DEF LookUp, Route
  <2>1. /\ proc'[t] = [proc[t] EXCEPT !.at = "device"] /\ proc[t].kind = "fetch" /\ proc[t].at = "look"
        /\ k \in Tokens /\ UNCHANGED <<links, answered, lost>>
        /\ links[k] # NoLink /\ ~links[k].consumed
    BY <1>0, <1>3, <2>0 DEF LookUp, If, Goto, Admits, Route, told
  <2>2. /\ Fetching(t, k)' /\ \A j \in Tokens : ~Inserting(t, j)' /\ ~Bringing(t, j)'
        /\ \A j \in Tokens \ {k} : ~Fetching(t, j)'
        /\ proc'[t].kind = "fetch"
    BY <1>0, <2>0, <2>1 DEF Fetching, Inserting, Bringing, Procs
  <2>3. answered[k] = 0 /\ k \notin lost /\ \A v \in Threads : ~Bringing(v, k)
    BY <1>0, <2>1 DEF OInv, LinkInv
  <2>4. k \notin overlapped' => \A v \in Threads \ {t} : ~Fetching(v, k)'
    BY <2>1, <2>2 DEF Next, Watch
  <2>5. \A j \in Tokens : LinkInv(j)'
    BY <1>2, <2>1, <2>2 DEF OInv, LinkInv
  <2>6. Once(k)'
    BY <1>2, <2>1, <2>2, <2>3, <2>4 DEF Once, Under
  <2>7. \A j \in Tokens \ {k} : Once(j)'
    BY <1>0, <1>2, <2>1, <2>2 DEF OInv, Once, Under
  <2>. QED
    BY <1>0, <1>1, <2>2, <2>5, <2>6, <2>7 DEF OInv
<1>4. CASE PickDevice(t) /\ proc[t].kind = "link"
  <2>1. CASE Goto(t, "refused") /\ UNCHANGED <<links, told>>
    <3>1. proc'[t] = [proc[t] EXCEPT !.at = "refused"] /\ proc'[t].kind = "link" /\ proc'[t].at = "refused"
      BY <1>0, <1>4, <2>1 DEF Goto, Procs
    <3>2. Quiet(t)
      BY <1>1, <2>1, <3>1 DEF Quiet, Inserting, Bringing, Fetching
    <3>. QED
      BY <3>2, QuietOInv DEF Next
  <2>2. ASSUME NEW k \in Tokens, Fresh(k), UNCHANGED <<links, told>>,
               proc' = [proc EXCEPT ![t].at = "insert", ![t].token = k, ![t].now = clock]
        PROVE  OInv'
    <3>1. proc'[t] = [proc[t] EXCEPT !.at = "insert", !.token = k, !.now = clock]
      BY <1>0, <2>2
    <3>2. proc'[t].at = "insert" /\ proc'[t].token = k /\ proc'[t].kind = "link"
      BY <1>0, <1>4, <3>1 DEF Procs
    <3>3. /\ Inserting(t, k)' /\ \A j \in Tokens : ~Bringing(t, j)' /\ ~Fetching(t, j)'
          /\ \A j \in Tokens \ {k} : ~Inserting(t, j)'
      BY <3>2 DEF Inserting, Bringing, Fetching
    <3>4. links[k] = NoLink /\ \A v \in Threads : ~Inserting(v, k)
      BY <2>2 DEF Fresh, Used, Inserting
    <3>5. answered' = answered /\ lost' = lost /\ links' = links
      BY <2>2 DEF told
    <3>6. \A j \in Tokens : LinkInv(j)'
      BY <1>2, <3>3, <3>4, <3>5 DEF OInv, LinkInv
    <3>7. \A j \in Tokens : Once(j)'
      BY <1>0, <1>2, <3>3, <3>5 DEF OInv, Once, Under
    <3>. QED
      BY <1>0, <1>1, <3>2, <3>6, <3>7 DEF OInv
  <2>. QED
    BY <1>4, <2>1, <2>2 DEF PickDevice
<1>5. CASE Insert(t)
  <2>0. PICK k \in Tokens : k = proc[t].token
    BY <1>0, <1>5 DEF Insert, Route
  <2>1. /\ proc'[t] = Idle /\ k \in Tokens /\ Inserting(t, k) /\ UNCHANGED <<answered, lost>>
        /\ links' = [links EXCEPT ![k] = Link(proc[t].now)]
    BY <1>0, <1>5, <2>0 DEF Insert, Route, told, Inserting
  <2>2. \A j \in Tokens : ~Inserting(t, j)' /\ ~Bringing(t, j)' /\ ~Fetching(t, j)'
    BY <1>0, <2>0, <2>1 DEF Inserting, Bringing, Fetching
  <2>3. links[k] = NoLink /\ \A v \in Threads \ {t} : ~Inserting(v, k)
    BY <2>1 DEF OInv, LinkInv
  <2>4. links'[k].expires > 0 /\ \A j \in Tokens \ {k} : links'[j] = links[j]
    <3>1. proc[t].now \in Nat
      BY <1>0, BoundsAreNaturals DEF Procs, Time
    <3>2. links'[k] = Link(proc[t].now)
      BY <1>0, <2>1
    <3>. QED
      BY <1>0, <2>1, <3>1, <3>2, BoundsAreNaturals DEF Link
  <2>5. LinkInv(k)'
    <3>1. links'[k] # NoLink
      BY <1>0, <2>4
    <3>2. answered[k] \in Nat /\ ~(answered[k] > 0) /\ k \notin lost
          /\ \A v \in Threads : ~Bringing(v, k) /\ ~Fetching(v, k)
      BY <1>0, <2>1, <2>3 DEF OInv, LinkInv
    <3>. QED
      BY <1>2, <2>1, <2>2, <2>3, <2>4, <3>1, <3>2 DEF LinkInv
  <2>6. \A j \in Tokens \ {k} : LinkInv(j)'
    BY <1>2, <2>1, <2>2, <2>4 DEF OInv, LinkInv
  <2>7. \A j \in Tokens : Once(j)'
    BY <1>0, <1>2, <2>1, <2>2 DEF OInv, Once, Under
  <2>. QED
    BY <1>0, <1>1, <2>1, <2>5, <2>6, <2>7 DEF OInv
<1>6. CASE Burn(t)
  <2>0. PICK k \in Tokens : k = proc[t].token
    BY <1>0, <1>6 DEF Burn, Route
  <2>1. /\ proc'[t] = [proc[t] EXCEPT !.at = "answer"] /\ proc[t].at = "burn" /\ proc[t].kind = "fetch"
        /\ k \in Tokens /\ UNCHANGED <<answered, lost>>
        /\ links' = [links EXCEPT ![k].consumed = TRUE]
    BY <1>0, <1>6, <2>0 DEF Burn, Goto, Route, told, Procs, Kinds
  <2>2. /\ Fetching(t, k) /\ Bringing(t, k)'
        /\ \A j \in Tokens : ~Inserting(t, j)' /\ ~Fetching(t, j)'
        /\ \A j \in Tokens \ {k} : ~Bringing(t, j)'
        /\ proc'[t].kind = "fetch"
    BY <1>0, <2>0, <2>1 DEF Inserting, Bringing, Fetching, Procs
  <2>3. links[k] # NoLink /\ links[k].expires > 0 /\ \A v \in Threads : ~Inserting(v, k)
    BY <2>1, <2>2 DEF OInv, LinkInv
  <2>4. /\ links'[k].consumed /\ links'[k].expires = links[k].expires
        /\ \A j \in Tokens \ {k} : links'[j] = links[j]
    BY <1>0, <2>1 DEF Links
  <2>5. LinkInv(k)'
    <3>1. links'[k] # NoLink
      BY <1>0, <2>3, <2>4
    <3>2. links'[k].expires > 0
      BY <2>3, <2>4
    <3>3. \A v \in Threads : ~Inserting(v, k)'
      BY <1>2, <2>2, <2>3
    <3>. QED
      BY <2>4, <3>1, <3>2, <3>3 DEF LinkInv
  <2>6. \A j \in Tokens \ {k} : LinkInv(j)'
    BY <1>2, <2>1, <2>2, <2>4 DEF OInv, LinkInv
  <2>7. \A j \in Tokens, v \in Threads : Under(v, j)' => Under(v, j)
    BY <1>2, <2>2 DEF Under
  <2>8. \A j \in Tokens : Once(j)'
    BY <1>0, <2>1, <2>7 DEF OInv, Once
  <2>. QED
    BY <1>0, <1>1, <2>1, <2>2, <2>5, <2>6, <2>8 DEF OInv
<1>7. CASE (Done(t) \/ Lose(t)) /\ proc[t].at = "answer"
  <2>0. PICK k \in Tokens \cup {NoToken} : k = proc[t].token
    BY <1>0 DEF Procs
  <2>1. proc'[t] = Idle /\ links' = links
    BY <1>0, <1>7 DEF Done, Lose
  <2>2. \A j \in Tokens : ~Inserting(t, j)' /\ ~Bringing(t, j)' /\ ~Fetching(t, j)'
    BY <1>0, <2>0, <2>1 DEF Inserting, Bringing, Fetching
  <2>3. k \in Tokens => Bringing(t, k)
    BY <1>7, <2>0 DEF Bringing
  <2>4. /\ \A j \in Tokens \ {k} : answered'[j] = answered[j] /\ (j \in lost' <=> j \in lost)
        /\ k \in Tokens => \/ lost' = lost /\ answered'[k] = IF answered[k] = 2 THEN 2 ELSE answered[k] + 1
                           \/ answered' = answered /\ lost' = lost \cup {k}
    <3>1. CASE Done(t)
      BY <1>0, <1>7, <2>0, <3>1 DEF Done
    <3>2. CASE Lose(t)
      BY <1>0, <2>0, <3>2 DEF Lose
    <3>. QED
      BY <1>7, <3>1, <3>2
  <2>5. ASSUME NEW j \in Tokens PROVE LinkInv(j)' /\ Once(j)'
    <3>1. LinkInv(j) /\ Once(j) /\ answered[j] \in 0 .. 2
      BY <1>0 DEF OInv
    <3>2. CASE j # k
      BY <1>0, <1>2, <2>1, <2>2, <2>4, <3>1, <3>2 DEF LinkInv, Once, Under
    <3>3. CASE j = k
      <4>1. links[j].consumed /\ links[j] # NoLink
        BY <2>3, <3>1, <3>3 DEF LinkInv
      <4>2. LinkInv(j)'
        BY <1>2, <2>1, <2>2, <3>1, <4>1 DEF LinkInv
      <4>3. SUFFICES ASSUME j \notin overlapped'
                     PROVE  /\ \A v \in Threads : ~Under(v, j)'
                            /\ answered'[j] <= 1 /\ (answered'[j] = 0 \/ j \notin lost')
        BY <4>2 DEF Once
      <4>4. /\ answered[j] = 0 /\ j \notin lost
            /\ \A v \in Threads \ {t} : ~Under(v, j)
        BY <1>0, <2>3, <3>1, <3>3, <4>3 DEF Once, Under
      <4>. QED
        BY <1>2, <2>2, <2>4, <3>3, <4>4 DEF Under
    <3>. QED
      BY <3>2, <3>3
  <2>. QED
    BY <1>0, <1>1, <2>1, <2>5 DEF OInv
<1>. QED
  BY <1>3, <1>4, <1>5, <1>6, <1>7

LEMMA StepOInv == IInv /\ OInv /\ [Next]_vars => OInv'
<1>. SUFFICES ASSUME IInv, OInv, [Next]_vars PROVE OInv'
  OBVIOUS
<1>1. CASE Next
  <2>1. CASE UNCHANGED <<links, told, proc>>
    <3>1. overlapped \subseteq overlapped'
      BY <1>1 DEF Next, Watch
    <3>. QED
      BY <2>1, <3>1 DEF OInv, LinkInv, Once, Under, Fetching, Bringing, Inserting, told
  <2>2. ASSUME NEW t \in Threads, Quiet(t) PROVE OInv'
    BY <1>1, <2>2, QuietOInv DEF Next
  <2>. QED
    BY <1>1, <2>1, <2>2, StepQuiet, LoudOInv
<1>2. CASE UNCHANGED vars
  BY <1>2 DEF vars, OInv, LinkInv, Once, Under, Fetching, Bringing, Inserting, told
<1>. QED
  BY <1>1, <1>2

\* consume_installer_token: without two fetches between lookup and burn at the
\* same time, a link brings its password at most once.
THEOREM FetchedOnce == Spec => []OnceUnlessOverlapped
<1>1. IInv /\ OInv => OnceUnlessOverlapped
  <2>. SUFFICES ASSUME IInv, OInv, NEW k \in Tokens \ overlapped
                PROVE  answered[k] + (IF k \in lost THEN 1 ELSE 0)
                         + Cardinality({t \in Threads : proc[t].at = "answer" /\ proc[t].token = k}) <= 1
    BY DEF OnceUnlessOverlapped
  <2>. DEFINE S == {t \in Threads : proc[t].at = "answer" /\ proc[t].token = k}
  <2>1. Once(k) /\ answered[k] \in 0 .. 2
    BY DEF OInv, IInv, TypeOK
  <2>2. S = {} => Cardinality(S) = 0
    BY FS_EmptySet
  <2>3. ASSUME NEW t \in S PROVE S = {t} /\ answered[k] = 0 /\ k \notin lost
    BY <2>1, <2>3 DEF Once, Under, Bringing
  <2>4. ASSUME NEW t \in S PROVE Cardinality(S) = 1
    BY <2>3, <2>4, FS_Singleton
  <2>6. answered[k] <= 1 /\ (answered[k] = 0 \/ k \notin lost)
    BY <2>1 DEF Once
  <2>. HIDE DEF S
  <2>5. answered[k] + (IF k \in lost THEN 1 ELSE 0) + Cardinality(S) <= 1
    <3>1. CASE S = {}
      BY <2>1, <2>2, <2>6, <3>1
    <3>2. CASE S # {}
      BY <2>3, <2>4, <3>2
    <3>. QED
      BY <3>1, <3>2
  <2>. QED
    BY <2>5 DEF S
<1>. QED
  BY <1>1, InitIInv, StepIInv, InitOInv, StepOInv, PTL DEF Spec
=============================================================================
