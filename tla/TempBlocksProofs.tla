-------------------------- MODULE TempBlocksProofs --------------------------
(***************************************************************************)
(* For any users, addresses, processes, blocks, times and troubles: types, *)
(* every rule is accounted for, and a block holds until it is due.         *)
(*                                                                         *)
(* The argument counts: an address is owed one removal by each timer that  *)
(* has yet to remove a rule, each event loop that is about to start such a *)
(* timer, and each timer that ended without.  It has no more rules than    *)
(* that, and exactly as many unless a rule could not be added; so while a  *)
(* block lasts its address has a rule, whichever timers took theirs away.  *)
(***************************************************************************)
EXTENDS TempBlocks, FiniteSetTheorems, TLAPS

Busy == {"client", "row", "rule", "timer"}

AtTimer(a) == {w \in Workers : proc[w].at = "timer" /\ proc[w].ip = a}

\* How many rules of the address are still to be removed, or never will be.
Owed(a) == leaked[a] + Cardinality(Removers(a)) + Cardinality(AtTimer(a))

\* The blocks that have come to their rule.
RuleBegun == {n \in 1 .. blocks :
                \A w \in Workers : proc[w].at \in {"client", "row", "rule"} => proc[w].no # n}

Procs  == [at : {"idle", "recover"} \cup Busy, user : Users \cup {Nobody}, ip : Sources,
           todo : SUBSET Users, no : 0 .. MaxBlocks]
Timers == [at : {"none", "wait", "rule", "done"}, user : Users \cup {Nobody}, ip : Sources,
           due : 0 .. MaxTime, worker : Workers \cup {Nobody}]

\* TypeOK without the bounds on what is counted.
Types ==
  /\ clock \in 0 .. MaxTime
  /\ online \in [Users -> BOOLEAN] /\ address \in [Users -> Addresses]
  /\ reject \subseteq Users
  /\ rules \in [Addresses -> Nat]
  /\ built \subseteq Workers
  /\ proc \in [Workers -> Procs] /\ timers \in [Numbers -> Timers]
  /\ blocks \in 0 .. MaxBlocks
  /\ rowLost \subseteq Users /\ ruleLost \subseteq Addresses /\ stuck \subseteq Users
  /\ leaked \in [Addresses -> Nat]
  /\ trouble \in 0 .. MaxTrouble

\* An event loop with a block has a number of its own, with no timer yet, and
\* its timer will be due within the bound on the time.
Loops ==
  /\ \A w \in Workers :
       /\ proc[w].at \in Busy =>
            /\ proc[w].user \in Users /\ proc[w].ip \in Addresses
            /\ proc[w].no \in 1 .. blocks /\ timers[proc[w].no] = NoTimer
            /\ clock + BlockFor <= MaxTime
       /\ proc[w].at \in {"rule", "timer"} => proc[w].user \in reject \cup rowLost
  /\ \A v, w \in Workers :
       {proc[v].at, proc[w].at} \subseteq Busy /\ proc[v].no = proc[w].no => v = w

\* A timer that has started, and the block that it ends.
Started(n) ==
  /\ timers[n].at = "none" => timers[n] = NoTimer
  /\ timers[n].at # "none" =>
       n \in 1 .. blocks /\ timers[n].user \in Users /\ timers[n].ip \in Addresses
  /\ timers[n].at = "rule" => timers[n].due <= clock
  /\ timers[n].at = "done" => leaked[timers[n].ip] >= 1
  /\ timers[n].at # "none" /\ clock < timers[n].due => timers[n].user \in reject \cup rowLost

Counted(a) ==
  /\ rules[a] <= Owed(a)
  /\ a \notin ruleLost => rules[a] = Owed(a)
  /\ Owed(a) <= Cardinality(RuleBegun)

IInv == /\ Types /\ Loops
        /\ \A n \in Numbers : Started(n)
        /\ \A a \in Addresses : Counted(a)

-----------------------------------------------------------------------------
(* Records and finite sets.                                                *)

\* What an event loop's record becomes.
LEMMA LoopGoes ==
  ASSUME Types, NEW w \in Workers, NEW at \in {"idle", "recover"} \cup Busy, Goto(w, at)
  PROVE  /\ proc' \in [Workers -> Procs] /\ proc'[w].at = at
         /\ proc'[w].user = proc[w].user /\ proc'[w].ip = proc[w].ip
         /\ proc'[w].todo = proc[w].todo /\ proc'[w].no = proc[w].no
         /\ \A v \in Workers \ {w} : proc'[v] = proc[v]
BY DEF Types, Goto, Procs

LEMMA LoopFinishes ==
  ASSUME Types, NEW w \in Workers, Finish(w)
  PROVE  /\ proc' \in [Workers -> Procs] /\ proc'[w] = Idle /\ Idle.at = "idle"
         /\ \A v \in Workers \ {w} : proc'[v] = proc[v]
BY BoundsAreNaturals DEF Types, Finish, Idle, Procs, Sources

\* A timer that does nothing.
LEMMA NoTimerIsNone == NoTimer \in Timers /\ NoTimer.at = "none" /\ NoTimer.user = Nobody
                       /\ NoTimer.due = 0
BY BoundsAreNaturals DEF NoTimer, Timers, Sources

\* A timer that ends.
LEMMA TimerEnds ==
  ASSUME Types, NEW n \in Numbers
  PROVE  /\ Ended(n) \in Timers
         /\ IF clock < timers[n].due
            THEN /\ Ended(n).at = "done" /\ Ended(n).user = timers[n].user
                 /\ Ended(n).ip = timers[n].ip /\ Ended(n).due = timers[n].due
            ELSE Ended(n) = NoTimer
<1>1. timers[n] \in Timers
  BY DEF Types
<1>. QED
  BY <1>1, NoTimerIsNone DEF Ended, Timers

\* What is counted is finite.
LEMMA Finite ==
  ASSUME Types, NEW a
  PROVE  /\ IsFiniteSet(Removers(a)) /\ Cardinality(Removers(a)) \in Nat
         /\ IsFiniteSet(AtTimer(a)) /\ Cardinality(AtTimer(a)) \in Nat
         /\ IsFiniteSet(RuleBegun) /\ Cardinality(RuleBegun) \in Nat
         /\ Cardinality(RuleBegun) <= MaxBlocks
<1>1. IsFiniteSet(1 .. MaxBlocks) /\ Cardinality(1 .. MaxBlocks) = MaxBlocks
  BY FS_Interval, BoundsAreNaturals
<1>2. Removers(a) \subseteq 1 .. MaxBlocks /\ AtTimer(a) \subseteq Workers
  BY DEF Removers, AtTimer, Numbers
<1>3. RuleBegun \subseteq 1 .. MaxBlocks
  BY BoundsAreNaturals DEF RuleBegun, Types
<1>4. IsFiniteSet(Removers(a)) /\ IsFiniteSet(AtTimer(a))
  BY <1>1, <1>2, FS_Subset, WorkersAreFinite
<1>5. IsFiniteSet(RuleBegun) /\ Cardinality(RuleBegun) <= MaxBlocks
  BY <1>1, <1>3, FS_Subset
<1>. QED
  BY <1>4, <1>5, FS_CardinalityType

-----------------------------------------------------------------------------
(* Types.                                                                  *)

LEMMA InitIInv == Init => IInv
<1>. SUFFICES ASSUME Init PROVE IInv
  OBVIOUS
<1>1. Idle \in Procs /\ Idle.at = "idle"
  BY BoundsAreNaturals DEF Idle, Procs, Sources
<1>2. Types
  <2>1. proc \in [Workers -> Procs] /\ timers \in [Numbers -> Timers]
    BY <1>1, NoTimerIsNone DEF Init
  <2>2. /\ online \in [Users -> BOOLEAN] /\ address \in [Users -> Addresses]
        /\ rules \in [Addresses -> Nat] /\ leaked \in [Addresses -> Nat]
    BY DEF Init
  <2>3. clock \in 0 .. MaxTime /\ blocks \in 0 .. MaxBlocks /\ trouble \in 0 .. MaxTrouble
    BY BoundsAreNaturals DEF Init
  <2>. QED
    BY <2>1, <2>2, <2>3 DEF Init, Types
<1>3. Loops
  BY <1>1 DEF Init, Loops, Busy
<1>4. \A n \in Numbers : Started(n)
  BY NoTimerIsNone DEF Init, Started
<1>5. ASSUME NEW a \in Addresses PROVE Counted(a)
  <2>1. Removers(a) = {} /\ AtTimer(a) = {} /\ rules[a] = 0 /\ leaked[a] = 0
    BY <1>1, NoTimerIsNone DEF Init, Removers, AtTimer
  <2>2. Owed(a) = 0
    BY <2>1, FS_EmptySet DEF Owed
  <2>. QED
    BY <1>2, <2>1, <2>2, Finite DEF Counted
<1>. QED
  BY <1>2, <1>3, <1>4, <1>5 DEF IInv

\* A step of an event loop, or the end of its process.
LEMMA LoopTypes ==
  ASSUME IInv, NEW w \in Workers,
         \/ Stop(w) \/ Loop(w) \/ \E u \in Users : LookUp(w, u)
  PROVE  Types'
<1>. USE BoundsAreNaturals DEF IInv
<1>0. proc[w] \in Procs
  BY DEF Types
<1>1. CASE Stop(w)
  <2>1. timers' \in [Numbers -> Timers]
    BY <1>1, TimerEnds DEF Stop, Types
  <2>2. leaked' \in [Addresses -> Nat]
    <3>. DEFINE mine == {n \in Numbers : timers[n].worker = w}
                Left(a) == Cardinality(Removers(a) \cap mine)
                           + (IF proc[w].at = "timer" /\ proc[w].ip = a THEN 1 ELSE 0)
    <3>1. ASSUME NEW a \in Addresses PROVE Cardinality(Removers(a) \cap mine) \in Nat
      BY Finite, FS_Intersection, FS_CardinalityType
    <3>2. \A a \in Addresses : Left(a) \in Nat
      BY <3>1
    <3>3. leaked' = [a \in Addresses |-> leaked[a] + Left(a)]
      BY <1>1 DEF Stop
    <3>. HIDE DEF Left
    <3>. QED
      BY <3>2, <3>3 DEF Types
  <2>3. proc' \in [Workers -> Procs] /\ trouble' \in 0 .. MaxTrouble
    BY <1>1, LoopFinishes DEF Stop, Trouble, Types
  <2>. QED
    BY <1>1, <2>1, <2>2, <2>3 DEF Stop, device, Types
<1>2. CASE Start(w)
  <2>1. proc' \in [Workers -> Procs]
    <3>1. [Idle EXCEPT !.at = "recover", !.todo = reject] \in Procs
      <4>1. Idle \in Procs
        BY DEF Procs, Idle, Sources
      <4>. QED
        BY <4>1 DEF Types, Procs
    <3>. QED
      BY <1>2, <3>1 DEF Start, Types
  <2>. QED
    BY <1>2, <2>1 DEF Start, device, history, Types
<1>3. CASE Recover(w)
  <2>1. \A rest : proc' = [proc EXCEPT ![w].todo = rest] /\ rest \subseteq Users => proc' \in [Workers -> Procs]
    BY DEF Types, Procs
  <2>2. proc' \in [Workers -> Procs]
    BY <1>0, <1>3, <2>1, LoopFinishes DEF Recover, Procs
  <2>3. /\ reject' \subseteq Users /\ rowLost' \subseteq Users /\ stuck' \subseteq Users
        /\ built' \subseteq Workers /\ trouble' \in 0 .. MaxTrouble
    BY <1>0, <1>3 DEF Recover, Trouble, NoFailure, Types, Procs
  <2>. QED
    BY <1>3, <2>2, <2>3 DEF Recover, device, Types
<1>4. ASSUME NEW u \in Users, LookUp(w, u) PROVE Types'
  <2>1. blocks' \in 0 .. MaxBlocks
    BY <1>4 DEF LookUp, Types
  <2>2. [at |-> "client", user |-> u, todo |-> {}, ip |-> address[u], no |-> blocks'] \in Procs
    BY <2>1 DEF Types, Procs, Busy, Sources
  <2>. QED
    BY <1>4, <2>1, <2>2 DEF LookUp, device, history, Types
<1>5. CASE Disconnect(w)
  <2>1. proc' \in [Workers -> Procs]
    BY <1>5, LoopFinishes, LoopGoes DEF Disconnect, Busy
  <2>2. online' \in [Users -> BOOLEAN]
    BY <1>5 DEF Disconnect, Types
  <2>3. trouble' \in 0 .. MaxTrouble
    BY <1>5 DEF Disconnect, Trouble, NoFailure, Types
  <2>. QED
    BY <1>5, <2>1, <2>2, <2>3 DEF Disconnect, history, Types
<1>6. CASE AddRow(w)
  <2>1. proc' \in [Workers -> Procs] /\ proc[w].user \in Users
    BY <1>6, LoopFinishes, LoopGoes DEF AddRow, Loops, Busy
  <2>2. reject' \subseteq Users /\ rowLost' \subseteq Users /\ trouble' \in 0 .. MaxTrouble
    BY <1>6, <2>1 DEF AddRow, Trouble, NoFailure, Types
  <2>. QED
    BY <1>6, <2>1, <2>2 DEF AddRow, device, Types
<1>7. CASE AddRule(w)
  <2>1. proc' \in [Workers -> Procs] /\ proc[w].ip \in Addresses
    BY <1>7, LoopGoes DEF AddRule, Loops, Busy
  <2>2. rules' \in [Addresses -> Nat] /\ ruleLost' \subseteq Addresses /\ trouble' \in 0 .. MaxTrouble
    BY <1>7, <2>1 DEF AddRule, Trouble, NoFailure, Types
  <2>. QED
    BY <1>7, <2>1, <2>2 DEF AddRule, device, Types
<1>8. CASE StartTimer(w)
  <2>1. proc' \in [Workers -> Procs]
    BY <1>8, LoopFinishes DEF StartTimer
  <2>2. clock + BlockFor \in 0 .. MaxTime
    BY <1>8 DEF StartTimer, Loops, Busy, Types
  <2>3. [at |-> "wait", user |-> proc[w].user, ip |-> proc[w].ip, due |-> clock + BlockFor,
         worker |-> w] \in Timers
    BY <1>0, <2>2 DEF Timers, Procs
  <2>. QED
    BY <1>8, <2>1, <2>3 DEF StartTimer, device, history, Types
<1>. QED
  BY <1>1, <1>2, <1>3, <1>4, <1>5, <1>6, <1>7, <1>8 DEF Loop

LEMMA StepTypes == IInv /\ [Next]_vars => Types'
<1>. SUFFICES ASSUME IInv, [Next]_vars PROVE Types'
  OBVIOUS
<1>. USE BoundsAreNaturals DEF IInv
<1>1. CASE UNCHANGED vars
  BY <1>1 DEF vars, device, history, Types
<1>2. CASE Tick
  BY <1>2 DEF Tick, device, history, Types
<1>3. ASSUME NEW u \in Users, Connect(u) \/ Move(u) \/ Rewrite(u) PROVE Types'
  <2>1. CASE Connect(u)
    BY <2>1 DEF Connect, history, Types
  <2>2. CASE Move(u)
    BY <2>2 DEF Move, Trouble, history, Types
  <2>3. CASE Rewrite(u)
    BY <2>3 DEF Rewrite, Trouble, device, Types
  <2>. QED
    BY <1>3, <2>1, <2>2, <2>3
<1>4. ASSUME NEW w \in Workers, Stop(w) \/ Loop(w) \/ \E u \in Users : LookUp(w, u) PROVE Types'
  BY <1>4, LoopTypes
<1>5. ASSUME NEW n \in Numbers, RemoveRow(n) PROVE Types'
  <2>1. timers[n] \in Timers /\ timers[n].user \in Users /\ timers[n].ip \in Addresses
    BY <1>5 DEF RemoveRow, Due, Started, Types
  <2>2. timers' \in [Numbers -> Timers]
    BY <1>5, <2>1, TimerEnds DEF RemoveRow, Types, Timers
  <2>3. leaked' \in [Addresses -> Nat] /\ trouble' \in 0 .. MaxTrouble
    BY <1>5, <2>1 DEF RemoveRow, Trouble, NoFailure, Types
  <2>4. reject' \subseteq Users /\ rowLost' \subseteq Users /\ stuck' \subseteq Users
    BY <1>5, <2>1 DEF RemoveRow, Types
  <2>. QED
    BY <1>5, <2>2, <2>3, <2>4 DEF RemoveRow, device, Types
<1>6. ASSUME NEW n \in Numbers, RemoveRule(n) PROVE Types'
  <2>1. timers[n] \in Timers /\ timers[n].ip \in Addresses
    BY <1>6 DEF RemoveRule, Started, Types
  <2>2. timers' \in [Numbers -> Timers]
    BY <1>6, TimerEnds DEF RemoveRule, Types
  <2>3. leaked' \in [Addresses -> Nat] /\ rules' \in [Addresses -> Nat] /\ trouble' \in 0 .. MaxTrouble
    BY <1>6, <2>1 DEF RemoveRule, Trouble, NoFailure, Types
  <2>. QED
    BY <1>6, <2>2, <2>3 DEF RemoveRule, device, Types
<1>. QED
  BY <1>1, <1>2, <1>3, <1>4, <1>5, <1>6 DEF Next, Timer

-----------------------------------------------------------------------------
(* Event loops and timers.                                                 *)

\* The row of a user with a block goes only by somebody else's hand.
LEMMA StillOut ==
  ASSUME IInv, [Next]_vars, NEW u \in reject \cup rowLost, Blocked(u)
  PROVE  u \in reject' \cup rowLost'
<1>1. CASE UNCHANGED <<reject, rowLost>>
  BY <1>1
<1>2. ASSUME NEW v \in Users, Rewrite(v) PROVE u \in reject' \cup rowLost'
  BY <1>2 DEF Rewrite
<1>3. ASSUME NEW w \in Workers, Recover(w) \/ AddRow(w) PROVE u \in reject' \cup rowLost'
  BY <1>3 DEF Recover, AddRow
<1>4. ASSUME NEW n \in Numbers, RemoveRow(n) PROVE u \in reject' \cup rowLost'
  BY <1>4 DEF RemoveRow
<1>. QED
  BY <1>1, <1>2, <1>3, <1>4 DEF Next, Loop, Timer, vars, history, Tick, Connect, Move, Stop, Start,
     LookUp, Disconnect, AddRule, StartTimer, RemoveRule

\* A step of an event loop: it ends, goes on with its block, or begins one.
LEMMA LoopStep ==
  ASSUME IInv, NEW w \in Workers,
         \/ Stop(w) \/ Loop(w) \/ \E u \in Users : LookUp(w, u)
  PROVE  /\ \A v \in Workers \ {w} : proc'[v] = proc[v]
         /\ clock' = clock
         /\ \/ proc'[w].at \notin Busy /\ blocks' = blocks
            \/ /\ proc'[w].user = proc[w].user /\ proc'[w].ip = proc[w].ip /\ proc'[w].no = proc[w].no
               /\ <<proc[w].at, proc'[w].at>> \in {<<"client", "row">>, <<"row", "rule">>, <<"rule", "timer">>}
               /\ proc'[w].at = "rule" => proc[w].user \in reject'
               /\ UNCHANGED <<timers, blocks>>
            \/ /\ proc'[w].at = "client" /\ proc'[w].no = blocks + 1 /\ blocks' = blocks + 1
               /\ proc'[w].user \in Users /\ proc'[w].ip \in Addresses
               /\ blocks < MaxBlocks /\ clock + BlockFor <= MaxTime
               /\ timers' = timers
<1>. USE DEF IInv, Busy
<1>0. proc \in [Workers -> Procs] /\ proc[w] \in Procs /\ Idle.at = "idle"
  BY DEF Types, Idle
<1>1. CASE Stop(w)
  BY <1>1, LoopFinishes DEF Stop
<1>2. CASE Start(w)
  <2>1. [Idle EXCEPT !.at = "recover", !.todo = reject].at = "recover"
    BY DEF Idle
  <2>. QED
    BY <1>0, <1>2, <2>1 DEF Start, history
<1>3. CASE Recover(w)
  <2>1. CASE Finish(w)
    BY <1>3, <2>1, LoopFinishes DEF Recover
  <2>2. ASSUME NEW rest, proc' = [proc EXCEPT ![w].todo = rest]
        PROVE  proc'[w].at = "recover" /\ \A v \in Workers \ {w} : proc'[v] = proc[v]
    BY <1>0, <1>3, <2>2 DEF Recover, Procs
  <2>. QED
    BY <1>3, <2>1, <2>2 DEF Recover
<1>4. ASSUME NEW u \in Users, LookUp(w, u)
      PROVE  /\ \A v \in Workers \ {w} : proc'[v] = proc[v]
             /\ clock' = clock /\ proc'[w].at = "client" /\ proc'[w].no = blocks + 1
             /\ blocks' = blocks + 1 /\ proc'[w].user \in Users /\ proc'[w].ip \in Addresses
             /\ blocks < MaxBlocks /\ clock + BlockFor <= MaxTime /\ timers' = timers
  BY <1>0, <1>4 DEF LookUp, history, Types
<1>5. CASE Disconnect(w)
  BY <1>5, LoopFinishes, LoopGoes DEF Disconnect, history
<1>6. CASE AddRow(w)
  BY <1>6, LoopFinishes, LoopGoes DEF AddRow
<1>7. CASE AddRule(w)
  BY <1>7, LoopGoes DEF AddRule
<1>8. CASE StartTimer(w)
  BY <1>8, LoopFinishes DEF StartTimer, history
<1>. QED
  BY <1>1, <1>2, <1>3, <1>4, <1>5, <1>6, <1>7, <1>8 DEF Loop

\* Numbers without a timer keep none, but for the one whose timer is started.
LEMMA NoTimerStays ==
  ASSUME IInv, [Next]_vars, NEW n \in Numbers, timers[n] = NoTimer,
         \A w \in Workers : proc[w].no = n => ~StartTimer(w)
  PROVE  timers'[n] = NoTimer
<1>1. CASE timers' = timers
  BY <1>1
<1>2. ASSUME NEW w \in Workers, Stop(w) PROVE timers'[n] = NoTimer
  BY <1>2, TimerEnds, NoTimerIsNone DEF Stop, IInv, Types
<1>3. ASSUME NEW w \in Workers, StartTimer(w) PROVE timers'[n] = NoTimer
  BY <1>3 DEF StartTimer, IInv, Types
<1>4. ASSUME NEW k \in Numbers, Timer(k) PROVE timers'[n] = NoTimer
  <2>1. k # n
    BY <1>4, NoTimerIsNone DEF Timer, RemoveRow, RemoveRule, Due
  <2>. QED
    BY <1>4, <2>1 DEF Timer, RemoveRow, RemoveRule, IInv, Types
<1>. QED
  BY <1>1, <1>2, <1>3, <1>4 DEF Next, Loop, vars, Tick, Connect, Move, Rewrite, Start, Recover,
     LookUp, Disconnect, AddRow, AddRule

\* Event loops keep a number of their own, and their users out.
LEMMA StepLoops == IInv /\ [Next]_vars => Loops'
<1>. SUFFICES ASSUME IInv, [Next]_vars PROVE Loops'
  OBVIOUS
<1>0. Types /\ Loops /\ \A n \in Numbers : Started(n)
  BY DEF IInv
<1>1. ASSUME NEW v \in Workers, proc[v].at \in {"rule", "timer"}
      PROVE  proc[v].user \in reject' \cup rowLost'
  <2>1. proc[v].user \in reject \cup rowLost /\ Blocked(proc[v].user)
    BY <1>0, <1>1 DEF Loops, Blocked
  <2>. QED
    BY <2>1, StillOut
<1>2. ASSUME NEW v \in Workers, proc[v].at \in Busy, ~StartTimer(v)
      PROVE  timers'[proc[v].no] = NoTimer
  <2>1. proc[v].no \in Numbers /\ timers[proc[v].no] = NoTimer
    BY <1>0, <1>2, BoundsAreNaturals DEF Loops, Numbers, Types
  <2>2. \A w \in Workers : proc[w].no = proc[v].no => ~StartTimer(w)
    BY <1>0, <1>2 DEF Loops, StartTimer, Busy
  <2>. QED
    BY <2>1, <2>2, NoTimerStays
<1>3. CASE UNCHANGED <<proc, blocks>> /\ (\A w \in Workers : proc[w].at \in Busy => clock' + BlockFor <= MaxTime)
  <2>1. \A v \in Workers : proc[v].at \in Busy => ~StartTimer(v)
    BY <1>0, <1>3, LoopFinishes DEF StartTimer, Busy
  <2>. QED
    BY <1>0, <1>1, <1>2, <1>3, <2>1 DEF Loops
<1>4. CASE Tick
  BY <1>0, <1>3, <1>4, BoundsAreNaturals DEF Tick, Types, Busy
<1>5. CASE UNCHANGED vars \/ (\E u \in Users : Connect(u) \/ Move(u) \/ Rewrite(u)) \/ \E n \in Numbers : Timer(n)
  BY <1>0, <1>3, <1>5 DEF vars, Connect, Move, Rewrite, Timer, RemoveRow, RemoveRule, Loops
<1>6. ASSUME NEW w \in Workers, Stop(w) \/ Loop(w) \/ \E u \in Users : LookUp(w, u) PROVE Loops'
  <2>1. \A v \in Workers \ {w} : proc'[v] = proc[v] /\ (proc[v].at \in Busy => ~StartTimer(v))
    BY <1>6, LoopStep, LoopFinishes, <1>0 DEF StartTimer, Busy
  <2>2. CASE proc'[w].at \notin Busy /\ blocks' = blocks
    BY <1>0, <1>1, <1>2, <1>6, <2>1, <2>2, LoopStep DEF Loops, Busy
  <2>3. CASE /\ proc'[w].user = proc[w].user /\ proc'[w].ip = proc[w].ip /\ proc'[w].no = proc[w].no
             /\ <<proc[w].at, proc'[w].at>> \in {<<"client", "row">>, <<"row", "rule">>, <<"rule", "timer">>}
             /\ proc'[w].at = "rule" => proc[w].user \in reject'
             /\ UNCHANGED <<timers, blocks>>
    <3>1. proc[w].at \in Busy /\ clock' = clock
      BY <1>6, <2>3, LoopStep DEF Busy
    <3>2. proc'[w].at \in {"rule", "timer"} => proc'[w].user \in reject' \cup rowLost'
      BY <1>1, <2>3
    <3>. QED
      BY <1>0, <1>1, <1>2, <2>1, <2>3, <3>1, <3>2 DEF Loops
  <2>4. CASE /\ proc'[w].at = "client" /\ proc'[w].no = blocks + 1 /\ blocks' = blocks + 1
             /\ proc'[w].user \in Users /\ proc'[w].ip \in Addresses
             /\ blocks < MaxBlocks /\ clock + BlockFor <= MaxTime
             /\ timers' = timers
    <3>1. clock' = clock /\ blocks \in Nat /\ MaxBlocks \in Nat
      BY <1>0, <1>6, LoopStep, BoundsAreNaturals DEF Types
    <3>2. timers[blocks + 1] = NoTimer
      BY <1>0, <2>4, <3>1 DEF Started, Numbers
    <3>3. \A v \in Workers \ {w} : proc[v].at \in Busy =>
            /\ proc[v].no \in 1 .. blocks' /\ proc[v].no # blocks + 1
            /\ proc[v].user \in Users /\ proc[v].ip \in Addresses
            /\ timers'[proc[v].no] = NoTimer /\ clock' + BlockFor <= MaxTime
      BY <1>0, <2>4, <3>1 DEF Loops
    <3>4. blocks + 1 \in 1 .. blocks'
      BY <2>4, <3>1
    <3>. QED
      BY <1>0, <1>1, <2>1, <2>4, <3>1, <3>2, <3>3, <3>4 DEF Loops
  <2>. QED
    BY <1>6, <2>2, <2>3, <2>4, LoopStep
<1>. QED
  BY <1>4, <1>5, <1>6 DEF Next

\* Time passes, blocks are begun and rules are left; none of it is undone.
LEMMA Grows ==
  ASSUME IInv, [Next]_vars
  PROVE  clock <= clock' /\ blocks <= blocks' /\ \A a \in Addresses : leaked[a] <= leaked'[a]
<1>0. /\ clock \in Nat /\ blocks \in Nat /\ leaked \in [Addresses -> Nat]
      /\ leaked' \in [Addresses -> Nat]
  BY StepTypes DEF IInv, Types
<1>1. CASE UNCHANGED <<clock, blocks, leaked>>
  BY <1>0, <1>1
<1>2. CASE Tick
  BY <1>0, <1>2 DEF Tick, history
<1>3. ASSUME NEW w \in Workers, \E u \in Users : LookUp(w, u)
      PROVE  clock' = clock /\ blocks' = blocks + 1 /\ leaked' = leaked
  BY <1>3 DEF LookUp, history
<1>4. ASSUME NEW w \in Workers, Stop(w)
      PROVE  UNCHANGED <<clock, blocks>> /\ \A a \in Addresses : leaked[a] <= leaked'[a]
  <2>. DEFINE mine == {n \in Numbers : timers[n].worker = w}
              Left(a) == Cardinality(Removers(a) \cap mine)
                         + (IF proc[w].at = "timer" /\ proc[w].ip = a THEN 1 ELSE 0)
  <2>1. ASSUME NEW a \in Addresses PROVE Cardinality(Removers(a) \cap mine) \in Nat
    BY Finite, FS_Intersection, FS_CardinalityType DEF IInv
  <2>2. \A a \in Addresses : Left(a) \in Nat
    BY <2>1
  <2>3. leaked' = [a \in Addresses |-> leaked[a] + Left(a)] /\ UNCHANGED <<clock, blocks>>
    BY <1>4 DEF Stop
  <2>. HIDE DEF Left
  <2>. QED
    BY <1>0, <2>2, <2>3
<1>5. ASSUME NEW n \in Numbers, Timer(n)
      PROVE  UNCHANGED <<clock, blocks>> /\ \A a \in Addresses : leaked[a] <= leaked'[a]
  BY <1>0, <1>5 DEF Timer, RemoveRow, RemoveRule
<1>6. ASSUME NEW w \in Workers, Loop(w) PROVE UNCHANGED <<clock, blocks, leaked>>
  BY <1>6 DEF Loop, history, Start, Recover, Disconnect, AddRow, AddRule, StartTimer
<1>7. ASSUME NEW u \in Users, Connect(u) \/ Move(u) \/ Rewrite(u) PROVE UNCHANGED <<clock, blocks, leaked>>
  BY <1>7 DEF history, Connect, Move, Rewrite
<1>. QED
  BY <1>0, <1>1, <1>2, <1>3, <1>4, <1>5, <1>6, <1>7 DEF Next, vars, history

\* A timer that a step leaves alone.
LEMMA KeptStarted ==
  ASSUME IInv, [Next]_vars, NEW n \in Numbers, timers'[n] = timers[n]
  PROVE  Started(n)'
<1>1. Types /\ Types' /\ Started(n)
  BY StepTypes DEF IInv
<1>2. clock <= clock' /\ blocks <= blocks' /\ \A a \in Addresses : leaked[a] <= leaked'[a]
  BY Grows
<1>3. timers[n].due \in Nat /\ clock \in Nat /\ clock' \in Nat /\ blocks \in Nat /\ blocks' \in Nat
  BY <1>1 DEF Types, Timers
<1>4. timers[n].at # "none" /\ clock' < timers[n].due => timers[n].user \in reject' \cup rowLost'
  <2>1. timers[n].at # "none" /\ clock < timers[n].due =>
          timers[n].user \in reject \cup rowLost /\ Blocked(timers[n].user)
    BY <1>1 DEF Started, Blocked
  <2>. QED
    BY <1>2, <1>3, <2>1, StillOut
<1>5. timers[n].at = "done" => leaked'[timers[n].ip] >= 1
  <2>1. \A a \in Addresses : leaked[a] \in Nat /\ leaked'[a] \in Nat
    BY <1>1 DEF Types
  <2>. QED
    BY <1>1, <1>2, <2>1 DEF Started
<1>. QED
  BY <1>1, <1>2, <1>3, <1>4, <1>5 DEF Started

\* A timer that ends, its rule removed, or left when it was not yet due.
LEMMA EndedStarted ==
  ASSUME IInv, [Next]_vars, NEW n \in Numbers, timers'[n] = Ended(n),
         clock' = clock, timers[n].at # "none",
         clock < timers[n].due => leaked'[timers[n].ip] >= 1
  PROVE  Started(n)'
<1>1. Types /\ Started(n) /\ blocks <= blocks' /\ blocks' \in Nat /\ blocks \in Nat
  BY StepTypes, Grows DEF IInv, Types
<1>2. CASE clock < timers[n].due
  <2>1. timers[n].user \in reject' \cup rowLost'
    BY <1>1, <1>2, StillOut DEF Started, Blocked
  <2>2. /\ timers'[n].at = "done" /\ timers'[n].user = timers[n].user
        /\ timers'[n].ip = timers[n].ip /\ timers'[n].due = timers[n].due
    BY <1>1, <1>2, TimerEnds
  <2>. QED
    BY <1>1, <1>2, <2>1, <2>2 DEF Started
<1>3. CASE ~(clock < timers[n].due)
  BY <1>1, <1>3, TimerEnds, NoTimerIsNone DEF Started
<1>. QED
  BY <1>2, <1>3

LEMMA StepStarted == IInv /\ [Next]_vars => \A n \in Numbers : Started(n)'
<1>. SUFFICES ASSUME IInv, [Next]_vars, NEW n \in Numbers PROVE Started(n)'
  OBVIOUS
<1>0. Types /\ Loops /\ Started(n) /\ timers[n] \in Timers
  BY DEF IInv, Types
<1>1. CASE timers'[n] = timers[n]
  BY <1>1, KeptStarted
<1>2. ASSUME NEW w \in Workers, Stop(w), timers'[n] # timers[n] PROVE Started(n)'
  <2>. DEFINE mine == {k \in Numbers : timers[k].worker = w}
              Left(a) == Cardinality(Removers(a) \cap mine)
                         + (IF proc[w].at = "timer" /\ proc[w].ip = a THEN 1 ELSE 0)
  <2>1. n \in mine /\ timers'[n] = Ended(n) /\ clock' = clock
    BY <1>2 DEF Stop
  <2>2. CASE timers[n].at = "none"
    <3>1. timers[n] = NoTimer /\ ~(clock < timers[n].due)
      BY <1>0, <2>2, NoTimerIsNone DEF Started, Types
    <3>. QED
      BY <1>0, <1>2, <2>1, <3>1, TimerEnds
  <2>3. CASE timers[n].at # "none"
    <3>1. ASSUME clock < timers[n].due PROVE leaked'[timers[n].ip] >= 1
      <4>. DEFINE a == timers[n].ip
      <4>1. a \in Addresses /\ leaked[a] \in Nat /\ leaked'[a] \in Nat /\ leaked[a] <= leaked'[a]
        BY <1>0, <2>3, StepTypes, Grows DEF Started, Types
      <4>2. CASE timers[n].at = "done"
        BY <1>0, <4>1, <4>2 DEF Started
      <4>3. CASE timers[n].at # "done"
        <5>1. timers[n].at = "wait"
          BY <1>0, <2>3, <3>1, <4>3 DEF Started, Timers, Types
        <5>2. n \in Removers(a) \cap mine
          BY <2>1, <5>1 DEF Removers
        <5>3. IsFiniteSet(Removers(a) \cap mine)
          BY <1>0, Finite, FS_Intersection
        <5>4. Cardinality(Removers(a) \cap mine) \in Nat /\ Cardinality(Removers(a) \cap mine) # 0
          BY <5>2, <5>3, FS_EmptySet, FS_CardinalityType
        <5>5. leaked'[a] = leaked[a] + Left(a)
          BY <1>2, <4>1 DEF Stop
        <5>6. Left(a) >= 1 /\ Left(a) \in Nat
          BY <5>4
        <5>. HIDE DEF a, Left
        <5>7. QED
          BY <4>1, <5>5, <5>6 DEF a
      <4>. QED
        BY <4>2, <4>3
    <3>. QED
      BY <2>1, <2>3, <3>1, EndedStarted
  <2>. QED
    BY <2>2, <2>3
<1>3. ASSUME NEW w \in Workers, StartTimer(w), timers'[n] # timers[n] PROVE Started(n)'
  <2>1. /\ n = proc[w].no /\ proc[w].at = "timer"
        /\ timers'[n] = [at |-> "wait", user |-> proc[w].user, ip |-> proc[w].ip,
                         due |-> clock + BlockFor, worker |-> w]
        /\ UNCHANGED <<clock, blocks, reject, rowLost>>
    BY <1>0, <1>3 DEF StartTimer, history, Types
  <2>2. proc[w].user \in reject \cup rowLost /\ proc[w].user \in Users /\ proc[w].ip \in Addresses /\ n \in 1 .. blocks
    BY <1>0, <2>1 DEF Loops, Busy
  <2>. QED
    BY <2>1, <2>2 DEF Started
<1>4. ASSUME RemoveRow(n) PROVE Started(n)'
  <2>1. timers[n].at = "wait" /\ timers[n].due <= clock /\ clock' = clock /\ blocks' = blocks
    BY <1>4 DEF RemoveRow, Due
  <2>2. ~(clock < timers[n].due) /\ clock \in Nat /\ timers[n].due \in Nat
    BY <1>0, <2>1 DEF Types, Timers
  <2>3. CASE timers' = [timers EXCEPT ![n].at = "rule"]
    <3>1. /\ timers'[n].at = "rule" /\ timers'[n].user = timers[n].user
          /\ timers'[n].ip = timers[n].ip /\ timers'[n].due = timers[n].due
      BY <1>0, <2>3 DEF Types, Timers
    <3>. QED
      BY <1>0, <2>1, <2>2, <3>1 DEF Started
  <2>4. CASE timers' = [timers EXCEPT ![n] = Ended(n)]
    <3>1. timers'[n] = Ended(n)
      BY <1>0, <2>4 DEF Types
    <3>. QED
      BY <2>1, <2>2, <3>1, EndedStarted
  <2>. QED
    BY <1>4, <2>3, <2>4 DEF RemoveRow
<1>5. ASSUME RemoveRule(n) PROVE Started(n)'
  <2>1. timers'[n] = Ended(n) /\ timers[n].at = "rule" /\ clock' = clock
    BY <1>0, <1>5 DEF RemoveRule, Types
  <2>2. ~(clock < timers[n].due)
    BY <1>0, <2>1 DEF Started, Types, Timers
  <2>. QED
    BY <2>1, <2>2, EndedStarted
<1>6. ASSUME NEW k \in Numbers, Timer(k), k # n PROVE timers'[n] = timers[n]
  BY <1>0, <1>6 DEF Types, Timer, RemoveRow, RemoveRule
<1>. QED
  BY <1>1, <1>2, <1>3, <1>4, <1>5, <1>6 DEF Next, Loop, Timer, vars, Tick, Connect, Move, Rewrite,
     Start, Recover, LookUp, Disconnect, AddRow, AddRule

-----------------------------------------------------------------------------
(* Rules.                                                                  *)

LEMMA BoundIsFinite == IsFiniteSet(1 .. MaxBlocks)
BY FS_Interval, BoundsAreNaturals

\* A block that has come to its rule stays among those that have.
LEMMA BegunGrows ==
  ASSUME IInv, [Next]_vars
  PROVE  RuleBegun \subseteq RuleBegun' /\ Cardinality(RuleBegun) <= Cardinality(RuleBegun')
<1>1. Types /\ Types' /\ blocks \in Nat /\ blocks' \in Nat /\ blocks <= blocks'
  BY StepTypes, Grows DEF IInv, Types
<1>2. ASSUME NEW n \in RuleBegun, NEW w \in Workers, proc'[w].at \in {"client", "row", "rule"}
      PROVE  proc'[w].no # n
  <2>1. n \in 1 .. blocks /\ (proc[w].at \in {"client", "row", "rule"} => proc[w].no # n)
    BY DEF RuleBegun
  <2>2. CASE proc'[w] = proc[w]
    BY <1>2, <2>1, <2>2
  <2>3. ASSUME Stop(w) \/ Loop(w) \/ \E u \in Users : LookUp(w, u) PROVE proc'[w].no # n
    BY <1>1, <1>2, <2>1, <2>3, LoopStep DEF Busy
  <2>4. ASSUME NEW v \in Workers \ {w}, Stop(v) \/ Loop(v) \/ \E u \in Users : LookUp(v, u)
        PROVE  proc'[w] = proc[w]
    BY <2>4, LoopStep
  <2>. QED
    BY <2>2, <2>3, <2>4 DEF Next, vars, Tick, Connect, Move, Rewrite, Timer, RemoveRow, RemoveRule
<1>3. RuleBegun \subseteq RuleBegun'
  BY <1>1, <1>2 DEF RuleBegun
<1>4. IsFiniteSet(RuleBegun')
  <2>1. RuleBegun' \subseteq 1 .. MaxBlocks
    BY <1>1, BoundsAreNaturals DEF RuleBegun, Types
  <2>. QED
    BY <2>1, BoundIsFinite, FS_Subset
<1>. QED
  BY <1>3, <1>4, FS_Subset

\* What an address is owed is a number, before a step and after.
LEMMA OwedIsNat ==
  ASSUME IInv, [Next]_vars, NEW a \in Addresses
  PROVE  /\ Owed(a) \in Nat /\ Owed(a)' \in Nat /\ rules[a] \in Nat /\ rules'[a] \in Nat
         /\ leaked[a] \in Nat /\ leaked'[a] \in Nat
         /\ Cardinality(RuleBegun) \in Nat /\ Cardinality(RuleBegun)' \in Nat
<1>1. Types /\ Types'
  BY StepTypes DEF IInv
<1>3. /\ Removers(a)' \subseteq 1 .. MaxBlocks /\ AtTimer(a)' \subseteq Workers
      /\ RuleBegun' \subseteq 1 .. MaxBlocks
  BY <1>1, BoundsAreNaturals DEF Removers, AtTimer, Numbers, RuleBegun, Types
<1>4. /\ Cardinality(Removers(a)') \in Nat /\ Cardinality(AtTimer(a)') \in Nat
      /\ Cardinality(RuleBegun') \in Nat
  BY <1>3, BoundIsFinite, FS_Subset, FS_CardinalityType, WorkersAreFinite
<1>. QED
  BY <1>1, <1>4, Finite DEF Owed, Types

\* A step by which an address is owed as much as before.
LEMMA SameCounted ==
  ASSUME IInv, [Next]_vars, NEW a \in Addresses,
         Owed(a)' = Owed(a), rules'[a] = rules[a], ruleLost \subseteq ruleLost'
  PROVE  Counted(a)'
BY OwedIsNat, BegunGrows DEF IInv, Counted

\* A step that counts nothing.
LEMMA UntouchedCounted ==
  ASSUME IInv, [Next]_vars, NEW a \in Addresses, UNCHANGED <<leaked, rules, ruleLost>>,
         Removers(a)' = Removers(a), AtTimer(a)' = AtTimer(a)
  PROVE  Counted(a)'
<1>1. Owed(a)' = Owed(a)
  BY DEF Owed
<1>. QED
  BY <1>1, SameCounted

\* An event loop's step before its rule.
LEMMA EarlyCounted ==
  ASSUME IInv, [Next]_vars, NEW w \in Workers, NEW a \in Addresses,
         \/ Start(w) \/ Recover(w) \/ Disconnect(w) \/ AddRow(w) \/ \E u \in Users : LookUp(w, u)
  PROVE  Counted(a)'
<1>1. proc[w].at # "timer" /\ UNCHANGED <<timers, leaked, rules, ruleLost>>
  BY DEF Start, Recover, Disconnect, AddRow, LookUp, history, Idle
<1>2. proc'[w].at # "timer" /\ \A v \in Workers \ {w} : proc'[v] = proc[v]
  <2>1. Stop(w) \/ Loop(w) \/ \E u \in Users : LookUp(w, u)
    BY DEF Loop
  <2>2. proc[w].at # "rule"
    BY DEF Start, Recover, Disconnect, AddRow, LookUp, Idle
  <2>. QED
    BY <2>1, <2>2, LoopStep DEF Busy
<1>3. Removers(a)' = Removers(a) /\ AtTimer(a)' = AtTimer(a)
  BY <1>1, <1>2 DEF Removers, AtTimer
<1>. QED
  BY <1>1, <1>3, UntouchedCounted

\* _block_user counts a rule, or that there is none.
LEMMA AddRuleCounted ==
  ASSUME IInv, [Next]_vars, NEW w \in Workers, NEW a \in Addresses, AddRule(w)
  PROVE  Counted(a)'
<1>0. Types /\ Loops /\ Counted(a) /\ proc[w].at = "rule" /\ UNCHANGED <<timers, blocks, leaked>>
  BY DEF IInv, AddRule
<1>1. /\ proc'[w].at = "timer" /\ proc'[w].ip = proc[w].ip /\ proc'[w].no = proc[w].no
      /\ \A v \in Workers \ {w} : proc'[v] = proc[v]
  BY <1>0, LoopGoes DEF AddRule, Busy
<1>2. Removers(a)' = Removers(a)
  BY <1>0 DEF Removers
<1>3. CASE proc[w].ip # a
  <2>1. AtTimer(a)' = AtTimer(a)
    BY <1>0, <1>1, <1>3 DEF AtTimer
  <2>2. rules'[a] = rules[a] /\ ruleLost \subseteq ruleLost'
    BY <1>0, <1>3 DEF AddRule, Types
  <2>. QED
    BY <1>0, <1>2, <2>1, <2>2, SameCounted DEF Owed
<1>4. CASE proc[w].ip = a
  <2>1. AtTimer(a)' = AtTimer(a) \cup {w} /\ w \notin AtTimer(a)
    BY <1>0, <1>1, <1>4 DEF AtTimer
  <2>2. Owed(a)' = Owed(a) + 1
    <3>1. Cardinality(AtTimer(a) \cup {w}) = Cardinality(AtTimer(a)) + 1
      BY <1>0, <2>1, Finite, FS_AddElement
    <3>. QED
      BY <1>0, <1>2, <2>1, <3>1, Finite DEF Owed, Types
  <2>3. Cardinality(RuleBegun)' >= Cardinality(RuleBegun) + 1
    <3>. DEFINE n == proc[w].no
    <3>1. n \in 1 .. blocks /\ n \notin RuleBegun
      BY <1>0 DEF Loops, RuleBegun, Busy
    <3>2. n \in RuleBegun'
      <4>1. \A v \in Workers : proc'[v].at \in {"client", "row", "rule"} => proc'[v].no # n
        BY <1>0, <1>1 DEF Loops, Busy
      <4>. QED
        BY <1>0, <3>1, <4>1 DEF RuleBegun
    <3>3. RuleBegun \cup {n} \subseteq RuleBegun'
      BY <3>2, BegunGrows
    <3>4. IsFiniteSet(RuleBegun')
      <4>1. RuleBegun' \subseteq 1 .. MaxBlocks
        BY StepTypes, BoundsAreNaturals DEF RuleBegun, Types
      <4>. QED
        BY <4>1, BoundIsFinite, FS_Subset
    <3>5. Cardinality(RuleBegun \cup {n}) = Cardinality(RuleBegun) + 1
      BY <1>0, <3>1, Finite, FS_AddElement
    <3>6. Cardinality(RuleBegun \cup {n}) <= Cardinality(RuleBegun')
      BY <3>3, <3>4, FS_Subset
    <3>. QED
      BY <3>5, <3>6, OwedIsNat
  <2>4. \/ rules'[a] = rules[a] + 1 /\ ruleLost' = ruleLost
        \/ rules'[a] = rules[a] /\ a \in ruleLost'
    BY <1>0, <1>4 DEF AddRule, Types
  <2>. QED
    BY <1>0, <2>2, <2>3, <2>4, OwedIsNat DEF Counted
<1>. QED
  BY <1>3, <1>4

\* Its timer is to remove what the event loop has added.
LEMMA StartTimerCounted ==
  ASSUME IInv, [Next]_vars, NEW w \in Workers, NEW a \in Addresses, StartTimer(w)
  PROVE  Counted(a)'
<1>. DEFINE n == proc[w].no
<1>0. Types /\ Loops /\ proc[w].at = "timer" /\ UNCHANGED <<leaked, rules, ruleLost>>
  BY DEF IInv, StartTimer, history
<1>1. n \in Numbers /\ timers[n] = NoTimer
  BY <1>0, BoundsAreNaturals DEF Loops, Numbers, Types, Busy
<1>2. proc'[w].at = "idle" /\ \A v \in Workers \ {w} : proc'[v] = proc[v]
  BY <1>0, LoopFinishes DEF StartTimer
<1>3. /\ timers'[n].at = "wait" /\ timers'[n].ip = proc[w].ip
      /\ \A k \in Numbers \ {n} : timers'[k] = timers[k]
  BY <1>0, <1>1 DEF StartTimer, Types
<1>4. n \notin Removers(a)
  BY <1>1, NoTimerIsNone DEF Removers
<1>5. CASE proc[w].ip # a
  <2>1. AtTimer(a)' = AtTimer(a)
    BY <1>0, <1>2, <1>5 DEF AtTimer
  <2>2. Removers(a)' = Removers(a)
    BY <1>3, <1>4, <1>5 DEF Removers
  <2>. QED
    BY <1>0, <2>1, <2>2, UntouchedCounted
<1>6. CASE proc[w].ip = a
  <2>1. AtTimer(a)' = AtTimer(a) \ {w} /\ w \in AtTimer(a)
    BY <1>0, <1>2, <1>6 DEF AtTimer
  <2>2. Removers(a)' = Removers(a) \cup {n}
    BY <1>1, <1>3, <1>6 DEF Removers
  <2>3. /\ Cardinality(AtTimer(a) \ {w}) = Cardinality(AtTimer(a)) - 1
        /\ Cardinality(Removers(a) \cup {n}) = Cardinality(Removers(a)) + 1
    BY <1>0, <1>4, <2>1, Finite, FS_AddElement, FS_RemoveElement
  <2>4. Owed(a)' = Owed(a)
    BY <1>0, <2>1, <2>2, <2>3, Finite DEF Owed, Types
  <2>. QED
    BY <1>0, <2>4, SameCounted
<1>. QED
  BY <1>5, <1>6

\* A timer that ends removes its rule or leaves it.
LEMMA TimerCounted ==
  ASSUME IInv, [Next]_vars, NEW n \in Numbers, NEW a \in Addresses, Timer(n)
  PROVE  Counted(a)'
<1>0. Types /\ Counted(a) /\ timers[n].ip \in Addresses /\ UNCHANGED <<proc, ruleLost>>
  BY DEF IInv, Started, Timer, RemoveRow, RemoveRule, Due
<1>1. AtTimer(a)' = AtTimer(a)
  BY <1>0 DEF AtTimer
<1>2. CASE RemoveRow(n) /\ timers' = [timers EXCEPT ![n].at = "rule"] /\ UNCHANGED leaked
  <2>1. /\ timers'[n].at = "rule" /\ timers'[n].ip = timers[n].ip
        /\ \A k \in Numbers \ {n} : timers'[k] = timers[k]
    BY <1>0, <1>2 DEF Types, Timers
  <2>2. Removers(a)' = Removers(a) /\ rules' = rules
    BY <1>2, <2>1 DEF Removers, RemoveRow, Due
  <2>. QED
    BY <1>0, <1>1, <1>2, <2>2, UntouchedCounted
<1>3. CASE timers' = [timers EXCEPT ![n] = Ended(n)] /\ timers[n].at \in {"wait", "rule"}
  <2>1. /\ timers'[n].at \notin {"wait", "rule"}
        /\ \A k \in Numbers \ {n} : timers'[k] = timers[k]
    BY <1>0, <1>3, TimerEnds, NoTimerIsNone DEF Types
  <2>2. CASE timers[n].ip # a
    <3>1. Removers(a)' = Removers(a)
      BY <2>1, <2>2 DEF Removers
    <3>2. rules'[a] = rules[a] /\ leaked'[a] = leaked[a]
      BY <1>0, <2>2 DEF Timer, RemoveRow, RemoveRule, Types
    <3>. QED
      BY <1>0, <1>1, <3>1, <3>2, SameCounted DEF Owed
  <2>3. CASE timers[n].ip = a
    <3>1. Removers(a)' = Removers(a) \ {n} /\ n \in Removers(a)
      BY <1>3, <2>1, <2>3 DEF Removers
    <3>2. /\ Cardinality(Removers(a) \ {n}) = Cardinality(Removers(a)) - 1
          /\ Cardinality(Removers(a) \ {n}) \in Nat
      BY <1>0, <3>1, Finite, FS_RemoveElement, FS_CardinalityType
    <3>3. CASE leaked'[a] = leaked[a] + 1 /\ rules'[a] = rules[a]
      <4>1. Owed(a)' = Owed(a)
        BY <1>0, <1>1, <3>1, <3>2, <3>3, Finite DEF Owed, Types
      <4>. QED
        BY <1>0, <3>3, <4>1, SameCounted
    <3>4. CASE leaked'[a] = leaked[a] /\ rules'[a] = IF rules[a] = 0 THEN 0 ELSE rules[a] - 1
      <4>1. Owed(a)' = Owed(a) - 1
        BY <1>0, <1>1, <3>1, <3>2, <3>4, Finite DEF Owed, Types
      <4>. QED
        BY <1>0, <3>4, <4>1, OwedIsNat, BegunGrows DEF Counted
    <3>5. CASE RemoveRow(n)
      <4>1. timers' # [timers EXCEPT ![n].at = "rule"]
        BY <1>0, <2>1 DEF Types, Timers
      <4>2. rules' = rules /\ leaked' = [leaked EXCEPT ![a] = @ + 1]
        BY <2>3, <3>5, <4>1 DEF RemoveRow
      <4>. QED
        BY <1>0, <3>3, <4>2 DEF Types
    <3>6. CASE RemoveRule(n)
      BY <1>0, <2>3, <3>3, <3>4, <3>6 DEF RemoveRule, Types
    <3>. QED
      BY <3>5, <3>6 DEF Timer
  <2>. QED
    BY <2>2, <2>3
<1>. QED
  BY <1>2, <1>3 DEF Timer, RemoveRow, RemoveRule, Due

\* The rules of a process that stops are left.
LEMMA StopCounted ==
  ASSUME IInv, [Next]_vars, NEW w \in Workers, NEW a \in Addresses, Stop(w)
  PROVE  Counted(a)'
<1>. DEFINE mine == {n \in Numbers : timers[n].worker = w}
            R == Removers(a)
            Left(b) == Cardinality(Removers(b) \cap mine)
                       + (IF proc[w].at = "timer" /\ proc[w].ip = b THEN 1 ELSE 0)
<1>0. Types /\ UNCHANGED <<rules, ruleLost>>
  BY DEF IInv, Stop
<1>1. leaked'[a] = leaked[a] + Cardinality(R \cap mine)
                   + (IF proc[w].at = "timer" /\ proc[w].ip = a THEN 1 ELSE 0)
  <2>1. Cardinality(R \cap mine) \in Nat
    BY <1>0, Finite, FS_Intersection, FS_CardinalityType
  <2>2. leaked' = [b \in Addresses |-> leaked[b] + Left(b)]
    BY DEF Stop
  <2>3. leaked'[a] = leaked[a] + Left(a)
    BY <2>2
  <2>. QED
    BY <1>0, <2>1, <2>3 DEF Types
<1>2. Removers(a)' = R \ mine
  <2>1. \A n \in mine : timers'[n] = Ended(n) /\ Ended(n).at \notin {"wait", "rule"}
    BY <1>0, TimerEnds, NoTimerIsNone DEF Stop
  <2>2. \A n \in Numbers \ mine : timers'[n] = timers[n]
    BY DEF Stop
  <2>. QED
    BY <2>1, <2>2 DEF Removers
<1>3. AtTimer(a)' = AtTimer(a) \ {w}
  BY <1>0, LoopFinishes DEF Stop, AtTimer
<1>4. /\ Cardinality(R \ mine) = Cardinality(R) - Cardinality(R \cap mine)
      /\ Cardinality(R \cap mine) \in Nat
  BY <1>0, Finite, FS_Difference, FS_Intersection, FS_CardinalityType
<1>5. Cardinality(AtTimer(a) \ {w}) =
        Cardinality(AtTimer(a)) - (IF proc[w].at = "timer" /\ proc[w].ip = a THEN 1 ELSE 0)
  <2>1. CASE w \in AtTimer(a)
    <3>1. proc[w].at = "timer" /\ proc[w].ip = a
      BY <2>1 DEF AtTimer
    <3>. QED
      BY <1>0, <2>1, <3>1, Finite, FS_RemoveElement
  <2>2. CASE w \notin AtTimer(a)
    <3>1. ~(proc[w].at = "timer" /\ proc[w].ip = a) /\ AtTimer(a) \ {w} = AtTimer(a)
      BY <2>2 DEF AtTimer
    <3>. QED
      BY <1>0, <3>1, Finite
  <2>. QED
    BY <2>1, <2>2
<1>6. Owed(a)' = Owed(a)
  <2>. HIDE DEF mine
  <2>. QED
    BY <1>0, <1>1, <1>2, <1>3, <1>4, <1>5, Finite DEF Owed, Types
<1>. QED
  BY <1>0, <1>6, SameCounted

LEMMA StepCounted == IInv /\ [Next]_vars => \A a \in Addresses : Counted(a)'
<1>. SUFFICES ASSUME IInv, [Next]_vars, NEW a \in Addresses PROVE Counted(a)'
  OBVIOUS
<1>1. CASE UNCHANGED <<timers, proc, leaked, rules, ruleLost>>
  <2>1. Removers(a)' = Removers(a) /\ AtTimer(a)' = AtTimer(a)
    BY <1>1 DEF Removers, AtTimer
  <2>. QED
    BY <1>1, <2>1, UntouchedCounted
<1>2. CASE UNCHANGED vars \/ Tick \/ \E u \in Users : Connect(u) \/ Move(u) \/ Rewrite(u)
  BY <1>1, <1>2 DEF vars, history, Tick, Connect, Move, Rewrite
<1>3. ASSUME NEW w \in Workers, Stop(w) \/ Loop(w) \/ \E u \in Users : LookUp(w, u) PROVE Counted(a)'
  BY <1>3, StopCounted, EarlyCounted, AddRuleCounted, StartTimerCounted DEF Loop
<1>. QED
  BY <1>2, <1>3, TimerCounted DEF Next

-----------------------------------------------------------------------------
(* The theorems.                                                           *)

\* The invariant holds in every reachable state.
LEMMA SpecIInv == Spec => []IInv
<1>1. IInv /\ [Next]_vars => IInv'
  BY StepTypes, StepLoops, StepStarted, StepCounted DEF IInv
<1>. QED
  BY <1>1, InitIInv, PTL DEF Spec

\* Every variable keeps its type: an address never has more rules than blocks
\* were begun, and no more are left than that.
THEOREM TypeCorrect == Spec => []TypeOK
<1>1. IInv => TypeOK
  <2>. SUFFICES ASSUME IInv PROVE TypeOK
    OBVIOUS
  <2>0. Types
    BY DEF IInv
  <2>1. ASSUME NEW a \in Addresses PROVE rules[a] \in 0 .. MaxBlocks /\ leaked[a] \in 0 .. MaxBlocks
    BY <2>0, Finite, BoundsAreNaturals DEF IInv, Counted, Owed, Types
  <2>2. rules \in [Addresses -> 0 .. MaxBlocks] /\ leaked \in [Addresses -> 0 .. MaxBlocks]
    BY <2>0, <2>1 DEF Types
  <2>3. proc \in [Workers -> [at : {"idle", "recover", "client", "row", "rule", "timer"},
                              user : Users \cup {Nobody}, ip : Sources, todo : SUBSET Users,
                              no : 0 .. MaxBlocks]]
    <3>1. {"idle", "recover"} \cup Busy = {"idle", "recover", "client", "row", "rule", "timer"}
      BY DEF Busy
    <3>. QED
      BY <2>0, <3>1 DEF Types, Procs
  <2>. QED
    BY <2>0, <2>2, <2>3 DEF Types, TypeOK, Timers
<1>. QED
  BY <1>1, SpecIInv, PTL

\* _block_user, _unblock_user: every DROP rule has a timer that is to remove it,
\* or an event loop that is to start the timer, except the rules of processes
\* that have stopped and of commands that have failed.
THEOREM RulesAccounted == Spec => []RulesHaveTimers
<1>1. IInv => RulesHaveTimers
  BY DEF IInv, Counted, Owed, AtTimer, RulesHaveTimers
<1>. QED
  BY <1>1, SpecIInv, PTL

\* Only Connect brings a user in, and it needs the row gone and no rule.
LEMMA StepHolds ==
  ASSUME IInv, [Next]_vars, NEW u \in Users, NEW n \in Numbers,
         ~online[u], online'[u], timers[n].user = u, clock < timers[n].due
  PROVE  u \in rowLost /\ (timers[n].ip \in ruleLost \/ address[u] # timers[n].ip)
<1>. DEFINE a == timers[n].ip
<1>0. Types /\ Started(n) /\ timers[n] \in Timers
  BY DEF IInv, Types
<1>1. Connect(u)
  <2>1. ~UNCHANGED online
    OBVIOUS
  <2>2. ASSUME NEW v \in Users, Connect(v) PROVE v = u
    BY <1>0, <2>2 DEF Connect, Types
  <2>3. ASSUME NEW w \in Workers, Disconnect(w) PROVE FALSE
    BY <1>0, <2>3 DEF Disconnect, Types
  <2>. QED
    BY <2>1, <2>2, <2>3 DEF Next, Loop, Timer, vars, device, Tick, Move, Rewrite, Stop, Start, Recover,
       LookUp, AddRow, AddRule, StartTimer, RemoveRow, RemoveRule
<1>2. timers[n].at \in {"wait", "done"}
  <2>1. timers[n].at # "none"
    BY <1>0, NoTimerIsNone DEF Started, Types
  <2>2. timers[n].at # "rule"
    BY <1>0 DEF Started, Types, Timers
  <2>. QED
    BY <1>0, <2>1, <2>2 DEF Timers
<1>3. u \in rowLost
  BY <1>0, <1>1, <1>2 DEF Connect, Started
<1>4. ASSUME a \notin ruleLost, address[u] = a PROVE FALSE
  <2>1. a \in Addresses /\ rules[a] = 0 /\ Owed(a) = 0
    BY <1>0, <1>1, <1>2, <1>4 DEF Connect, Started, IInv, Counted
  <2>2. leaked[a] = 0 /\ Cardinality(Removers(a)) = 0
    BY <1>0, <2>1, Finite DEF Owed, Types
  <2>3. timers[n].at # "done"
    BY <1>0, <2>2 DEF Started
  <2>4. n \in Removers(a)
    BY <1>2, <2>3 DEF Removers
  <2>. QED
    BY <1>0, <2>2, <2>4, Finite, FS_EmptySet
<1>. QED
  BY <1>3, <1>4

\* _block_user: from the start of its timer until the timer is due the user does
\* not get back in, unless somebody else has deleted the row, and the user comes
\* from another address or a rule for its address could not be added.
THEOREM BlockHoldsAlways == Spec => BlockHolds
<1>1. IInv /\ [Next]_vars =>
        [\A u \in Users, n \in Numbers :
           (~online[u] /\ online'[u] /\ timers[n].user = u /\ clock < timers[n].due) =>
             /\ u \in rowLost
             /\ timers[n].ip \in ruleLost \/ address[u] # timers[n].ip]_vars
  BY StepHolds
<1>. QED
  BY <1>1, SpecIInv, PTL DEF Spec, BlockHolds
=============================================================================
