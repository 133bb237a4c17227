----------------------------- MODULE TempBlocks -----------------------------
(***************************************************************************)
(* The bot's temporary blocks (host/vpn-portal/bot.py): a disconnect may   *)
(* keep the user out for DISCONNECT_BLOCK_SECONDS, with a row in radcheck  *)
(* that makes FreeRADIUS reject the user and a rule in iptables that drops *)
(* what comes from its address.  A threading.Timer takes both away again;  *)
(* a process that builds the bot first lifts the rejects it finds.         *)
(*                                                                         *)
(* The rows and the rules are shared by all processes, the timers are each *)
(* process's own and end with it.  A row is one per user, however often it *)
(* is written; rules are counted.                                          *)
(***************************************************************************)
EXTENDS Naturals, FiniteSets

CONSTANTS Users,      \* EAP identities
          Addresses,  \* where they come from; several may share one
          Workers,    \* processes that run the bot
          Nobody,     \* no user
          Nowhere,    \* no source address
          BlockFor,   \* DISCONNECT_BLOCK_SECONDS, in ticks
          MaxTime,    \* bound: the time
          MaxBlocks,  \* bound: disconnects
          MaxTrouble  \* bound: processes stopped, statements and commands that
                      \* fail, changes of address, and other writers' deletes

ASSUME NoneIsNone == Nobody \notin Users /\ Nowhere \notin Addresses
ASSUME WorkersAreFinite == IsFiniteSet(Workers) /\ Nobody \notin Workers
ASSUME BoundsAreNaturals ==
  /\ BlockFor \in Nat /\ MaxTime \in Nat /\ MaxBlocks \in Nat /\ MaxTrouble \in Nat

VARIABLES
  clock,
  online,    \* the user's device is connected
  address,   \* where the device is
  reject,    \* users with a radcheck row Auth-Type := Reject
  rules,     \* how many DROP rules an address has
  built,     \* the processes whose application is built
  proc,      \* what each process's event loop is doing
  timers,    \* the n-th block's timer
  blocks,    \* how many disconnects were begun
  rowLost,   \* history: the users whose row somebody else has deleted
  ruleLost,  \* history: the addresses for which a rule could not be added
  stuck,     \* history: the users a delete has failed for
  leaked,    \* history: rules whose timer has ended without removing them
  trouble

device  == <<online, address>>
history == <<rowLost, ruleLost, stuck, leaked>>
vars    == <<clock, device, reject, rules, built, proc, timers, blocks, history, trouble>>

Sources == Addresses \cup {Nowhere}
Numbers == 1 .. MaxBlocks

Idle    == [at |-> "idle", user |-> Nobody, ip |-> Nowhere, todo |-> {}, no |-> 0]
NoTimer == [at |-> "none", user |-> Nobody, ip |-> Nowhere, due |-> 0, worker |-> Nobody]

\* Every variable keeps its type.
TypeOK ==
  /\ clock \in 0 .. MaxTime
  /\ online \in [Users -> BOOLEAN] /\ address \in [Users -> Addresses]
  /\ reject \subseteq Users
  /\ rules \in [Addresses -> 0 .. MaxBlocks]
  /\ built \subseteq Workers
  /\ proc \in [Workers -> [at : {"idle", "recover", "client", "row", "rule", "timer"},
                           user : Users \cup {Nobody}, ip : Sources, todo : SUBSET Users, no : 0 .. MaxBlocks]]
  /\ timers \in [Numbers -> [at : {"none", "wait", "rule", "done"}, user : Users \cup {Nobody},
                             ip : Sources, due : 0 .. MaxTime, worker : Workers \cup {Nobody}]]
  /\ blocks \in 0 .. MaxBlocks
  /\ rowLost \subseteq Users /\ ruleLost \subseteq Addresses /\ stuck \subseteq Users
  /\ leaked \in [Addresses -> 0 .. MaxBlocks]
  /\ trouble \in 0 .. MaxTrouble

Init ==
  /\ clock = 0
  /\ online = [u \in Users |-> FALSE]
  /\ \E a \in Addresses : address = [u \in Users |-> a]
  /\ reject = {} /\ rules = [a \in Addresses |-> 0]
  /\ built = {} /\ proc = [w \in Workers |-> Idle]
  /\ timers = [n \in Numbers |-> NoTimer] /\ blocks = 0
  /\ rowLost = {} /\ ruleLost = {} /\ stuck = {} /\ leaked = [a \in Addresses |-> 0]
  /\ trouble = 0

Trouble   == trouble < MaxTrouble /\ trouble' = trouble + 1
NoFailure == UNCHANGED trouble

Goto(w, at) == proc' = [proc EXCEPT ![w].at = at]
Finish(w)   == proc' = [proc EXCEPT ![w] = Idle]

\* The timers of a user that have not fired.
Waiting(u) == {n \in Numbers : timers[n].at = "wait" /\ timers[n].user = u}

\* A timer that is gone before it was due is kept for BlockHolds.
Ended(n) == IF clock < timers[n].due THEN [timers[n] EXCEPT !.at = "done"] ELSE NoTimer

\* Timers that are to remove a rule of the address.
Removers(a) == {n \in Numbers : timers[n].at \in {"wait", "rule"} /\ timers[n].ip = a}

\* Is there a block of the user whose time has not passed, be its process
\* stopped or not, or one that is being made?
Blocked(u) ==
  \/ \E n \in Numbers : timers[n].user = u /\ clock < timers[n].due
  \/ \E w \in Workers : proc[w].at \in {"rule", "timer"} /\ proc[w].user = u

-----------------------------------------------------------------------------
(* Outside the bot.                                                        *)

\* The time is bounded so that the timer of a block begun is due within it.
Tick ==
  /\ clock < MaxTime /\ clock' = clock + 1
  /\ clock' + BlockFor > MaxTime =>
       \A w \in Workers : proc[w].at \notin {"client", "row", "rule", "timer"}
  /\ UNCHANGED <<device, reject, rules, built, proc, timers, blocks, history, trouble>>

\* FreeRADIUS rejects a user with the row before it looks at a password, and
\* charon does not hear from an address with a rule.
Connect(u) ==
  /\ ~online[u] /\ u \notin reject /\ rules[address[u]] = 0
  /\ online' = [online EXCEPT ![u] = TRUE]
  /\ UNCHANGED <<clock, address, reject, rules, built, proc, timers, blocks, history, trouble>>

Move(u) ==
  /\ Trouble
  /\ \E a \in Addresses \ {address[u]} : address' = [address EXCEPT ![u] = a]
  /\ UNCHANGED <<clock, online, reject, rules, built, proc, timers, blocks, history>>

\* The portal's writers delete a user's radcheck rows, this one with them,
\* and insert passwords (update_customer_password_radcheck and the others).
Rewrite(u) ==
  /\ Trouble
  /\ u \in reject /\ reject' = reject \ {u}
  /\ rowLost' = rowLost \cup {u}
  /\ UNCHANGED <<clock, device, rules, built, proc, timers, blocks, ruleLost, stuck, leaked>>

\* A process stops: at a crash, a restart, or after gunicorn's --max-requests.
\* A rule it has not removed stays.
Stop(w) ==
  LET mine == {n \in Numbers : timers[n].worker = w}
      Left(a) == Cardinality(Removers(a) \cap mine)
                 + (IF proc[w].at = "timer" /\ proc[w].ip = a THEN 1 ELSE 0)
  IN /\ Trouble
     /\ w \in built \/ proc[w] # Idle
     /\ built' = built \ {w} /\ Finish(w)
     /\ timers' = [n \in Numbers |-> IF n \in mine THEN Ended(n) ELSE timers[n]]
     /\ leaked' = [a \in Addresses |-> leaked[a] + Left(a)]
     /\ UNCHANGED <<clock, device, reject, rules, blocks, rowLost, ruleLost, stuck>>

-----------------------------------------------------------------------------
(* build_application, at the first update a process receives.              *)

\* Mutant: a process starts without the recovery.
StartUnrecovered(w) ==
  /\ w \notin built /\ proc[w] = Idle
  /\ built' = built \cup {w}
  /\ UNCHANGED <<clock, device, reject, rules, proc, timers, blocks, history, trouble>>

\* _startup_recover_orphaned_blocks: SELECT the rejects, whoever's they are.
Start(w) ==
  /\ w \notin built /\ proc[w] = Idle
  /\ IF reject = {} THEN built' = built \cup {w} /\ UNCHANGED proc
     ELSE /\ proc' = [proc EXCEPT ![w] = [Idle EXCEPT !.at = "recover", !.todo = reject]]
          /\ UNCHANGED built
  /\ UNCHANGED <<clock, device, reject, rules, timers, blocks, history, trouble>>

\* DELETE them, a user at a time.  An error ends the recovery and not the start.
Recover(w) ==
  LET todo == proc[w].todo
      Go(rest) == IF rest = {} THEN built' = built \cup {w} /\ Finish(w)
                  ELSE proc' = [proc EXCEPT ![w].todo = rest] /\ UNCHANGED built
  IN /\ proc[w].at = "recover"
     /\ \/ \E u \in todo :
             /\ reject' = reject \ {u} /\ rowLost' = rowLost \cup {u}
             /\ Go(todo \ {u})
             /\ UNCHANGED stuck /\ NoFailure
        \/ /\ Trouble /\ Go({})
           /\ stuck' = stuck \cup todo
           /\ UNCHANGED <<reject, rowLost>>
     /\ UNCHANGED <<clock, device, rules, timers, blocks, ruleLost, leaked>>

-----------------------------------------------------------------------------
(* cmd_disconnect, cb_disconnect: disconnect_via_coa.                      *)

\* The session and its source address are looked up in radacct.  Without one
\* charon has nothing to match, and nothing is done.
LookUp(w, u) ==
  /\ w \in built /\ proc[w] = Idle
  /\ online[u]
  /\ blocks < MaxBlocks /\ clock + BlockFor <= MaxTime
  /\ blocks' = blocks + 1
  /\ proc' = [proc EXCEPT ![w] = [at |-> "client", user |-> u, todo |-> {}, ip |-> address[u],
                                  no |-> blocks']]
  /\ UNCHANGED <<clock, device, reject, rules, built, timers, history, trouble>>

\* radclient: an ACK, a NAK, or no answer in time.
Disconnect(w) ==
  LET u == proc[w].user
      known == online[u]
  IN /\ proc[w].at = "client"
     /\ \/ known /\ online' = [online EXCEPT ![u] = FALSE] /\ Goto(w, "row") /\ NoFailure
        \/ ~known /\ Finish(w) /\ UNCHANGED online /\ NoFailure
        \/ known /\ Trouble /\ Finish(w) /\ online' \in {online, [online EXCEPT ![u] = FALSE]}
     /\ UNCHANGED <<clock, address, reject, rules, built, timers, blocks, history>>

\* Mutant: the arguments of _block_user are swapped.
AddRowOfAddress(w) ==
  /\ proc[w].at = "row"
  /\ reject' = reject \cup {proc[w].ip} /\ Goto(w, "rule")
  /\ UNCHANGED <<clock, device, rules, built, timers, blocks, history, trouble>>

\* _block_user: the row; when it fails there is no block.
AddRow(w) ==
  /\ proc[w].at = "row"
  /\ \/ /\ reject' = reject \cup {proc[w].user} /\ Goto(w, "rule")
        /\ rowLost' = rowLost \ {proc[w].user} /\ NoFailure
     \/ Trouble /\ Finish(w) /\ UNCHANGED <<reject, rowLost>>
  /\ UNCHANGED <<clock, device, rules, built, timers, blocks, ruleLost, stuck, leaked>>

\* iptables -I: a failure is logged, and the timer will run -D all the same.
AddRule(w) ==
  LET a == proc[w].ip
  IN /\ proc[w].at = "rule"
     /\ \/ rules' = [rules EXCEPT ![a] = @ + 1] /\ NoFailure /\ UNCHANGED ruleLost
        \/ Trouble /\ ruleLost' = ruleLost \cup {a} /\ UNCHANGED rules
     /\ Goto(w, "timer")
     /\ UNCHANGED <<clock, device, reject, built, timers, blocks, rowLost, stuck, leaked>>

\* Mutant: one timer of a user is taken to be enough.
StartTimerOnce(w) ==
  LET u == proc[w].user
  IN /\ proc[w].at = "timer"
     /\ timers' = IF Waiting(u) # {} THEN timers
                  ELSE [timers EXCEPT ![proc[w].no] =
                          [at |-> "wait", user |-> u, ip |-> proc[w].ip,
                           due |-> clock + BlockFor, worker |-> w]]
     /\ Finish(w)
     /\ UNCHANGED <<clock, device, reject, rules, built, blocks, history, trouble>>

\* threading.Timer(block_seconds, _unblock_user).start()
StartTimer(w) ==
  /\ proc[w].at = "timer"
  /\ timers' = [timers EXCEPT ![proc[w].no] =
                  [at |-> "wait", user |-> proc[w].user, ip |-> proc[w].ip,
                   due |-> clock + BlockFor, worker |-> w]]
  /\ Finish(w)
  /\ UNCHANGED <<clock, device, reject, rules, built, blocks, history, trouble>>

-----------------------------------------------------------------------------
(* _unblock_user, on the timer's thread.                                   *)

\* Mutant: the row goes when the timer starts to wait.
DueAtOnce(n) == timers[n].at = "wait"

\* The timer has waited for block_seconds.
Due(n) == timers[n].at = "wait" /\ timers[n].due <= clock

\* The row goes, whichever block wrote it last; an error leaves the rule, too.
RemoveRow(n) ==
  LET u == timers[n].user
  IN /\ Due(n)
     /\ \/ /\ reject' = reject \ {u}
           /\ timers' = [timers EXCEPT ![n].at = "rule"]
           /\ rowLost' = IF Blocked(u) THEN rowLost \cup {u} ELSE rowLost
           /\ UNCHANGED <<stuck, leaked>> /\ NoFailure
        \/ /\ Trouble
           /\ timers' = [timers EXCEPT ![n] = Ended(n)]
           /\ stuck' = stuck \cup {u}
           /\ leaked' = [leaked EXCEPT ![timers[n].ip] = @ + 1]
           /\ UNCHANGED <<reject, rowLost>>
     /\ UNCHANGED <<clock, device, rules, built, proc, blocks, ruleLost>>

\* iptables -D takes one rule of the address, whichever block added it.
RemoveRule(n) ==
  LET a == timers[n].ip
  IN /\ timers[n].at = "rule"
     /\ \/ /\ rules' = [rules EXCEPT ![a] = IF @ = 0 THEN 0 ELSE @ - 1]
           /\ UNCHANGED leaked /\ NoFailure
        \/ Trouble /\ leaked' = [leaked EXCEPT ![a] = @ + 1] /\ UNCHANGED rules
     /\ timers' = [timers EXCEPT ![n] = Ended(n)]
     /\ UNCHANGED <<clock, device, reject, built, proc, blocks, rowLost, ruleLost, stuck>>

-----------------------------------------------------------------------------

Loop(w)  == Start(w) \/ Recover(w) \/ Disconnect(w) \/ AddRow(w) \/ AddRule(w) \/ StartTimer(w)
Timer(n) == RemoveRow(n) \/ RemoveRule(n)

Next ==
  \/ Tick
  \/ \E u \in Users : Connect(u) \/ Move(u) \/ Rewrite(u)
  \/ \E w \in Workers : Stop(w) \/ Loop(w) \/ \E u \in Users : LookUp(w, u)
  \/ \E n \in Numbers : Timer(n)

Spec == Init /\ [][Next]_vars

\* Processes are started again and go on, timers fire, time passes.
FairSpec ==
  /\ Spec /\ WF_vars(Tick)
  /\ \A w \in Workers : WF_vars(Loop(w))
  /\ \A n \in Numbers : WF_vars(Timer(n))

-----------------------------------------------------------------------------
(* Properties.                                                             *)

\* _block_user: from the start of its timer until the timer is due the user does
\* not get back in, unless both layers are gone: somebody else has deleted the
\* row, and the user comes from another address or a rule for its address could
\* not be added.  Blocks that overlap, of one user or of users at one address,
\* and processes that start or stop do not open the second.
BlockHolds ==
  [][\A u \in Users, n \in Numbers :
       (~online[u] /\ online'[u] /\ timers[n].user = u /\ clock < timers[n].due) =>
         /\ u \in rowLost
         /\ timers[n].ip \in ruleLost \/ address[u] # timers[n].ip]_vars

\* _block_user, _unblock_user: every DROP rule has a timer that is to remove
\* it, or an event loop that is to start the timer, except the rules of
\* processes that have stopped and of commands that have failed.
RulesHaveTimers ==
  \A a \in Addresses :
    rules[a] <= leaked[a]
                + Cardinality(Removers(a))
                + Cardinality({w \in Workers : proc[w].at = "timer" /\ proc[w].ip = a})

\* A reject ends: by its timer, or by the recovery when the process that had
\* the timer has stopped, unless a statement that was to delete it failed.
RejectsEnd == \A u \in Users : u \in reject ~> (u \notin reject \/ u \in stuck)
=============================================================================
