------------------------------ MODULE Shaping ------------------------------
(***************************************************************************)
(* The bandwidth monitor (quota/bandwidth-monitor.py and                   *)
(* bandwidth-monitor-nft.py): every minute it reads the sessions from      *)
(* charon and gives each virtual IP (VIP) its customer's rates, with nft   *)
(* rules that mark its packets and with tc filters and classes that limit  *)
(* what is marked; then it removes the shaping of VIPs without a session.  *)
(*                                                                         *)
(* A VIP is the last octet of its address.  Its marks and the ids of its   *)
(* classes are numbers computed from it, and tc reads an id's digits as    *)
(* hexadecimal, so that two VIPs may meet in one mark or one class.        *)
(***************************************************************************)
EXTENDS Naturals, FiniteSets

CONSTANTS Octets,     \* the last octets of the pool's addresses
          Users,      \* EAP identities
          Remotes,    \* the clients' public addresses
          Plans,      \* a customer's rates, down and up
          Default,    \* 20/20, for an identity without a customer
          None,       \* no session, no row, no class, no filter
          MaxChanges, \* bound: sessions that begin, rates that change
          MaxTrouble  \* bound: commands that fail, reloads, restarts

ASSUME OctetsOfAddresses == Octets \subseteq 1 .. 254
ASSUME NoneIsNothing == None \notin Plans \cup {Default} \cup Users \cup Remotes
ASSUME BoundsAreNaturals == MaxChanges \in Nat /\ MaxTrouble \in Nat

VARIABLES
  session,  \* charon's sessions: the user and the public address at a VIP
  rates,    \* customers.bandwidth_* of the monitor's database, by user
  upRule,   \* nft: the marks of packets from a VIP, by chain
  downRule, \* nft: the marks of packets to a VIP
  outRule,  \* nft: the marks of the host's own packets to a public address
  class,    \* tc: the rate of each class
  filter,   \* tc: the class of each mark
  used,     \* history: the VIPs that were set up, and have a filter left
  met,      \* history: those whose numbers another used, then or since
  pc,       \* run_iteration
  active,   \* the sessions that it has read
  todo,     \* the VIPs left in the loop at hand
  good,     \* history: VIPs shaped without a failure, and nothing changed since
  changes, trouble

vars == <<session, rates, upRule, downRule, outRule, class, filter, used, met,
          pc, active, todo, good, changes, trouble>>

world  == <<session, rates, changes>>
nft    == <<upRule, downRule, outRule>>
tc     == <<class, filter, used, met>>
daemon == <<pc, active, todo>>

-----------------------------------------------------------------------------
(* Marks and classes.                                                      *)

Digits(n) == (n \div 100) * 256 + ((n % 100) \div 10) * 16 + (n % 10)

\* vip_to_mark, vip_to_download_mark: the octet, and the octet with bit 0x80.
UpMark(o)   == o
DownMark(o) == IF o >= 128 THEN o ELSE o + 128

\* vip_to_classid writes the octet plus one in decimal, vip_to_download_classid
\* the octet plus 128 in hexadecimal; tc reads both as hexadecimal.
UpClass(o)   == Digits(o + 1)
DownClass(o) == o + 128

\* In hexadecimal, n is m or goes on after it.
Begins(m, n) == n = m \/ n \div 16 = m

\* Two VIPs that have no mark and no class in common, and no mark that begins
\* with one of the other's.
Apart(v, w) ==
  /\ {UpClass(v), DownClass(v)} \cap {UpClass(w), DownClass(w)} = {}
  /\ \A m \in {UpMark(v), DownMark(v)}, n \in {UpMark(w), DownMark(w)} :
       ~Begins(m, n) /\ ~Begins(n, m)
Meets(o) == {w \in Octets \ {o} : ~Apart(o, w)}

Marks    == {UpMark(o) : o \in Octets} \cup {DownMark(o) : o \in Octets}
Classids == {UpClass(o) : o \in Octets} \cup {DownClass(o) : o \in Octets}
Limits   == (Plans \cup {Default}) \X {"up", "down"}
Chains   == {"forward", "postrouting"}
Session  == [user : Users, remote : Remotes \cup {None}]

ASSUME NoneIsNoEntry == None \notin Classids \cup Limits \cup Session

\* Every variable keeps its type.
TypeOK ==
  /\ session \in [Octets -> Session \cup {None}]
  /\ active \in [Octets -> Session \cup {None}]
  /\ rates \in [Users -> Plans \cup {None}]
  /\ upRule \subseteq Octets \X Chains
  /\ downRule \subseteq Octets
  /\ outRule \subseteq Remotes \X Marks
  /\ class \in [Classids -> Limits \cup {None}]
  /\ filter \in [Marks -> Classids \cup {None}]
  /\ pc \in {"idle", "apply", "remove"}
  /\ todo \subseteq Octets /\ good \subseteq Octets
  /\ used \subseteq Octets /\ met \subseteq Octets
  /\ changes \in 0 .. MaxChanges /\ trouble \in 0 .. MaxTrouble

Nowhere == [o \in Octets |-> None]

Init ==
  /\ session = Nowhere /\ active = Nowhere
  /\ rates \in [Users -> Plans \cup {None}]
  /\ upRule = {} /\ downRule = {} /\ outRule = {}
  /\ class = [c \in Classids |-> None] /\ filter = [m \in Marks |-> None]
  /\ used = {} /\ met = {}
  /\ pc = "idle" /\ todo = {} /\ good = {}
  /\ changes = 0 /\ trouble = 0

Change  == changes < MaxChanges /\ changes' = changes + 1
Trouble == trouble < MaxTrouble /\ trouble' = trouble + 1

-----------------------------------------------------------------------------
(* What happens around the monitor.  A session's remote address is None if  *)
(* it does not come from port 4500.                                        *)

Connect(o, s) ==
  /\ session[o] = None /\ Change
  /\ session' = [session EXCEPT ![o] = s]
  /\ UNCHANGED <<rates, nft, tc, daemon, good, trouble>>

Disconnect(o) ==
  /\ session[o] # None
  /\ session' = [session EXCEPT ![o] = None]
  /\ good' = good \ {o}
  /\ UNCHANGED <<rates, nft, tc, daemon, changes, trouble>>

\* An operator's UPDATE of the row in the SQLite file.
EditRates(u, p) ==
  /\ rates[u] # p /\ Change
  /\ rates' = [rates EXCEPT ![u] = p]
  /\ good' = {o \in good : session[o].user # u}
  /\ UNCHANGED <<session, nft, tc, daemon, trouble>>

\* The firewall is loaded anew: nft flushes its tables.
FirewallReload ==
  /\ Trouble
  /\ upRule' = {} /\ downRule' = {} /\ outRule' = {} /\ good' = {}
  /\ UNCHANGED <<world, tc, daemon>>

\* main, setup_qdiscs: the process starts again, and tc's replace of the root
\* qdisc changes nothing or drops what hangs below it.
Restart ==
  /\ Trouble
  /\ pc' = "idle" /\ active' = Nowhere /\ todo' = {}
  /\ \/ UNCHANGED <<tc, good>>
     \/ /\ class' = [c \in Classids |-> None] /\ filter' = [m \in Marks |-> None]
        /\ used' = {} /\ met' = {} /\ good' = {}
  /\ UNCHANGED <<world, nft>>

-----------------------------------------------------------------------------
(* run_iteration.                                                          *)

\* Mutant: only new users, as the module's docstring has it ("For new users").
BeginNew(seen) ==
  /\ pc = "idle" /\ pc' = "apply"
  /\ active' = seen
  /\ todo' = {o \in Octets : seen[o] # None /\ <<o, "forward">> \notin upRule}
  /\ good' = {o \in good : seen[o] # None}

Begin(seen) ==
  /\ pc = "idle" /\ pc' = "apply"
  /\ active' = seen /\ todo' = {o \in Octets : seen[o] # None}
  /\ good' = good \cap todo'

\* swanctl --list-sas: every session; if it fails, none.
ReadSessions ==
  /\ \/ Begin(session) /\ UNCHANGED trouble
     \/ Begin(Nowhere) /\ Trouble
  /\ UNCHANGED <<world, nft, tc>>

\* Mutant: without the default.
PlanOfCustomer(u) == rates[u]

\* lookup_customer_bandwidth and the default.
PlanOf(u) == IF rates[u] = None THEN Default ELSE rates[u]

\* add_mark_rule, add_download_mark_rule: the rule is there afterwards, unless
\* the command fails.
Marked(o, fails) ==
  /\ upRule'   = upRule \cup ({o} \X (Chains \ fails))
  /\ downRule' = downRule \cup ({o} \ (IF "down" \in fails THEN {o} ELSE {}))

\* download_output_rule_present: one rule has the address, one has the mark.
OutPresent(r, m) == (\E n \in Marks : <<r, n>> \in outRule) /\ (\E s \in Remotes : <<s, m>> \in outRule)

MarkedOut(r, m, fails) ==
  outRule' = IF r = None \/ OutPresent(r, m) \/ "out" \in fails
             THEN outRule ELSE outRule \cup {<<r, m>>}

\* _filter_present looks for "handle 0x.." in tc's list.
FilterPresent(m) == \E n \in Marks : filter[n] # None /\ Begins(m, n)

\* apply_bandwidth replaces both classes, and adds what filters it misses.
Limited(o, plan, fails) ==
  /\ class' = [c \in Classids |->
       IF c = DownClass(o) /\ "downClass" \notin fails THEN <<plan, "down">>
       ELSE IF c = UpClass(o) /\ "upClass" \notin fails THEN <<plan, "up">> ELSE class[c]]
  /\ filter' = [m \in Marks |->
       IF FilterPresent(m) THEN filter[m]
       ELSE IF m = UpMark(o) /\ "upFilter" \notin fails THEN UpClass(o)
       ELSE IF m = DownMark(o) /\ "downFilter" \notin fails THEN DownClass(o) ELSE filter[m]]

\* History: o is set up, and meets whom it meets.
Enters(o) ==
  /\ used' = used \cup {o}
  /\ met'  = (met \ {o}) \cup (Meets(o) \cap used) \cup (IF Meets(o) \cap used = {} THEN {} ELSE {o})

\* History: o is removed; whom it met may have lost a filter or a class with it.
Leaves(o) ==
  /\ used' = IF \A m \in {UpMark(o), DownMark(o)} : filter'[m] = None THEN used \ {o} ELSE used
  /\ met'  = met \cup (Meets(o) \cap used)

Commands == Chains \cup {"down", "out", "upClass", "upFilter", "downClass", "downFilter"}

\* One VIP of the first loop; at most one of its commands fails.
Apply(o) ==
  /\ pc = "apply" /\ o \in todo /\ todo' = todo \ {o}
  /\ \E fails \in {{}} \cup {{c} : c \in Commands} :
       /\ Marked(o, fails)
       /\ MarkedOut(active[o].remote, DownMark(o), fails)
       /\ Limited(o, PlanOf(active[o].user), fails)
       /\ IF fails = {} THEN UNCHANGED trouble ELSE Trouble
       /\ good' = IF fails = {} /\ session[o] = active[o] THEN good \cup {o} ELSE good \ {o}
  /\ Enters(o)
  /\ UNCHANGED <<world, pc, active>>

\* A lookup that raises ends the iteration, what is to be removed included.
LookupFails ==
  /\ pc = "apply" /\ todo # {} /\ Trouble
  /\ pc' = "idle" /\ active' = Nowhere /\ todo' = {}
  /\ UNCHANGED <<world, nft, tc, good>>

\* The rules with a comment bw:VIP, which only the upload rules have.
FindStale ==
  /\ pc = "apply" /\ todo = {} /\ pc' = "remove"
  /\ todo' = {o \in Octets : active[o] = None /\ \E ch \in Chains : <<o, ch>> \in upRule}
  /\ UNCHANGED <<world, nft, tc, active, good, trouble>>

\* Mutant: the filter is deleted without its handle, and every filter with it.
UnlimitedAll(o) ==
  /\ filter' = [m \in Marks |-> None]
  /\ class' = [c \in Classids |-> IF c \in {UpClass(o), DownClass(o)} THEN None ELSE class[c]]

\* remove_bandwidth.  get_mark_rule_handle finds no handle, and the download
\* rule is looked for in the wrong chain, so that the nft rules stay.  A filter
\* stays if it has another priority than 49152; a class that a filter leads to
\* stays; the code looks at neither command's result.
Unlimited(o) ==
  /\ \E gone \in SUBSET {UpMark(o), DownMark(o)} :
       filter' = [m \in Marks |-> IF m \in gone THEN None ELSE filter[m]]
  /\ class' = [c \in Classids |->
       IF c \in {UpClass(o), DownClass(o)} /\ \A m \in Marks : filter'[m] # c
       THEN None ELSE class[c]]

Remove(o) ==
  /\ pc = "remove" /\ o \in todo /\ todo' = todo \ {o}
  /\ Unlimited(o) /\ Leaves(o)
  /\ UNCHANGED <<world, nft, pc, active, good, trouble>>

\* Mutant: without this pass, as remove_bandwidth knows no address.
OutRulesStay == outRule

\* The rules of addresses that no session has any more go.
OutRulesLeft ==
  {rm \in outRule : \E o \in Octets : active[o] # None /\ active[o].remote = rm[1]}

Finish ==
  /\ pc = "remove" /\ todo = {}
  /\ \/ outRule' = OutRulesLeft /\ UNCHANGED trouble
     \/ \E rm \in outRule \ OutRulesLeft : outRule' = OutRulesLeft \cup {rm} /\ Trouble
  /\ pc' = "idle" /\ active' = Nowhere
  /\ UNCHANGED <<world, upRule, downRule, tc, todo, good>>

-----------------------------------------------------------------------------

Iteration ==
  \/ ReadSessions \/ FindStale \/ Finish
  \/ \E o \in Octets : Apply(o) \/ Remove(o)

Next ==
  \/ Iteration \/ LookupFails
  \/ \E o \in Octets : (\E s \in Session : Connect(o, s)) \/ Disconnect(o)
  \/ \E u \in Users, p \in Plans \cup {None} : EditRates(u, p)
  \/ FirewallReload \/ Restart

Spec == Init /\ [][Next]_vars

\* The daemon's loop goes on, and systemd starts it again.
FairSpec == Spec /\ WF_vars(Iteration)

-----------------------------------------------------------------------------
(* Properties.                                                             *)

\* The limit on what comes from a VIP, and on what goes to it.
Limit(m)   == IF filter[m] = None THEN None ELSE class[filter[m]]
UpLimit(o) == IF \E ch \in Chains : <<o, ch>> \in upRule THEN Limit(UpMark(o)) ELSE None
DownLimit(o) == IF o \in downRule THEN Limit(DownMark(o)) ELSE None

\* What the limit of o may be, one way: its customer's rate of this way.  From
\* .128 on there is one mark for both ways, and its class is that of either; and
\* an upload filter once missed is found in "0x88" by .8, whose mark is 0x8.
MayBe(o, way) ==
  LET plan == PlanOf(session[o].user)
  IN  IF UpMark(o) = DownMark(o) THEN {plan} \X {"up", "down"}
      ELSE {<<plan, way>>} \cup
           (IF way = "up" /\ Begins(UpMark(o), DownMark(o)) THEN {None} ELSE {})

\* apply_bandwidth, remove_bandwidth: a session that was shaped keeps its own
\* customer's rates, whatever VIPs come and go, until it ends, its rates are
\* changed, an iteration misses it, the firewall is reloaded, or a VIP is set up
\* or removed that has one of its numbers; and it has them again from the first
\* pass on that finds no such VIP in use.
StaysShaped ==
  \A o \in good \ met :
    UpLimit(o) \in MayBe(o, "up") /\ DownLimit(o) \in MayBe(o, "down")

\* run_iteration: a session that stays is shaped at last, whatever failed
\* before, an identity without a customer too.
ShapedEventually == \A o \in Octets : []<>(session[o] = None \/ o \in good)

\* run_iteration, remove_download_output_rule: the mark of a public address that
\* no session has does not stay for ever.
OutRulesGo ==
  \A r \in Remotes :
    []<>(\/ \A m \in Marks : <<r, m>> \notin outRule
         \/ \E o \in Octets : session[o] # None /\ session[o].remote = r)
=============================================================================
