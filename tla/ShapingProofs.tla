--------------------------- MODULE ShapingProofs ---------------------------
(***************************************************************************)
(* For any addresses, users, rates, changes and failures: types, and a     *)
(* session once shaped stays shaped.                                       *)
(*                                                                         *)
(* The argument: a filter only ever leads a mark of some VIP in use to     *)
(* that VIP's class of the same direction, and a mark that has a filter    *)
(* keeps it in apply_bandwidth; only VIPs that the iteration does not see  *)
(* are removed, and none of them is good.  A VIP in use that has met none  *)
(* has numbers of its own among those in use, and a step that touches them *)
(* puts it among those that have met another.                              *)
(***************************************************************************)
EXTENDS Shaping, TLAPS

\* Every filter is that of a VIP in use, and leads where that VIP's rules want it.
OwnFilters ==
  \A m \in Marks : filter[m] # None =>
    \E o \in used : \/ m = UpMark(o) /\ filter[m] = UpClass(o)
                    \/ m = DownMark(o) /\ filter[m] = DownClass(o)

\* A VIP in use that has met none shares no number with another in use.
OwnNumbers == \A o \in used \ met : \A w \in used \ {o} : Apart(o, w)

\* The loops of an iteration, and what it knows of the VIPs that are good.
Loops ==
  /\ pc = "apply"  => \A o \in todo : active[o] # None
  /\ pc = "remove" => \A o \in todo : active[o] = None
  /\ pc # "idle"   => \A o \in good : active[o] # None
  /\ \A o \in good : session[o] # None

\* The classes that the marks of a VIP may lead to.
UpFilters(o) ==
  IF UpMark(o) = DownMark(o) THEN {UpClass(o), DownClass(o)}
  ELSE {UpClass(o)} \cup (IF Begins(UpMark(o), DownMark(o)) THEN {None} ELSE {})
DownFilters(o) ==
  IF UpMark(o) = DownMark(o) THEN {UpClass(o), DownClass(o)} ELSE {DownClass(o)}

\* The rules, filters and classes of a VIP that has met none.
Shaped(o) ==
  /\ \E ch \in Chains : <<o, ch>> \in upRule
  /\ o \in downRule
  /\ filter[UpMark(o)] \in UpFilters(o) /\ filter[DownMark(o)] \in DownFilters(o)
  /\ class[UpClass(o)] = <<PlanOf(session[o].user), "up">>
  /\ class[DownClass(o)] = <<PlanOf(session[o].user), "down">>

IInv == /\ TypeOK /\ OwnFilters /\ OwnNumbers /\ Loops
        /\ good \subseteq used
        /\ \A o \in good \ met : Shaped(o)

-----------------------------------------------------------------------------
(* Marks and classes.                                                      *)

\* Every VIP has two marks and two classes.
LEMMA NumbersKnown ==
  ASSUME NEW o \in Octets
  PROVE  /\ UpMark(o) \in Marks /\ DownMark(o) \in Marks
         /\ UpClass(o) \in Classids /\ DownClass(o) \in Classids
         /\ UpClass(o) # None /\ DownClass(o) # None
<1>1. UpClass(o) \in Classids /\ DownClass(o) \in Classids
  BY DEF Classids
<1>. QED
  BY <1>1, NoneIsNoEntry DEF Marks

\* Where a VIP's two marks differ, the upload mark is no continuation of the
\* download mark, which is 128 more.
LEMMA UploadMarkIsLower ==
  ASSUME NEW o \in Octets, UpMark(o) # DownMark(o)
  PROVE  ~Begins(DownMark(o), UpMark(o))
<1>1. o \in 1 .. 254
  BY OctetsOfAddresses
<1>2. o < 128 /\ DownMark(o) = o + 128
  BY <1>1 DEF UpMark, DownMark
<1>3. o \div 16 <= o
  BY <1>1
<1>. QED
  BY <1>1, <1>2, <1>3 DEF UpMark, Begins

\* The upload class has an even number of tens and hundreds more than its octet,
\* and 127 is odd: the two classes of a VIP differ.
LEMMA ClassesDiffer ==
  ASSUME NEW o \in Octets
  PROVE  UpClass(o) # DownClass(o)
<1>1. o \in 1 .. 254
  BY OctetsOfAddresses
<1>. DEFINE n == o + 1
            a == n \div 100
            b == (n % 100) \div 10
            c == n % 10
<1>2. a \in Nat /\ b \in Nat /\ c \in Nat /\ n = 100 * a + 10 * b + c
  BY <1>1
<1>3. UpClass(o) = 256 * a + 16 * b + c /\ DownClass(o) = n + 127
  BY <1>1, <1>2 DEF UpClass, DownClass, Digits
<1>. HIDE DEF n, a, b, c
<1>4. 256 * a + 16 * b + c # n + 127
  BY <1>2
<1>. QED
  BY <1>3, <1>4

\* Being apart goes both ways.
LEMMA ApartBothWays ==
  ASSUME NEW v, NEW w, Apart(v, w)
  PROVE  Apart(w, v)
BY DEF Apart

\* What it means for two VIPs to be apart.
LEMMA ApartMeans ==
  ASSUME NEW o, NEW w, Apart(o, w)
  PROVE  /\ UpClass(o) \notin {UpClass(w), DownClass(w)}
         /\ DownClass(o) \notin {UpClass(w), DownClass(w)}
         /\ UpMark(o) \notin {UpMark(w), DownMark(w)}
         /\ DownMark(o) \notin {UpMark(w), DownMark(w)}
         /\ ~Begins(UpMark(o), UpMark(w)) /\ ~Begins(UpMark(o), DownMark(w))
         /\ ~Begins(DownMark(o), UpMark(w)) /\ ~Begins(DownMark(o), DownMark(w))
<1>1. /\ {UpClass(o), DownClass(o)} \cap {UpClass(w), DownClass(w)} = {}
      /\ \A m \in {UpMark(o), DownMark(o)}, n \in {UpMark(w), DownMark(w)} : ~Begins(m, n)
      /\ \A m \in {UpMark(o), DownMark(o)}, n \in {UpMark(w), DownMark(w)} : m # n
  BY DEF Apart, Begins
<1>. QED
  BY <1>1

\* A mark of a VIP that meets none in use is found to have a filter only if it
\* has its own, or if it is an upload mark with which the download mark begins.
LEMMA FilterFound ==
  ASSUME TypeOK, OwnFilters, NEW o \in Octets, Meets(o) \cap used = {}
  PROVE  /\ FilterPresent(UpMark(o)) => filter[UpMark(o)] \in UpFilters(o)
         /\ FilterPresent(DownMark(o)) => filter[DownMark(o)] \in DownFilters(o)
<1>1. ASSUME NEW m \in {UpMark(o), DownMark(o)}, NEW n \in Marks, filter[n] # None, Begins(m, n)
      PROVE  \/ n = UpMark(o) /\ filter[n] = UpClass(o)
             \/ n = DownMark(o) /\ filter[n] = DownClass(o)
  <2>1. PICK w \in used : \/ n = UpMark(w) /\ filter[n] = UpClass(w)
                          \/ n = DownMark(w) /\ filter[n] = DownClass(w)
    BY <1>1 DEF OwnFilters
  <2>2. w \in Octets /\ (w # o => Apart(o, w))
    BY DEF TypeOK, Meets
  <2>3. w = o
    BY <1>1, <2>1, <2>2, ApartMeans
  <2>. QED
    BY <2>1, <2>3
<1>2. UpMark(o) \in Marks /\ DownMark(o) \in Marks /\ \A m : Begins(m, m)
  BY DEF Marks, Begins
<1>3. filter[UpMark(o)] # None => filter[UpMark(o)] \in UpFilters(o)
  BY <1>1, <1>2 DEF UpFilters
<1>4. CASE UpMark(o) = DownMark(o)
  BY <1>1, <1>4 DEF FilterPresent, UpFilters, DownFilters
<1>5. CASE UpMark(o) # DownMark(o)
  <2>1. FilterPresent(DownMark(o)) => filter[DownMark(o)] = DownClass(o)
    BY <1>1, <1>5, UploadMarkIsLower DEF FilterPresent
  <2>2. FilterPresent(UpMark(o)) => filter[UpMark(o)] # None \/ Begins(UpMark(o), DownMark(o))
    BY <1>1, <1>5 DEF FilterPresent
  <2>. QED
    BY <1>3, <1>5, <2>1, <2>2 DEF UpFilters, DownFilters
<1>. QED
  BY <1>4, <1>5

-----------------------------------------------------------------------------
(* Types.                                                                  *)

LEMMA InitIInv == Init => IInv
<1>. SUFFICES ASSUME Init PROVE IInv
  OBVIOUS
<1>1. TypeOK
  BY BoundsAreNaturals DEF Init, TypeOK, Nowhere
<1>. QED
  BY <1>1 DEF Init, IInv, OwnFilters, OwnNumbers, Loops

\* What an iteration writes for a VIP has the types of nft's and tc's tables.
LEMMA ApplyTypes ==
  ASSUME IInv, NEW o \in Octets, Apply(o)
  PROVE  TypeOK'
<1>1. active[o] \in Session
  BY DEF IInv, TypeOK, Loops, Apply
<1>2. PlanOf(active[o].user) \in Plans \cup {Default}
  BY <1>1 DEF IInv, TypeOK, PlanOf, Session
<1>3. PICK fails \in {{}} \cup {{c} : c \in Commands} :
        /\ Marked(o, fails)
        /\ MarkedOut(active[o].remote, DownMark(o), fails)
        /\ Limited(o, PlanOf(active[o].user), fails)
        /\ IF fails = {} THEN UNCHANGED trouble ELSE Trouble
        /\ good' = IF fails = {} /\ session[o] = active[o] THEN good \cup {o} ELSE good \ {o}
  BY DEF Apply
<1>4. upRule' \subseteq Octets \X Chains /\ downRule' \subseteq Octets
  BY <1>3 DEF Marked, IInv, TypeOK
<1>5. outRule' \subseteq Remotes \X Marks
  <2>1. active[o].remote \in Remotes \cup {None} /\ DownMark(o) \in Marks
    BY <1>1, NumbersKnown DEF Session
  <2>. QED
    BY <1>3, <2>1 DEF MarkedOut, IInv, TypeOK
<1>6. class' \in [Classids -> Limits \cup {None}]
  <2>1. <<PlanOf(active[o].user), "up">> \in Limits /\ <<PlanOf(active[o].user), "down">> \in Limits
    BY <1>2 DEF Limits
  <2>. QED
    BY <1>3, <2>1 DEF Limited, IInv, TypeOK
<1>7. filter' \in [Marks -> Classids \cup {None}]
  BY <1>3, NumbersKnown DEF Limited, IInv, TypeOK
<1>8. trouble' \in 0 .. MaxTrouble
  BY <1>3, BoundsAreNaturals DEF Trouble, IInv, TypeOK
<1>9. todo' \subseteq Octets /\ good' \subseteq Octets /\ pc' = pc /\ active' = active
  BY <1>3 DEF Apply, IInv, TypeOK
<1>10. used' \subseteq Octets /\ met' \subseteq Octets
  BY DEF Apply, Enters, Meets, IInv, TypeOK
<1>. QED
  BY <1>4, <1>5, <1>6, <1>7, <1>8, <1>9, <1>10 DEF Apply, world, IInv, TypeOK

LEMMA StepTypes == IInv /\ [Next]_vars => TypeOK'
<1>. SUFFICES ASSUME IInv, [Next]_vars PROVE TypeOK'
  OBVIOUS
<1>. USE BoundsAreNaturals DEF IInv
<1>0. Nowhere \in [Octets -> Session \cup {None}]
  BY DEF Nowhere
<1>1. CASE UNCHANGED vars
  BY <1>1 DEF vars, TypeOK
<1>2. CASE ReadSessions
  <2>1. \A seen : seen \in [Octets -> Session \cup {None}] /\ Begin(seen) =>
          /\ pc' \in {"idle", "apply", "remove"} /\ active' \in [Octets -> Session \cup {None}]
          /\ todo' \subseteq Octets /\ good' \subseteq Octets
    BY DEF Begin
  <2>2. trouble' \in 0 .. MaxTrouble
    BY <1>2 DEF ReadSessions, Trouble, TypeOK
  <2>. QED
    BY <1>0, <1>2, <2>1, <2>2 DEF ReadSessions, world, nft, tc, TypeOK
<1>3. CASE FindStale
  BY <1>3 DEF FindStale, world, nft, tc, TypeOK
<1>4. CASE Finish
  BY <1>0, <1>4 DEF Finish, OutRulesLeft, Trouble, world, tc, TypeOK
<1>5. ASSUME NEW o \in Octets, Apply(o) PROVE TypeOK'
  BY <1>5, ApplyTypes
<1>6. ASSUME NEW o \in Octets, Remove(o) PROVE TypeOK'
  <2>1. class' \in [Classids -> Limits \cup {None}] /\ filter' \in [Marks -> Classids \cup {None}]
    BY <1>6 DEF Remove, Unlimited, TypeOK
  <2>2. used' \subseteq Octets /\ met' \subseteq Octets
    BY <1>6 DEF Remove, Leaves, Meets, TypeOK
  <2>. QED
    BY <1>6, <2>1, <2>2 DEF Remove, world, nft, TypeOK
<1>7. CASE LookupFails
  BY <1>0, <1>7 DEF LookupFails, Trouble, world, nft, tc, TypeOK
<1>8. ASSUME NEW o \in Octets, NEW s \in Session, Connect(o, s) PROVE TypeOK'
  BY <1>8 DEF Connect, Change, nft, tc, daemon, TypeOK
<1>9. ASSUME NEW o \in Octets, Disconnect(o) PROVE TypeOK'
  BY <1>9 DEF Disconnect, nft, tc, daemon, TypeOK
<1>10. ASSUME NEW u \in Users, NEW p \in Plans \cup {None}, EditRates(u, p) PROVE TypeOK'
  BY <1>10 DEF EditRates, Change, nft, tc, daemon, TypeOK
<1>11. CASE FirewallReload
  BY <1>11 DEF FirewallReload, Trouble, world, tc, daemon, TypeOK
<1>12. CASE Restart
  BY <1>0, <1>12 DEF Restart, Trouble, world, nft, tc, TypeOK
<1>. QED
  BY <1>1, <1>2, <1>3, <1>4, <1>5, <1>6, <1>7, <1>8, <1>9, <1>10, <1>11, <1>12 DEF Next, Iteration

-----------------------------------------------------------------------------
(* Filters, loops and what is shaped.                                      *)

\* A filter is only ever added for the VIP at hand.
LEMMA StepOwnFilters == IInv /\ [Next]_vars => OwnFilters'
<1>. SUFFICES ASSUME IInv, [Next]_vars PROVE OwnFilters'
  OBVIOUS
<1>1. CASE UNCHANGED <<filter, used>>
  BY <1>1 DEF IInv, OwnFilters
<1>2. CASE filter' = [m \in Marks |-> None]
  BY <1>2 DEF OwnFilters
<1>3. ASSUME NEW o \in Octets, Apply(o) PROVE OwnFilters'
  <2>1. PICK fails : Limited(o, PlanOf(active[o].user), fails)
    BY <1>3 DEF Apply
  <2>2. ASSUME NEW m \in Marks
        PROVE  \/ filter'[m] = filter[m]
               \/ m = UpMark(o) /\ filter'[m] = UpClass(o)
               \/ m = DownMark(o) /\ filter'[m] = DownClass(o)
    BY <2>1, <2>2 DEF Limited
  <2>3. used' = used \cup {o}
    BY <1>3 DEF Apply, Enters
  <2>. QED
    BY <2>2, <2>3 DEF IInv, OwnFilters
<1>4. ASSUME NEW o \in Octets, Remove(o) PROVE OwnFilters'
  <2>1. \A m \in Marks : filter'[m] # None => filter'[m] = filter[m]
    BY <1>4 DEF Remove, Unlimited
  <2>2. \/ used' = used
        \/ /\ used' = used \ {o}
           /\ filter'[UpMark(o)] = None /\ filter'[DownMark(o)] = None
    BY <1>4 DEF Remove, Leaves
  <2>. QED
    BY <2>1, <2>2 DEF IInv, OwnFilters
<1>. QED
  BY <1>1, <1>2, <1>3, <1>4 DEF Next, Iteration, vars, ReadSessions, FindStale, Finish, LookupFails,
     Connect, Disconnect, EditRates, FirewallReload, Restart, tc

\* A VIP that comes into use is among those that have met another, or meets none.
LEMMA StepOwnNumbers == IInv /\ [Next]_vars => OwnNumbers' /\ good' \subseteq used'
<1>. SUFFICES ASSUME IInv, [Next]_vars PROVE OwnNumbers' /\ good' \subseteq used'
  OBVIOUS
<1>0. OwnNumbers /\ Loops /\ good \subseteq used /\ used \subseteq Octets
  BY DEF IInv, TypeOK
<1>1. CASE UNCHANGED <<used, met>> /\ good' \subseteq good
  BY <1>0, <1>1 DEF OwnNumbers
<1>2. CASE used' = {} /\ good' = {}
  BY <1>2 DEF OwnNumbers
<1>3. ASSUME NEW o \in Octets, Apply(o) PROVE OwnNumbers' /\ good' \subseteq used'
  <2>1. /\ used' = used \cup {o} /\ good' \subseteq good \cup {o}
        /\ met' = (met \ {o}) \cup (Meets(o) \cap used) \cup (IF Meets(o) \cap used = {} THEN {} ELSE {o})
    BY <1>3 DEF Apply, Enters
  <2>2. ASSUME NEW v \in used' \ met', NEW w \in used' \ {v} PROVE Apart(v, w)
    <3>1. CASE v = o
      BY <1>0, <2>1, <3>1 DEF Meets
    <3>2. CASE v # o
      <4>1. v \in used \ met /\ Apart(o, v)
        BY <1>0, <2>1, <3>2 DEF Meets
      <4>. QED
        BY <1>0, <2>1, <4>1, ApartBothWays DEF OwnNumbers
    <3>. QED
      BY <3>1, <3>2
  <2>. QED
    BY <1>0, <2>1, <2>2 DEF OwnNumbers
<1>4. ASSUME NEW o \in Octets, Remove(o) PROVE OwnNumbers' /\ good' \subseteq used'
  <2>1. used \ {o} \subseteq used' /\ used' \subseteq used /\ met \subseteq met' /\ good' = good
    BY <1>4 DEF Remove, Leaves
  <2>2. o \notin good
    BY <1>0, <1>4 DEF Remove, Loops
  <2>. QED
    BY <1>0, <2>1, <2>2 DEF OwnNumbers
<1>. QED
  BY <1>1, <1>2, <1>3, <1>4 DEF Next, Iteration, vars, ReadSessions, Begin, FindStale, Finish, LookupFails,
     Connect, Disconnect, EditRates, FirewallReload, Restart, tc

\* An iteration removes no VIP that it has seen.
LEMMA StepLoops == IInv /\ [Next]_vars => Loops'
<1>. SUFFICES ASSUME IInv, [Next]_vars PROVE Loops'
  OBVIOUS
<1>0. Loops /\ TypeOK
  BY DEF IInv
<1>1. CASE UNCHANGED vars
  BY <1>0, <1>1 DEF vars, Loops
<1>2. CASE ReadSessions
  <2>1. ASSUME NEW seen, Begin(seen), UNCHANGED session PROVE Loops'
    BY <1>0, <2>1 DEF Begin, Loops
  <2>. QED
    BY <1>2, <2>1 DEF ReadSessions, world
<1>3. CASE FindStale
  BY <1>0, <1>3 DEF FindStale, world, Loops
<1>4. CASE Finish
  BY <1>0, <1>4 DEF Finish, world, Loops
<1>5. ASSUME NEW o \in Octets, Apply(o) PROVE Loops'
  <2>1. pc = "apply" /\ o \in todo /\ todo' \subseteq todo /\ UNCHANGED <<pc, active, session>>
    BY <1>5 DEF Apply, world
  <2>2. \/ good' \subseteq good
        \/ good' \subseteq good \cup {o} /\ session[o] = active[o]
    <3>1. PICK fails \in {{}} \cup {{c} : c \in Commands} :
            good' = IF fails = {} /\ session[o] = active[o] THEN good \cup {o} ELSE good \ {o}
      BY <1>5 DEF Apply
    <3>2. CASE session[o] = active[o]
      <4>1. good' \subseteq good \cup {o}
        BY <3>1
      <4>. QED
        BY <3>2, <4>1
    <3>3. CASE session[o] # active[o]
      BY <3>1, <3>3
    <3>. QED
      BY <3>2, <3>3
  <2>. QED
    BY <1>0, <2>1, <2>2 DEF Loops
<1>6. ASSUME NEW o \in Octets, Remove(o) PROVE Loops'
  BY <1>0, <1>6 DEF Remove, world, Loops
<1>7. CASE LookupFails
  BY <1>0, <1>7 DEF LookupFails, world, Loops
<1>8. ASSUME NEW o \in Octets, NEW s \in Session, Connect(o, s) PROVE Loops'
  <2>1. s # None
    BY NoneIsNoEntry
  <2>. QED
    BY <1>0, <1>8, <2>1 DEF Connect, daemon, Loops, TypeOK
<1>9. ASSUME NEW o \in Octets, Disconnect(o) PROVE Loops'
  BY <1>0, <1>9 DEF Disconnect, daemon, Loops, TypeOK
<1>10. ASSUME NEW u \in Users, NEW p \in Plans \cup {None}, EditRates(u, p) PROVE Loops'
  BY <1>0, <1>10 DEF EditRates, daemon, Loops
<1>11. CASE FirewallReload
  BY <1>0, <1>11 DEF FirewallReload, world, daemon, Loops
<1>12. CASE Restart
  BY <1>0, <1>12 DEF Restart, world, Loops
<1>. QED
  BY <1>1, <1>2, <1>3, <1>4, <1>5, <1>6, <1>7, <1>8, <1>9, <1>10, <1>11, <1>12 DEF Next, Iteration

\* What nobody has touched is still as it was shaped.
LEMMA KeptShaped ==
  ASSUME NEW o, Shaped(o), upRule \subseteq upRule', downRule \subseteq downRule',
         filter'[UpMark(o)] = filter[UpMark(o)], filter'[DownMark(o)] = filter[DownMark(o)],
         class'[UpClass(o)] = class[UpClass(o)], class'[DownClass(o)] = class[DownClass(o)],
         PlanOf(session[o].user)' = PlanOf(session[o].user)
  PROVE  Shaped(o)'
BY DEF Shaped

\* An iteration shapes a VIP whose commands do not fail and that meets none.
LEMMA ApplyShapes ==
  ASSUME IInv, NEW o \in Octets, Apply(o), o \in good' \ met'
  PROVE  Shaped(o)'
<1>0. o \in todo /\ UNCHANGED <<session, rates>> /\ active[o] = session[o]
  BY DEF Apply, world
<1>1. /\ Marked(o, {}) /\ Limited(o, PlanOf(active[o].user), {})
      /\ Meets(o) \cap used = {}
  BY DEF Apply, Enters
<1>2. <<o, "forward">> \in upRule' /\ o \in downRule'
  BY <1>1 DEF Marked, Chains
<1>3. UpClass(o) # DownClass(o)
  BY ClassesDiffer
<1>4. filter'[UpMark(o)] \in UpFilters(o) /\ filter'[DownMark(o)] \in DownFilters(o)
  <2>1. /\ FilterPresent(UpMark(o)) => filter[UpMark(o)] \in UpFilters(o)
        /\ FilterPresent(DownMark(o)) => filter[DownMark(o)] \in DownFilters(o)
    BY <1>1, FilterFound DEF IInv
  <2>2. /\ filter'[UpMark(o)] = IF FilterPresent(UpMark(o)) THEN filter[UpMark(o)] ELSE UpClass(o)
        /\ filter'[DownMark(o)] = IF FilterPresent(DownMark(o)) THEN filter[DownMark(o)]
                                 ELSE IF UpMark(o) = DownMark(o) THEN UpClass(o) ELSE DownClass(o)
    BY <1>1, NumbersKnown DEF Limited
  <2>. QED
    BY <2>1, <2>2 DEF UpFilters, DownFilters
<1>5. /\ class'[UpClass(o)] = <<PlanOf(active[o].user), "up">>
      /\ class'[DownClass(o)] = <<PlanOf(active[o].user), "down">>
  BY <1>1, <1>3, NumbersKnown DEF Limited
<1>6. PlanOf(session[o].user)' = PlanOf(active[o].user)
  BY <1>0 DEF PlanOf
<1>. QED
  BY <1>2, <1>4, <1>5, <1>6 DEF Shaped, Chains, UpFilters, DownFilters

\* No step disturbs the shaping of a good VIP and lets it count as one that has
\* met none.
LEMMA StepShaped ==
  ASSUME IInv, [Next]_vars, NEW o \in good' \ met'
  PROVE  Shaped(o)'
<1>0. /\ TypeOK /\ OwnFilters /\ Loops /\ \A w \in good \ met : Shaped(w)
      /\ good \subseteq used /\ o \in Octets
  BY StepTypes DEF IInv, TypeOK
<1>1. /\ UpMark(o) \in Marks /\ DownMark(o) \in Marks
      /\ UpClass(o) \in Classids /\ DownClass(o) \in Classids
      /\ UpClass(o) # None /\ DownClass(o) # None
  BY <1>0, NumbersKnown
<1>2. CASE /\ UNCHANGED <<nft, tc, session, rates>> /\ good' \subseteq good
  <2>1. Shaped(o)
    BY <1>0, <1>2 DEF tc
  <2>. QED
    BY <1>2, <2>1 DEF nft, tc, Shaped, PlanOf
<1>3. CASE Finish
  <2>1. o \in good \ met /\ UNCHANGED <<session, rates, upRule, downRule, class, filter>>
    BY <1>3 DEF Finish, world, tc
  <2>. QED
    BY <1>0, <2>1, KeptShaped DEF PlanOf
<1>4. ASSUME NEW w \in Octets, Apply(w) PROVE Shaped(o)'
  <2>1. CASE w = o
    BY <1>0, <1>4, <2>1, ApplyShapes DEF Apply
  <2>2. CASE w # o
    <3>1. PICK fails : /\ Marked(w, fails) /\ Limited(w, PlanOf(active[w].user), fails)
                       /\ good' \subseteq good \cup {w}
      BY <1>4 DEF Apply
    <3>2. o \in good \ met /\ Apart(w, o) /\ Shaped(o)
      BY <1>0, <1>4, <2>2, <3>1 DEF Apply, Enters, Meets
    <3>3. FilterPresent(UpMark(o)) /\ FilterPresent(DownMark(o))
      <4>1. filter[DownMark(o)] # None /\ (filter[UpMark(o)] = None => Begins(UpMark(o), DownMark(o)))
        BY <1>1, <3>2 DEF Shaped, UpFilters, DownFilters
      <4>. QED
        BY <1>1, <4>1 DEF FilterPresent, Begins
    <3>4. {UpClass(o), DownClass(o)} \cap {UpClass(w), DownClass(w)} = {}
      BY <3>2, ApartMeans
    <3>5. UNCHANGED <<session, rates>> /\ upRule \subseteq upRule' /\ downRule \subseteq downRule'
      BY <1>4, <3>1 DEF Apply, world, Marked
    <3>6. filter'[UpMark(o)] = filter[UpMark(o)] /\ filter'[DownMark(o)] = filter[DownMark(o)]
      BY <1>1, <3>1, <3>3 DEF Limited
    <3>7. class'[UpClass(o)] = class[UpClass(o)] /\ class'[DownClass(o)] = class[DownClass(o)]
      BY <1>1, <3>1, <3>4 DEF Limited
    <3>. QED
      BY <3>2, <3>5, <3>6, <3>7, KeptShaped DEF PlanOf
  <2>. QED
    BY <2>1, <2>2
<1>5. ASSUME NEW w \in Octets, Remove(w) PROVE Shaped(o)'
  <2>1. /\ pc = "remove" /\ w \in todo /\ Unlimited(w) /\ o \in good \ met
        /\ o \notin Meets(w) \cap used
        /\ UNCHANGED <<session, rates, upRule, downRule>>
    BY <1>5 DEF Remove, Leaves, world, nft
  <2>2. w # o /\ Apart(w, o) /\ Shaped(o)
    BY <1>0, <2>1 DEF Loops, Meets
  <2>3. /\ {UpClass(o), DownClass(o)} \cap {UpClass(w), DownClass(w)} = {}
        /\ {UpMark(o), DownMark(o)} \cap {UpMark(w), DownMark(w)} = {}
    BY <2>2, ApartMeans
  <2>4. filter'[UpMark(o)] = filter[UpMark(o)] /\ filter'[DownMark(o)] = filter[DownMark(o)]
    BY <1>1, <2>1, <2>3 DEF Unlimited
  <2>5. class'[UpClass(o)] = class[UpClass(o)] /\ class'[DownClass(o)] = class[DownClass(o)]
    BY <1>1, <2>1, <2>3 DEF Unlimited
  <2>. QED
    BY <2>1, <2>2, <2>4, <2>5, KeptShaped DEF PlanOf
<1>6. ASSUME NEW w \in Octets, NEW s \in Session, Connect(w, s) PROVE Shaped(o)'
  <2>1. o \in good \ met /\ w # o /\ UNCHANGED <<rates, upRule, downRule, class, filter>>
    BY <1>0, <1>6 DEF Connect, Loops, nft, tc
  <2>2. session'[o] = session[o]
    BY <1>0, <1>6, <2>1 DEF Connect, TypeOK
  <2>. QED
    BY <1>0, <2>1, <2>2, KeptShaped DEF PlanOf
<1>7. ASSUME NEW w \in Octets, Disconnect(w) PROVE Shaped(o)'
  <2>1. o \in good \ met /\ w # o /\ UNCHANGED <<rates, upRule, downRule, class, filter>>
    BY <1>7 DEF Disconnect, nft, tc
  <2>2. session'[o] = session[o]
    BY <1>0, <1>7, <2>1 DEF Disconnect, TypeOK
  <2>. QED
    BY <1>0, <2>1, <2>2, KeptShaped DEF PlanOf
<1>8. ASSUME NEW u \in Users, NEW p \in Plans \cup {None}, EditRates(u, p) PROVE Shaped(o)'
  <2>1. o \in good \ met /\ session[o].user # u /\ UNCHANGED <<session, upRule, downRule, class, filter>>
    BY <1>8 DEF EditRates, nft, tc
  <2>2. session[o].user \in Users
    BY <1>0, <2>1 DEF TypeOK, Loops, Session
  <2>3. rates'[session[o].user] = rates[session[o].user]
    BY <1>0, <1>8, <2>1, <2>2 DEF EditRates, TypeOK
  <2>. QED
    BY <1>0, <2>1, <2>3, KeptShaped DEF PlanOf
<1>9. CASE ReadSessions
  BY <1>2, <1>9 DEF ReadSessions, Begin, world, nft, tc
<1>10. CASE UNCHANGED vars \/ FindStale \/ LookupFails \/ FirewallReload \/ Restart
  BY <1>2, <1>10 DEF vars, FindStale, LookupFails, FirewallReload, Restart, world, nft, tc
<1>. QED
  BY <1>3, <1>4, <1>5, <1>6, <1>7, <1>8, <1>9, <1>10 DEF Next, Iteration

LEMMA SpecIInv == Spec => []IInv
<1>1. IInv /\ [Next]_vars => IInv'
  <2>. SUFFICES ASSUME IInv, [Next]_vars PROVE IInv'
    OBVIOUS
  <2>1. \A o \in good' \ met' : Shaped(o)'
    BY StepShaped
  <2>. QED
    BY <2>1, StepTypes, StepOwnFilters, StepOwnNumbers, StepLoops DEF IInv
<1>. QED
  BY <1>1, InitIInv, PTL DEF Spec

\* The variables keep their types: tc's filters name classes of the scheme and
\* nft's rules marks of the scheme, whatever fails or restarts.
THEOREM TypeCorrect == Spec => []TypeOK
<1>1. IInv => TypeOK
  BY DEF IInv
<1>. QED
  BY <1>1, SpecIInv, PTL

\* apply_bandwidth and remove_bandwidth: once shaped, a session keeps its own
\* customer's rates unless its VIP meets one in use in a number; with one mark for
\* both ways it has one of the two rates both ways.
THEOREM StaysShapedAlways == Spec => []StaysShaped
<1>1. IInv => StaysShaped
  <2>. SUFFICES ASSUME IInv, NEW o \in good \ met
                PROVE  UpLimit(o) \in MayBe(o, "up") /\ DownLimit(o) \in MayBe(o, "down")
    BY DEF StaysShaped
  <2>1. o \in Octets /\ Shaped(o)
    BY DEF IInv, TypeOK
  <2>2. UpLimit(o) = Limit(UpMark(o)) /\ DownLimit(o) = Limit(DownMark(o))
    BY <2>1 DEF Shaped, UpLimit, DownLimit
  <2>3. UpClass(o) # None /\ DownClass(o) # None
    BY <2>1, NumbersKnown
  <2>4. /\ filter[UpMark(o)] = UpClass(o) => Limit(UpMark(o)) = <<PlanOf(session[o].user), "up">>
        /\ filter[UpMark(o)] = DownClass(o) => Limit(UpMark(o)) = <<PlanOf(session[o].user), "down">>
        /\ filter[DownMark(o)] = UpClass(o) => Limit(DownMark(o)) = <<PlanOf(session[o].user), "up">>
        /\ filter[DownMark(o)] = DownClass(o) => Limit(DownMark(o)) = <<PlanOf(session[o].user), "down">>
        /\ filter[UpMark(o)] = None => Limit(UpMark(o)) = None
    BY <2>1, <2>3 DEF Shaped, Limit
  <2>5. CASE UpMark(o) = DownMark(o)
    BY <2>1, <2>2, <2>4, <2>5 DEF Shaped, UpFilters, DownFilters, MayBe
  <2>6. CASE UpMark(o) # DownMark(o)
    BY <2>1, <2>2, <2>4, <2>6 DEF Shaped, UpFilters, DownFilters, MayBe
  <2>. QED
    BY <2>5, <2>6
<1>. QED
  BY <1>1, SpecIInv, PTL
=============================================================================
