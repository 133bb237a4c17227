----------------------- MODULE BotConversationsProofs -----------------------
(***************************************************************************)
(* For any names and choices, and any number of summaries, starts, Backs,  *)
(* restarts and writes: types, the choices that a state takes for given    *)
(* are there, and what Confirm makes is what the newest summary says.      *)
(*                                                                         *)
(* The argument: what is kept in MariaDB is a state with its choices, like *)
(* what is in the process, as long as both writes succeed; a summary's     *)
(* number is new, and the choices of a wizard that waits for Confirm are   *)
(* those of its newest summary, unless it was loaded after a restart.      *)
(***************************************************************************)
EXTENDS BotConversations, TLAPS

States == {"none", "select", "notes", "name", "duration", "cap", "speed", "device", "confirm"}

\* The choices of a wizard, by key.
Choices == {d \in [Keys -> Value \cup Tiers] :
              /\ d.name \in Names \cup {Unset} /\ d.duration \in Durations \cup {Unset}
              /\ d.cap \in Caps \cup {Unset} /\ d.speed \in Speeds \cup {Unset}
              /\ d.device \in Devices \cup {Unset} /\ d.tier \in Tiers}

\* A choice for a key.
Fits(k, v) ==
  \/ k = "name" /\ v \in Names
  \/ k = "duration" /\ v \in Durations
  \/ k = "cap" /\ v \in Caps
  \/ k = "speed" /\ v \in Speeds
  \/ k = "device" /\ v \in Devices
  \/ k = "tier" /\ v \in Tiers

\* The states of a wizard.
StatesOf(w) == IF w = "create" THEN States \ {"select"} ELSE States \ {"name", "device", "notes"}

Types ==
  /\ conv \in [Wizards -> States] /\ savedConv \in [Wizards -> States]
  /\ \A w \in Wizards : conv[w] \in StatesOf(w) /\ savedConv[w] \in StatesOf(w)
  /\ data \in [Wizards -> Choices] /\ savedData \in [Wizards -> Choices]
  /\ cards \subseteq [no : 1 .. MaxCards, of : Wizards, name : Names \cup {Unset}, tier : Tiers]
  /\ taken \subseteq Names
  /\ newest \in [Wizards -> 0 .. MaxCards]
  /\ shown \in 0 .. MaxCards /\ starts \in 0 .. MaxStarts /\ backs \in 0 .. MaxBacks
  /\ stops \in 0 .. MaxStops /\ flushes \in 0 .. MaxFlushes /\ failed \in BOOLEAN

\* The choices that wizard w has made when it is in state s are in d.
Chosen(w, s, d) ==
  /\ s \notin {"none", "select", "name"} => d.name # Unset
  /\ s \notin {"none", "select", "name", "duration"} => d.duration # Unset
  /\ s \in {"speed", "device", "notes", "confirm"} => d.cap # Unset
  /\ s \in {"device", "notes", "confirm"} => d.speed # Unset
  /\ s = "notes" \/ (s = "confirm" /\ w = "create") => d.device # Unset
  /\ s = "confirm" => d.tier = <<d.duration, d.cap>>

Ready ==
  ~failed => \A w \in Wizards : Chosen(w, conv[w], data[w]) /\ Chosen(w, savedConv[w], savedData[w])

\* The newest summary shows the choices of a wizard that waits for Confirm.
Shows ==
  \A c \in cards :
    /\ c.no \in 1 .. shown
    /\ conv[c.of] = "confirm" /\ c.no = newest[c.of] =>
         c.name = data[c.of].name /\ c.tier = data[c.of].tier

IInv == Types /\ Ready /\ Shows /\ MadeIsShown

-----------------------------------------------------------------------------
(* States and choices.                                                     *)

\* The states that have handlers.
LEMMA GivenStates == DOMAIN Given = States
BY DEF Given, States

\* Chosen says of a state what Given lists for it.
LEMMA ChosenMeans ==
  ASSUME NEW w \in Wizards, NEW s \in States, NEW d \in Choices, Chosen(w, s, d)
  PROVE  /\ \A k \in Given[s] : d[k] # Unset
         /\ s = "confirm" => d.tier = <<d.duration, d.cap>> /\ (w = "create" => d.device # Unset)
<1>1. /\ d.name = d["name"] /\ d.duration = d["duration"] /\ d.cap = d["cap"]
      /\ d.speed = d["speed"] /\ d.device = d["device"]
  BY DEF Choices
<1>2. CASE s \in {"none", "select", "name"}
  BY <1>2 DEF Given
<1>3. CASE s = "duration"
  BY <1>1, <1>3 DEF Given, Chosen
<1>4. CASE s = "cap"
  BY <1>1, <1>4 DEF Given, Chosen
<1>5. CASE s = "speed"
  BY <1>1, <1>5 DEF Given, Chosen
<1>6. CASE s = "device"
  BY <1>1, <1>6 DEF Given, Chosen
<1>7. CASE s = "notes"
  BY <1>1, <1>7 DEF Given, Chosen
<1>8. CASE s = "confirm"
  BY <1>1, <1>8 DEF Given, Chosen
<1>. QED
  BY <1>2, <1>3, <1>4, <1>5, <1>6, <1>7, <1>8 DEF States, Chosen

\* A wizard without choices.
LEMMA EmptyIsChoices == Empty \in Choices
BY DEF Empty, Choices, Keys, Value, Tiers

\* Taking a choice.
LEMMA ChoiceTaken ==
  ASSUME NEW d \in Choices, NEW k \in Keys, NEW v, Fits(k, v)
  PROVE  [d EXCEPT ![k] = v] \in Choices
<1>1. v \in Value \cup Tiers /\ d \in [Keys -> Value \cup Tiers]
  BY DEF Value, Choices, Fits
<1>2. [d EXCEPT ![k] = v] \in [Keys -> Value \cup Tiers]
  BY <1>1
<1>. QED
  BY <1>1, <1>2 DEF Choices, Keys, Fits

\* The tier of the duration and the cap chosen.
LEMMA TierTyped == ASSUME Types, NEW w \in Wizards PROVE Tier(w) \in Tiers
BY DEF Types, Choices, Tier, Tiers

\* What moving, putting and forgetting do to a wizard and to the other.
LEMMA Moved ==
  ASSUME Types, NEW w \in Wizards, NEW s \in StatesOf(w), Move(w, s)
  PROVE  /\ conv' \in [Wizards -> States] /\ conv'[w] = s
         /\ \A v \in Wizards \ {w} : conv'[v] = conv[v]
         /\ \A v \in Wizards : conv'[v] \in StatesOf(v)
BY DEF Types, Move, StatesOf

LEMMA Forgotten ==
  ASSUME Types, NEW w \in Wizards, Forget(w)
  PROVE  /\ data' \in [Wizards -> Choices]
         /\ \A v \in Wizards \ {w} : data'[v] = data[v]
BY EmptyIsChoices DEF Types, Forget

LEMMA Taken ==
  ASSUME Types, NEW w \in Wizards, NEW k \in Keys, NEW v, Put(w, k, v), Fits(k, v)
  PROVE  /\ data' \in [Wizards -> Choices]
         /\ data'[w] = [data[w] EXCEPT ![k] = v]
         /\ data'[w][k] = v
         /\ \A j \in Keys \ {k} : data'[w][j] = data[w][j]
         /\ \A u \in Wizards \ {w} : data'[u] = data[u]
<1>1. data \in [Wizards -> Choices] /\ data[w] \in [Keys -> Value \cup Tiers]
  BY DEF Types, Choices
<1>2. [data[w] EXCEPT ![k] = v] \in Choices
  BY <1>1, ChoiceTaken
<1>3. data' = [data EXCEPT ![w] = [data[w] EXCEPT ![k] = v]]
  BY <1>1 DEF Put
<1>. QED
  BY <1>1, <1>2, <1>3

-----------------------------------------------------------------------------
(* Steps that show no summary and write nothing to MariaDB but deletions.  *)

\* A wizard stays where it is, or walks to where its choices are made; none
\* walks to Confirm.
Walk(w) == \/ conv'[w] = conv[w] /\ data'[w] = data[w]
           \/ /\ conv'[w] # "confirm"
              /\ Chosen(w, conv[w], data[w]) => Chosen(w, conv'[w], data'[w])

Walks ==
  /\ conv' \in [Wizards -> States] /\ data' \in [Wizards -> Choices]
  /\ \A w \in Wizards : conv'[w] \in StatesOf(w) /\ Walk(w)

SavedShrinks ==
  /\ savedConv' \in [Wizards -> States] /\ savedData' = savedData
  /\ \A w \in Wizards : savedConv'[w] \in {savedConv[w], "none"}

Ordinary ==
  /\ Walks /\ SavedShrinks
  /\ cards' \subseteq cards /\ UNCHANGED <<newest, shown, stops, flushes, failed>>
  /\ taken' \subseteq Names /\ starts' \in 0 .. MaxStarts /\ backs' \in 0 .. MaxBacks
  /\ MadeIsShown'

\* A step that is ordinary keeps the invariant.
LEMMA OrdinaryKeeps == IInv /\ Ordinary => IInv'
<1>. SUFFICES ASSUME IInv, Ordinary PROVE IInv'
  OBVIOUS
<1>1. Types'
  BY DEF IInv, Ordinary, Walks, SavedShrinks, Types, StatesOf, States
<1>2. Ready'
  <2>. SUFFICES ASSUME ~failed, NEW w \in Wizards
                PROVE  Chosen(w, conv'[w], data'[w]) /\ Chosen(w, savedConv'[w], savedData'[w])
    BY DEF Ordinary, Ready
  <2>1. Chosen(w, conv[w], data[w]) /\ Chosen(w, savedConv[w], savedData[w])
    BY DEF IInv, Ready
  <2>2. \A d : Chosen(w, "none", d)
    BY DEF Chosen
  <2>. QED
    BY <2>1, <2>2 DEF Ordinary, Walks, Walk, SavedShrinks
<1>3. Shows'
  BY DEF IInv, Shows, Types, Ordinary, Walks, Walk
<1>. QED
  BY <1>1, <1>2, <1>3 DEF IInv, Ordinary

\* A choice leads to the next state.
LEMMA PickOrdinary ==
  ASSUME IInv, NEW w \in Wizards, NEW s, NEW k, NEW v, NEW next, Pick(w, s, k, v, next),
         next \in StatesOf(w), Fits(k, v),
         <<s, k, next>> \in {<<"name", "name", "duration">>, <<"select", "name", "duration">>,
            <<"duration", "duration", "cap">>, <<"cap", "cap", "speed">>,
            <<"speed", "speed", "device">>, <<"device", "device", "notes">>}
  PROVE  Ordinary
<1>1. k \in Keys /\ k # "tier" /\ v # Unset /\ conv[w] = s
  BY UnsetIsNoValue DEF Keys, Fits, Pick, Entered
<1>2. /\ data' \in [Wizards -> Choices] /\ data'[w][k] = v
      /\ \A j \in Keys \ {k} : data'[w][j] = data[w][j]
      /\ \A u \in Wizards \ {w} : data'[u] = data[u]
  <2>1. Types /\ Put(w, k, v)
    BY DEF Pick, IInv
  <2>. QED
    BY <1>1, <2>1, Taken, ZenonT(40)
<1>3. /\ conv' \in [Wizards -> States] /\ conv'[w] = next
      /\ \A u \in Wizards \ {w} : conv'[u] = conv[u]
      /\ \A u \in Wizards : conv'[u] \in StatesOf(u)
  BY Moved DEF Pick, IInv
<1>4. Chosen(w, s, data[w]) => Chosen(w, next, data'[w])
  BY <1>1, <1>2 DEF Chosen, Keys
<1>5. Walks
  BY <1>1, <1>2, <1>3, <1>4 DEF Walks, Walk
<1>. QED
  BY <1>5 DEF Ordinary, SavedShrinks, Pick, rest, store, bounds, chat, IInv, Types, MadeIsShown

\* Back leads to a state whose choices are made.
LEMMA BackOrdinary ==
  ASSUME IInv, NEW w \in Wizards, NEW s, NEW to, Back(w, s, to), to \in StatesOf(w),
         <<s, to>> \in {<<"duration", "name">>, <<"duration", "select">>, <<"cap", "duration">>,
                        <<"speed", "cap">>, <<"device", "speed">>}
  PROVE  Ordinary
<1>1. /\ conv' \in [Wizards -> States] /\ conv'[w] = to /\ conv[w] = s
      /\ \A u \in Wizards \ {w} : conv'[u] = conv[u]
      /\ \A u \in Wizards : conv'[u] \in StatesOf(u)
  BY Moved DEF Back, Entered, IInv
<1>2. Chosen(w, s, data[w]) => Chosen(w, to, data[w])
  BY DEF Chosen
<1>3. data' = data /\ data' \in [Wizards -> Choices]
  BY DEF Back, IInv, Types
<1>4. Walks
  BY <1>1, <1>2, <1>3 DEF Walks, Walk
<1>. QED
  BY <1>4, BoundsAreNaturals
     DEF Ordinary, SavedShrinks, Back, store, chat, IInv, Types, MadeIsShown

\* A wizard that ends, or starts anew, has no choices to look for.
LEMMA LeaveWalks ==
  ASSUME IInv, NEW w \in Wizards, NEW s \in {"none", "name", "select"}, s \in StatesOf(w), Move(w, s),
         data' = data \/ Forget(w)
  PROVE  Walks
<1>1. /\ conv' \in [Wizards -> States] /\ conv'[w] = s
      /\ \A u \in Wizards \ {w} : conv'[u] = conv[u]
      /\ \A u \in Wizards : conv'[u] \in StatesOf(u)
  BY Moved DEF IInv
<1>2. data' \in [Wizards -> Choices] /\ \A u \in Wizards \ {w} : data'[u] = data[u]
  BY Forgotten DEF IInv, Types
<1>3. \A d : Chosen(w, s, d)
  BY DEF Chosen
<1>. QED
  BY <1>1, <1>2, <1>3 DEF Walks, Walk

\* A command that the state has no handler for.
LEMMA UnmatchedWalks ==
  ASSUME IInv, NEW ws \in SUBSET Wizards, Unmatched(ws), UNCHANGED <<data, savedData>>
  PROVE  Walks /\ SavedShrinks
<1>1. /\ conv' \in [Wizards -> States] /\ savedConv' \in [Wizards -> States]
      /\ \A w \in Wizards : conv'[w] \in {conv[w], "none"} /\ savedConv'[w] \in {savedConv[w], "none"}
  BY DEF Unmatched, IInv, Types, States
<1>2. \A w \in Wizards : "none" \in StatesOf(w) /\ \A d : Chosen(w, "none", d)
  BY DEF Chosen, StatesOf, States
<1>. QED
  BY <1>1, <1>2 DEF SavedShrinks, Walks, Walk, IInv, Types

\* A command starts or ends wizards.
LEMMA CommandOrdinary ==
  ASSUME IInv, CreateStart \/ RenewStart \/ OtherCommand \/ CreateCancel \/ RenewCancel
               \/ (\E n \in Names : RenewAtOnce(n) \/ OtherCreates(n))
               \/ CtCancelled \/ RoCancelled
  PROVE  Ordinary
<1>. USE DEF IInv
<1>0. /\ {"create", "renew"} \subseteq Wizards
      /\ "name" \in StatesOf("create") /\ \A w \in Wizards : "none" \in StatesOf(w)
      /\ "select" \in StatesOf("renew")
  BY DEF Wizards, StatesOf, States
<1>1. CASE CreateStart
  <2>1. Walks /\ SavedShrinks
    <3>1. CASE conv["create"] = "none"
      BY <1>0, <1>1, <3>1, LeaveWalks DEF CreateStart, SavedShrinks, Types
    <3>2. CASE conv["create"] # "none"
      BY <1>1, <3>2, UnmatchedWalks DEF CreateStart
    <3>. QED
      BY <3>1, <3>2
  <2>. QED
    BY <1>1, <2>1, BoundsAreNaturals DEF CreateStart, Ordinary, chat, Types, MadeIsShown
<1>2. CASE RenewStart
  <2>1. Walks /\ SavedShrinks
    <3>1. CASE conv["renew"] # "none"
      BY <1>2, <3>1, UnmatchedWalks DEF RenewStart
    <3>2. CASE conv["renew"] = "none"
      <4>1. PICK s \in {"select", "none"} : conv' = [create |-> "none", renew |-> s]
        BY <1>2, <3>2 DEF RenewStart
      <4>2. conv' \in [Wizards -> States] /\ conv'["create"] = "none" /\ conv'["renew"] = s
        BY <4>1 DEF Wizards, States
      <4>3. data' \in [Wizards -> Choices]
        BY <1>0, <1>2, <3>2, Forgotten DEF RenewStart
      <4>4. \A w \in Wizards : conv'[w] \in {"none", "select"} /\ conv'[w] \in StatesOf(w)
        BY <1>0, <4>2 DEF Wizards
      <4>5. Walks
        BY <4>2, <4>3, <4>4 DEF Walks, Walk, Chosen
      <4>6. SavedShrinks
        BY <1>2, <3>2 DEF RenewStart, SavedShrinks, Types, States
      <4>. QED
        BY <4>5, <4>6
    <3>. QED
      BY <3>1, <3>2
  <2>. QED
    BY <1>2, <2>1, BoundsAreNaturals DEF RenewStart, Ordinary, chat, Types, MadeIsShown
<1>3. CASE OtherCommand
  BY <1>3, UnmatchedWalks DEF OtherCommand, Ordinary, chat, bounds, Types, MadeIsShown
<1>4. CASE CreateCancel \/ CtCancelled
  <2>1. Walks
    BY <1>0, <1>4, LeaveWalks DEF CreateCancel, CtCancelled
  <2>. QED
    BY <1>4, <2>1 DEF CreateCancel, CtCancelled, Ordinary, SavedShrinks, rest, store, chat, bounds,
       Types, MadeIsShown
<1>5. CASE RenewCancel \/ RoCancelled
  <2>1. Walks
    BY <1>0, <1>5, LeaveWalks DEF RenewCancel, RoCancelled
  <2>. QED
    BY <1>5, <2>1 DEF RenewCancel, RoCancelled, Ordinary, SavedShrinks, rest, store, chat, bounds,
       Types, MadeIsShown
<1>6. ASSUME NEW n \in Names, RenewAtOnce(n) PROVE Ordinary
  <2>1. Walks /\ SavedShrinks
    BY <1>0, <1>6, UnmatchedWalks DEF RenewAtOnce, Wizards
  <2>. QED
    BY <1>6, <2>1 DEF RenewAtOnce, Ordinary, chat, bounds, Types, MadeIsShown
<1>7. ASSUME NEW n \in Names, OtherCreates(n) PROVE Ordinary
  BY <1>7 DEF OtherCreates, Ordinary, Walks, Walk, SavedShrinks, store, chat, bounds, Types, MadeIsShown
<1>. QED
  BY <1>1, <1>2, <1>3, <1>4, <1>5, <1>6, <1>7

\* A choice, or Back, under a keyboard of either wizard.
LEMMA ChoiceOrdinary ==
  ASSUME IInv, \/ \E n \in Names : CtName(n) \/ RoSelect(n)
               \/ \E d \in Durations : CtDuration(d) \/ RoDuration(d)
               \/ \E c \in Caps : CtCap(c) \/ RoCap(c)
               \/ \E s \in Speeds : CtSpeed(s)
               \/ \E d \in Devices : CtDevice(d)
               \/ Back("renew", "speed", "cap")
  PROVE  Ordinary
<1>0. /\ "create" \in Wizards /\ "renew" \in Wizards
      /\ {"none", "name", "duration", "cap", "speed", "device", "notes"} \subseteq StatesOf("create")
      /\ {"none", "select", "duration", "cap", "speed"} \subseteq StatesOf("renew")
  BY DEF Wizards, StatesOf, States
<1>1. ASSUME NEW n \in Names, CtName(n) \/ RoSelect(n) PROVE Ordinary
  <2>1. Fits("name", n)
    BY DEF Fits
  <2>2. CASE CtName(n)
    BY <1>0, <2>1, <2>2, PickOrdinary DEF CtName
  <2>3. CASE Pick("renew", "select", "name", n, "duration")
    BY <1>0, <2>1, <2>3, PickOrdinary
  <2>4. CASE Entered("renew", "select") /\ Move("renew", "none") /\ UNCHANGED <<data, rest, chat>>
    <3>1. Walks
      BY <1>0, <2>4, LeaveWalks
    <3>. QED
      BY <2>4, <3>1 DEF Ordinary, SavedShrinks, rest, store, chat, bounds, IInv, Types, MadeIsShown
  <2>. QED
    BY <1>1, <2>2, <2>3, <2>4 DEF RoSelect
<1>2. ASSUME NEW d \in Durations, CtDuration(d) \/ RoDuration(d) PROVE Ordinary
  <2>1. Fits("duration", d)
    BY DEF Fits
  <2>. QED
    BY <1>0, <1>2, <2>1, PickOrdinary, BackOrdinary DEF CtDuration, RoDuration
<1>3. ASSUME NEW c \in Caps, CtCap(c) \/ RoCap(c) PROVE Ordinary
  <2>1. Fits("cap", c)
    BY DEF Fits
  <2>. QED
    BY <1>0, <1>3, <2>1, PickOrdinary, BackOrdinary DEF CtCap, RoCap
<1>4. ASSUME NEW s \in Speeds, CtSpeed(s) PROVE Ordinary
  <2>1. Fits("speed", s)
    BY DEF Fits
  <2>. QED
    BY <1>0, <1>4, <2>1, PickOrdinary, BackOrdinary DEF CtSpeed
<1>5. ASSUME NEW d \in Devices, CtDevice(d) PROVE Ordinary
  <2>1. Fits("device", d)
    BY DEF Fits
  <2>. QED
    BY <1>0, <1>5, <2>1, PickOrdinary, BackOrdinary DEF CtDevice
<1>6. CASE Back("renew", "speed", "cap")
  BY <1>0, <1>6, BackOrdinary
<1>. QED
  BY <1>1, <1>2, <1>3, <1>4, <1>5, <1>6

\* Confirm under the newest summary makes what it says.
LEMMA MadeAsShown ==
  ASSUME IInv, NEW w \in Wizards, NEW c \in cards, Tapped(w, c), Make(w, c)
  PROVE  MadeIsShown'
<1>1. c.of = w /\ conv[w] = "confirm"
  BY DEF Tapped, Entered
<1>2. c.no = newest[w] => c.name = data[w].name /\ c.tier = data[w].tier
  BY <1>1 DEF IInv, Shows
<1>. QED
  BY <1>2 DEF Make, MadeIsShown

\* A tap under a summary.
LEMMA TapOrdinary ==
  ASSUME IInv, NEW c \in cards, CtConfirm(c) \/ CtReturn(c) \/ RoConfirm(c) \/ RoReturn(c)
  PROVE  Ordinary
<1>0. /\ "create" \in Wizards /\ "renew" \in Wizards
      /\ {"none", "name", "notes"} \subseteq StatesOf("create")
      /\ {"none", "speed"} \subseteq StatesOf("renew")
  BY DEF Wizards, StatesOf, States
<1>1. \A w \in Wizards : /\ Answered(c) => cards' \subseteq cards
                         /\ conv[w] \in StatesOf(w) /\ data[w] \in Choices
  BY DEF IInv, Types, Answered
<1>2. CASE CtConfirm(c)
  <2>1. Walks
    <3>1. CASE UNCHANGED <<conv, data>>
      BY <3>1 DEF Walks, Walk, IInv, Types
    <3>2. CASE ~UNCHANGED <<conv, data>>
      <4>1. \E s \in {"none", "name"} : Move("create", s) /\ (data' = data \/ Forget("create"))
        BY <1>2, <3>2 DEF CtConfirm
      <4>. QED
        BY <1>0, <4>1, LeaveWalks
    <3>. QED
      BY <3>1, <3>2
  <2>2. MadeIsShown' /\ taken' \subseteq Names /\ cards' \subseteq cards
    <3>1. CASE UNCHANGED <<taken, made>>
      BY <1>2, <3>1 DEF CtConfirm, Answered, MadeIsShown, IInv, Types
    <3>2. CASE ~UNCHANGED <<taken, made>>
      <4>1. Make("create", c) /\ data["create"]["name"] # Unset /\ cards' \subseteq cards
        BY <1>2, <3>2 DEF CtConfirm, Answered
      <4>2. data["create"].name \in Names
        BY <1>0, <1>1, <4>1 DEF Choices
      <4>. QED
        BY <1>0, <1>2, <4>1, <4>2, MadeAsShown DEF CtConfirm, Make, IInv, Types
    <3>. QED
      BY <3>1, <3>2
  <2>. QED
    BY <1>2, <2>1, <2>2 DEF CtConfirm, Tapped, Ordinary, SavedShrinks, store, bounds, IInv, Types
<1>3. CASE CtReturn(c)
  <2>1. Walks
    <3>1. CASE Move("create", "none")
      BY <1>0, <1>3, <3>1, LeaveWalks DEF CtReturn
    <3>2. CASE Move("create", "notes")
      <4>1. /\ conv' \in [Wizards -> States] /\ conv'["create"] = "notes" /\ data' = data
            /\ \A u \in Wizards \ {"create"} : conv'[u] = conv[u]
            /\ \A u \in Wizards : conv'[u] \in StatesOf(u)
        BY <1>0, <1>3, <3>2, Moved DEF CtReturn, IInv
      <4>2. conv["create"] = "confirm"
        BY <1>3 DEF CtReturn, Tapped, Entered
      <4>3. Walk("create")
        BY <4>1, <4>2 DEF Walk, Chosen
      <4>. QED
        BY <4>1, <4>3 DEF Walks, Walk, IInv, Types
    <3>. QED
      BY <1>3, <3>1, <3>2 DEF CtReturn
  <2>. QED
    BY <1>0, <1>1, <1>3, <2>1, BoundsAreNaturals
       DEF CtReturn, Tapped, Ordinary, SavedShrinks, store, IInv, Types, MadeIsShown
<1>4. CASE RoConfirm(c)
  <2>1. Walks
    BY <1>0, <1>4, LeaveWalks DEF RoConfirm
  <2>2. MadeIsShown' /\ taken' \subseteq Names
    BY <1>0, <1>4, MadeAsShown DEF RoConfirm, Make, IInv, Types, MadeIsShown
  <2>. QED
    BY <1>0, <1>1, <1>4, <2>1, <2>2
       DEF RoConfirm, Tapped, Ordinary, SavedShrinks, store, bounds, IInv, Types
<1>5. CASE RoReturn(c)
  <2>1. Walks
    <3>1. CASE Move("renew", "none") /\ Forget("renew")
      BY <1>0, <3>1, LeaveWalks
    <3>2. CASE Move("renew", "speed") /\ UNCHANGED data
      <4>1. /\ conv' \in [Wizards -> States] /\ conv'["renew"] = "speed" /\ data' = data
            /\ \A u \in Wizards \ {"renew"} : conv'[u] = conv[u]
            /\ \A u \in Wizards : conv'[u] \in StatesOf(u)
        BY <1>0, <3>2, Moved DEF IInv
      <4>2. conv["renew"] = "confirm"
        BY <1>5 DEF RoReturn, Tapped, Entered
      <4>3. Walk("renew")
        BY <4>1, <4>2 DEF Walk, Chosen
      <4>. QED
        BY <4>1, <4>3 DEF Walks, Walk, IInv, Types
    <3>. QED
      BY <1>5, <3>1, <3>2 DEF RoReturn
  <2>. QED
    BY <1>0, <1>1, <1>5, <2>1, BoundsAreNaturals
       DEF RoReturn, Tapped, Ordinary, SavedShrinks, store, IInv, Types, MadeIsShown
<1>. QED
  BY <1>2, <1>3, <1>4, <1>5

-----------------------------------------------------------------------------
(* Summaries, writes and restarts.                                         *)

\* A summary has a new number, and shows the choices of its wizard.
LEMMA ShowKeeps ==
  ASSUME IInv, NEW w \in Wizards, NEW d, Show(w, d), UNCHANGED rest,
         data' \in [Wizards -> Choices], \A u \in Wizards \ {w} : data'[u] = data[u],
         "confirm" \in StatesOf(w), Move(w, "confirm"),
         d.name = data'[w].name, d.tier = data'[w].tier,
         Chosen(w, conv[w], data[w]) => Chosen(w, "confirm", data'[w])
  PROVE  IInv'
<1>1. /\ conv' \in [Wizards -> States] /\ conv'[w] = "confirm"
      /\ \A u \in Wizards \ {w} : conv'[u] = conv[u]
      /\ \A u \in Wizards : conv'[u] \in StatesOf(u)
  BY Moved DEF IInv
<1>2. shown' \in 1 .. MaxCards /\ shown' = shown + 1 /\ shown \in 0 .. MaxCards
  BY BoundsAreNaturals DEF Show, IInv, Types
<1>3. /\ newest' \in [Wizards -> 0 .. MaxCards] /\ newest'[w] = shown'
      /\ \A u \in Wizards \ {w} : newest'[u] = newest[u]
  BY <1>2 DEF Show, IInv, Types
<1>4. cards' = cards \cup {[no |-> shown', of |-> w, name |-> d.name, tier |-> d.tier]}
  BY DEF Show
<1>5. data'[w].name \in Names \cup {Unset} /\ data'[w].tier \in Tiers
  BY DEF Choices
<1>6. Types'
  BY <1>1, <1>2, <1>3, <1>4, <1>5 DEF rest, store, bounds, IInv, Types
<1>7. Ready'
  BY <1>1 DEF rest, store, bounds, IInv, Ready
<1>8. Shows'
  <2>. SUFFICES ASSUME NEW c \in cards'
                PROVE  /\ c.no \in 1 .. shown'
                       /\ conv'[c.of] = "confirm" /\ c.no = newest'[c.of] =>
                            c.name = data'[c.of].name /\ c.tier = data'[c.of].tier
    BY DEF Shows
  <2>1. CASE c \in cards
    <3>1. c.no \in 1 .. shown /\ c.of \in Wizards
      BY <2>1 DEF IInv, Shows, Types
    <3>2. CASE c.of = w
      BY <1>2, <1>3, <3>1, <3>2
    <3>3. CASE c.of # w
      BY <1>1, <1>2, <1>3, <2>1, <3>1, <3>3 DEF IInv, Shows
    <3>. QED
      BY <3>2, <3>3
  <2>2. CASE c \notin cards
    <3>1. c = [no |-> shown', of |-> w, name |-> d.name, tier |-> d.tier]
      BY <1>4, <2>2
    <3>. QED
      BY <1>2, <3>1
  <2>. QED
    BY <2>1, <2>2
<1>. QED
  BY <1>6, <1>7, <1>8 DEF rest, IInv, MadeIsShown

\* The notes of /create, with the summary or without.
LEMMA NotesKeep == IInv /\ CtNotes => IInv'
<1>. SUFFICES ASSUME IInv, CtNotes PROVE IInv'
  OBVIOUS
<1>0. "create" \in Wizards /\ "confirm" \in StatesOf("create") /\ "tier" \in Keys
  BY DEF Wizards, StatesOf, States, Keys
<1>1. Fits("tier", Tier("create")) /\ conv["create"] = "notes" /\ Put("create", "tier", Tier("create"))
  BY <1>0, TierTyped DEF Fits, CtNotes, Entered, IInv
<1>2. /\ data' \in [Wizards -> Choices] /\ data'["create"]["tier"] = Tier("create")
      /\ \A j \in Keys \ {"tier"} : data'["create"][j] = data["create"][j]
      /\ \A u \in Wizards \ {"create"} : data'[u] = data[u]
  <2>1. PICK w \in Wizards : w = "create"
    BY <1>0
  <2>2. PICK v : v = Tier("create")
    OBVIOUS
  <2>3. Fits("tier", v) /\ Put(w, "tier", v)
    BY <1>1, <2>1, <2>2
  <2>4. /\ data' \in [Wizards -> Choices] /\ data'[w]["tier"] = v
        /\ \A j \in Keys \ {"tier"} : data'[w][j] = data[w][j]
        /\ \A u \in Wizards \ {w} : data'[u] = data[u]
    BY <1>0, <2>3, Taken, ZenonT(40) DEF IInv
  <2>. QED
    BY <2>1, <2>2, <2>4
<1>3. data'["create"].tier = <<data'["create"].duration, data'["create"].cap>>
  BY <1>2 DEF Tier, Keys
<1>4. CASE data["create"].name = Unset
  <2>1. conv' = conv /\ Walk("create")
    BY <1>1, <1>2, <1>4 DEF CtNotes, Walk, Chosen, Keys
  <2>2. Walks
    BY <1>2, <2>1 DEF Walks, Walk, IInv, Types
  <2>3. Ordinary
    BY <1>4, <2>2 DEF CtNotes, Ordinary, SavedShrinks, rest, store, chat, bounds, IInv, Types, MadeIsShown
  <2>. QED
    BY <2>3, OrdinaryKeeps
<1>5. CASE data["create"].name # Unset
  <2>. DEFINE d == [data["create"] EXCEPT !.tier = Tier("create")]
  <2>1. d.name = data'["create"].name /\ d.tier = data'["create"].tier
    <3>1. data["create"] \in [Keys -> Value \cup Tiers]
      BY <1>0 DEF IInv, Types, Choices
    <3>. QED
      BY <1>2, <3>1 DEF Keys
  <2>2. Chosen("create", "notes", data["create"]) => Chosen("create", "confirm", data'["create"])
    BY <1>2, <1>3 DEF Chosen, Keys
  <2>3. Show("create", d) /\ Move("create", "confirm") /\ UNCHANGED rest
    BY <1>5 DEF CtNotes
  <2>. HIDE DEF d
  <2>. QED
    BY <1>0, <1>1, <1>2, <2>1, <2>2, <2>3, ShowKeeps
<1>. QED
  BY <1>4, <1>5

\* The choice of the speed in /renew_orphan.
LEMMA SpeedKeeps == ASSUME IInv, NEW s \in Speeds, RoSpeed(s) PROVE IInv'
<1>0. "renew" \in Wizards /\ "confirm" \in StatesOf("renew")
  BY DEF Wizards, StatesOf, States
<1>1. CASE Back("renew", "speed", "cap")
  BY <1>1, ChoiceOrdinary, OrdinaryKeeps
<1>2. CASE ~Back("renew", "speed", "cap")
  <2>. DEFINE d == [data["renew"] EXCEPT !.tier = Tier("renew")]
              e == [data["renew"] EXCEPT !.speed = s]
  <2>1. /\ conv["renew"] = "speed" /\ Move("renew", "confirm") /\ UNCHANGED rest /\ Show("renew", d)
        /\ data' = [data EXCEPT !["renew"] = [e EXCEPT !.tier = Tier("renew")]]
    <3>1. data["renew"] \in [Keys -> Value \cup Tiers] /\ data \in [Wizards -> Choices]
      BY <1>0 DEF IInv, Types, Choices
    <3>. QED
      BY <1>0, <1>2, <3>1 DEF RoSpeed, Entered, Keys
  <2>2. data["renew"] \in Choices /\ data["renew"] \in [Keys -> Value \cup Tiers]
    BY <1>0 DEF IInv, Types, Choices
  <2>3. e \in Choices
    BY <2>2, ChoiceTaken DEF Fits, Keys
  <2>4. [e EXCEPT !.tier = Tier("renew")] \in Choices
    <3>. HIDE DEF e
    <3>. QED
      BY <1>0, <2>3, ChoiceTaken, TierTyped DEF Fits, Keys, IInv
  <2>5. /\ data' \in [Wizards -> Choices] /\ data'["renew"] = [e EXCEPT !.tier = Tier("renew")]
        /\ \A u \in Wizards \ {"renew"} : data'[u] = data[u]
    BY <1>0, <2>1, <2>4 DEF IInv, Types
  <2>6. /\ data'["renew"].tier = Tier("renew") /\ data'["renew"].speed = s
        /\ data'["renew"].name = data["renew"].name /\ data'["renew"].duration = data["renew"].duration
        /\ data'["renew"].cap = data["renew"].cap
    BY <2>2, <2>5 DEF Keys
  <2>7. d.name = data'["renew"].name /\ d.tier = data'["renew"].tier
    BY <2>2, <2>6 DEF Keys
  <2>8. Chosen("renew", "speed", data["renew"]) => Chosen("renew", "confirm", data'["renew"])
    BY <2>6, UnsetIsNoValue DEF Chosen, Tier
  <2>. HIDE DEF d, e
  <2>. QED
    BY <1>0, <2>1, <2>5, <2>7, <2>8, ShowKeeps
<1>. QED
  BY <1>1, <1>2

\* Both writes succeed, or the store is known to be out of date.
LEMMA FlushKeeps == IInv /\ Flush => IInv'
<1>. SUFFICES ASSUME IInv, Flush PROVE IInv'
  OBVIOUS
<1>1. Types'
  <2>1. flushes' \in 0 .. MaxFlushes
    BY BoundsAreNaturals DEF Flush, IInv, Types
  <2>2. failed' \in BOOLEAN
    BY DEF Flush, IInv, Types
  <2>3. /\ savedConv' \in [Wizards -> States] /\ savedData' \in [Wizards -> Choices]
        /\ \A w \in Wizards : savedConv'[w] \in StatesOf(w)
    BY DEF Flush, SaveData, SaveConv, IInv, Types
  <2>. QED
    BY <2>1, <2>2, <2>3 DEF Flush, chat, IInv, Types
<1>2. Ready'
  BY DEF Flush, SaveData, SaveConv, IInv, Ready
<1>. QED
  BY <1>1, <1>2 DEF Flush, chat, IInv, Shows, MadeIsShown

\* After a restart no summary counts as the newest.
LEMMA RestartKeeps == IInv /\ Restart => IInv'
<1>. SUFFICES ASSUME IInv, Restart PROVE IInv'
  OBVIOUS
<1>1. Types'
  BY BoundsAreNaturals DEF Restart, LoadConv, LoadData, store, IInv, Types
<1>2. Ready'
  BY DEF Restart, LoadConv, LoadData, store, IInv, Ready
<1>3. Shows'
  <2>1. \A c \in cards : c.no \in 1 .. shown /\ c.of \in Wizards /\ shown \in Nat
    BY DEF IInv, Shows, Types
  <2>. QED
    BY <2>1 DEF Restart, Shows
<1>. QED
  BY <1>1, <1>2, <1>3 DEF Restart, IInv, MadeIsShown

LEMMA InitIInv == Init => IInv
<1>. SUFFICES ASSUME Init PROVE IInv
  OBVIOUS
<1>1. Types
  <2>1. /\ conv \in [Wizards -> States] /\ data \in [Wizards -> Choices]
        /\ \A w \in Wizards : conv[w] \in StatesOf(w)
    BY EmptyIsChoices DEF Init, States, StatesOf
  <2>2. /\ newest \in [Wizards -> 0 .. MaxCards] /\ shown \in 0 .. MaxCards
        /\ starts \in 0 .. MaxStarts /\ backs \in 0 .. MaxBacks /\ stops \in 0 .. MaxStops
        /\ flushes \in 0 .. MaxFlushes /\ failed \in BOOLEAN
    <3>1. newest \in [Wizards -> 0 .. MaxCards] /\ failed \in BOOLEAN
      <4>1. newest = [w \in Wizards |-> 0] /\ failed = FALSE
        BY DEF Init
      <4>2. newest \in [Wizards -> 0 .. MaxCards]
        BY <4>1, BoundsAreNaturals
      <4>. QED
        BY <4>1, <4>2
    <3>2. /\ shown \in 0 .. MaxCards /\ starts \in 0 .. MaxStarts /\ backs \in 0 .. MaxBacks
          /\ stops \in 0 .. MaxStops /\ flushes \in 0 .. MaxFlushes
      BY BoundsAreNaturals DEF Init
    <3>. QED
      BY <3>1, <3>2
  <2>3. cards = {} /\ taken = {} /\ savedConv = conv /\ savedData = data
    BY DEF Init
  <2>. QED
    BY <2>1, <2>2, <2>3 DEF Types
<1>. QED
  BY <1>1 DEF Init, IInv, Ready, Chosen, Shows, MadeIsShown

LEMMA SpecIInv == Spec => []IInv
<1>1. IInv /\ UNCHANGED vars => IInv'
  BY DEF IInv, Types, Ready, Shows, MadeIsShown, vars, bounds
<1>2. IInv /\ Next => IInv'
  BY CommandOrdinary, ChoiceOrdinary, TapOrdinary, OrdinaryKeeps, NotesKeep, SpeedKeeps,
     FlushKeeps, RestartKeeps DEF Next
<1>. QED
  BY <1>1, <1>2, InitIInv, PTL DEF Spec

-----------------------------------------------------------------------------
\* The variables keep their types: no restart loads a wizard into a state of
\* the other wizard.
THEOREM TypeCorrect == Spec => []TypeOK
<1>1. IInv => TypeOK
  <2>. SUFFICES ASSUME IInv PROVE TypeOK
    OBVIOUS
  <2>1. \A d \in Choices : d.tier \in Tiers /\ \A k \in Keys \ {"tier"} : d[k] \in Value
    BY DEF Choices, Keys, Value
  <2>2. conv["create"] # "select" /\ conv["renew"] \notin {"name", "device", "notes"}
    BY DEF IInv, Types, StatesOf, Wizards
  <2>. QED
    BY <2>1, <2>2, GivenStates DEF IInv, Types, TypeOK
<1>. QED
  BY <1>1, SpecIInv, PTL

\* The handlers from ct_name_entered to ct_confirm and ro_confirm: the choices
\* that a state takes for given have been made, also after a restart.
THEOREM KeysAreReady == Spec => []KeysReady
<1>1. IInv => KeysReady
  BY ChosenMeans DEF IInv, Types, Ready, KeysReady, Wizards
<1>. QED
  BY <1>1, SpecIInv, PTL

\* ct_confirm, ro_confirm: what Confirm makes is what the newest summary says.
THEOREM MadeAsSaid == Spec => []MadeIsShown
<1>1. IInv => MadeIsShown
  BY DEF IInv
<1>. QED
  BY <1>1, SpecIInv, PTL

\* ct_notes_entered, ro_speed_chosen: a wizard that waits for Confirm has the
\* tier of the duration and the cap chosen last.
THEOREM TierChosen == Spec => []TierOfChoices
<1>1. IInv => TierOfChoices
  BY ChosenMeans DEF IInv, Types, Ready, TierOfChoices
<1>. QED
  BY <1>1, SpecIInv, PTL
=============================================================================
