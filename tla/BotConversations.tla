-------------------------- MODULE BotConversations --------------------------
(***************************************************************************)
(* The bot's two wizards, /create and /renew_orphan, and what is kept of   *)
(* them in MariaDB (host/vpn-portal/bot.py, bot_persistence.py,            *)
(* bot_polling.py).                                                        *)
(*                                                                         *)
(* The polling service takes one update after the other.  A wizard is a    *)
(* conversation state and the operator's choices, both in the process;     *)
(* python-telegram-bot writes them to bot_persistence now and then, and    *)
(* loads them when the process starts.  Messages stay in the chat with     *)
(* their buttons, whatever becomes of the conversation they belonged to.   *)
(***************************************************************************)
EXTENDS Naturals, FiniteSets

CONSTANTS Names,      \* customers' names, and orphans'
          Durations, Caps, Speeds, Devices,
          Unset,      \* no value
          MaxCards,   \* bound: summaries shown
          MaxStarts,  \* bound: wizards started
          MaxBacks,   \* bound: taps of a Back button
          MaxStops,   \* bound: restarts of the process
          MaxFlushes  \* bound: times that the process writes what it keeps

ASSUME UnsetIsNoValue == Unset \notin Names \cup Durations \cup Caps \cup Speeds \cup Devices
ASSUME BoundsAreNaturals ==
  MaxCards \in Nat /\ MaxStarts \in Nat /\ MaxBacks \in Nat
  /\ MaxStops \in Nat /\ MaxFlushes \in Nat

VARIABLES
  conv,      \* ConversationHandler._conversations of each wizard
  data,      \* user_data: the ct_* and the ro_* keys
  savedConv, \* bot_persistence, category conv
  savedData, \* bot_persistence, category user
  cards,     \* the summaries in the chat that still have their buttons
  taken,     \* names of customers
  newest,    \* history: the wizard's newest summary, 0 after a restart
  made,      \* history: the last customer made, and what the summary showed
  shown,     \* how many summaries were shown
  starts, backs, stops, flushes,
  failed     \* history: a write to bot_persistence failed, or was not reached

bounds == <<starts, backs, stops, flushes, failed>>
vars   == <<conv, data, savedConv, savedData, cards, taken, newest, made, shown, bounds>>

Wizards == {"create", "renew"}
Keys    == {"name", "duration", "cap", "speed", "device", "tier"}
Value   == Names \cup Durations \cup Caps \cup Speeds \cup Devices \cup {Unset}
\* Unset within a tier is the handlers' default, 10d or uncap.
Tiers   == {Unset} \cup ((Durations \cup {Unset}) \X (Caps \cup {Unset}))
Empty   == [k \in Keys |-> Unset]

\* The keys a state's handlers and those after it take for given.
Given == [
  none     |-> {}, select   |-> {}, notes |-> {"name", "duration", "cap", "speed", "device"},
  name     |-> {}, duration |-> {"name"}, cap |-> {"name", "duration"},
  speed    |-> {"name", "duration", "cap"}, device |-> {"name", "duration", "cap", "speed"},
  confirm  |-> {"name", "duration", "cap", "speed"}]

\* Every variable keeps its type.
TypeOK ==
  /\ conv \in [Wizards -> DOMAIN Given] /\ savedConv \in [Wizards -> DOMAIN Given]
  /\ conv["create"] # "select" /\ conv["renew"] \notin {"name", "device", "notes"}
  /\ \A w \in Wizards, k \in Keys \ {"tier"} : data[w][k] \in Value /\ savedData[w][k] \in Value
  /\ \A w \in Wizards : data[w].tier \in Tiers /\ savedData[w].tier \in Tiers
  /\ cards \subseteq [no : 1 .. MaxCards, of : Wizards, name : Names \cup {Unset}, tier : Tiers]
  /\ taken \subseteq Names
  /\ newest \in [Wizards -> 0 .. MaxCards]
  /\ shown \in 0 .. MaxCards /\ starts \in 0 .. MaxStarts /\ backs \in 0 .. MaxBacks /\ stops \in 0 .. MaxStops
  /\ flushes \in 0 .. MaxFlushes /\ failed \in BOOLEAN

Nothing == [name |-> Unset, tier |-> Unset]

Init ==
  /\ conv = [w \in Wizards |-> "none"] /\ data = [w \in Wizards |-> Empty]
  /\ savedConv = conv /\ savedData = data
  /\ cards = {} /\ taken = {}
  /\ newest = [w \in Wizards |-> 0]
  /\ made = [is |-> Nothing, said |-> Nothing, old |-> FALSE]
  /\ shown = 0 /\ starts = 0 /\ backs = 0 /\ stops = 0 /\ flushes = 0 /\ failed = FALSE

store == <<savedConv, savedData>>
chat  == <<cards, newest, shown>>
rest  == <<store, taken, made, bounds>>

Move(w, s)      == conv' = [conv EXCEPT ![w] = s]
Put(w, k, v)    == data' = [data EXCEPT ![w][k] = v]
Forget(w)       == data' = [data EXCEPT ![w] = Empty]
Entered(w, s)   == conv[w] = s
Pick(w, s, k, v, next) ==
  /\ Entered(w, s) /\ Put(w, k, v) /\ Move(w, next)
  /\ UNCHANGED <<rest, chat>>
Back(w, s, to) ==
  /\ Entered(w, s) /\ Move(w, to)
  /\ backs < MaxBacks /\ backs' = backs + 1
  /\ UNCHANGED <<data, store, taken, made, starts, stops, flushes, failed, chat>>

-----------------------------------------------------------------------------
(* Commands.                                                               *)

\* MultiWorkerConversationHandler.check_update: a command that the wizard's
\* state has no handler for ends the conversation and deletes its row.
Unmatched(ws) ==
  LET ended == {w \in ws : conv[w] # "none"}
      Without(f) == [w \in Wizards |-> IF w \in ended THEN "none" ELSE f[w]]
  IN  conv' = Without(conv) /\ savedConv' = Without(savedConv)

\* /create in the middle of a wizard ends both and starts none.
CreateStart ==
  /\ IF conv["create"] = "none"
     THEN Move("create", "name") /\ Forget("create") /\ UNCHANGED savedConv
     ELSE Unmatched(Wizards) /\ UNCHANGED data
  /\ starts < MaxStarts /\ starts' = starts + 1
  /\ UNCHANGED <<savedData, taken, made, backs, stops, flushes, failed, chat>>

\* /renew_orphan ends both wizards if its own is under way; or else it ends
\* /create, and starts if there is an orphan.
RenewStart ==
  /\ IF conv["renew"] # "none" THEN Unmatched(Wizards) /\ UNCHANGED data
     ELSE /\ \E s \in {"select", "none"} : conv' = [create |-> "none", renew |-> s]
          /\ savedConv' = IF conv["create"] = "none" THEN savedConv
                          ELSE [savedConv EXCEPT !["create"] = "none"]
          /\ Forget("renew")
  /\ starts < MaxStarts /\ starts' = starts + 1
  /\ UNCHANGED <<savedData, taken, made, backs, stops, flushes, failed, chat>>

\* /renew_orphan with an identity and a tier renews at once; renew_orphan_core
\* may refuse.
RenewAtOnce(n) ==
  /\ Unmatched(IF conv["renew"] = "none" THEN {"create"} ELSE Wizards)
  /\ \/ UNCHANGED taken
     \/ conv["renew"] = "none" /\ n \notin taken /\ taken' = taken \cup {n}
  /\ UNCHANGED <<data, savedData, made, bounds, chat>>

\* Any other command, /skip and /back away from the notes among them.
OtherCommand ==
  /\ Unmatched(Wizards)
  /\ UNCHANGED <<data, savedData, taken, made, bounds, chat>>

\* /cancel: the first wizard that is under way takes it.
CreateCancel ==
  /\ conv["create"] # "none" /\ Move("create", "none")
  /\ UNCHANGED <<data, rest, chat>>

RenewCancel ==
  /\ conv["create"] = "none" /\ conv["renew"] # "none"
  /\ Move("renew", "none") /\ Forget("renew")
  /\ UNCHANGED <<rest, chat>>

-----------------------------------------------------------------------------
(* The steps of /create.                                                   *)

CtName(n) ==
  /\ n \notin taken
  /\ Pick("create", "name", "name", n, "duration")

CtDuration(d) == Pick("create", "duration", "duration", d, "cap") \/ Back("create", "duration", "name")
CtCap(c)      == Pick("create", "cap", "cap", c, "speed") \/ Back("create", "cap", "duration")
CtSpeed(s)    == Pick("create", "speed", "speed", s, "device") \/ Back("create", "speed", "cap")
CtDevice(d)   == Pick("create", "device", "device", d, "notes") \/ Back("create", "device", "speed")

\* The Cancel button under any of them.
CtCancelled ==
  /\ conv["create"] \in {"duration", "cap", "speed", "device"} /\ Move("create", "none")
  /\ UNCHANGED <<data, rest, chat>>

\* A new message with the summary and its buttons.
Show(w, d) ==
  /\ shown < MaxCards /\ shown' = shown + 1
  /\ newest' = [newest EXCEPT ![w] = shown']
  /\ cards' = cards \cup {[no |-> shown', of |-> w, name |-> d.name, tier |-> d.tier]}

Tier(w) == <<data[w].duration, data[w].cap>>

\* Mutant: the summary is put together before the tier.
CtNotesSummaryFirst ==
  /\ Entered("create", "notes")
  /\ Put("create", "tier", Tier("create")) /\ Move("create", "confirm")
  /\ Show("create", data["create"])
  /\ UNCHANGED rest

\* The notes, /skip, or /back, which is taken for a note.  Without a name there
\* is no summary (a KeyError) and the wizard stays where it is.
CtNotes ==
  /\ Entered("create", "notes")
  /\ Put("create", "tier", Tier("create"))
  /\ IF data["create"].name = Unset THEN UNCHANGED <<conv, chat>>
     ELSE /\ Move("create", "confirm")
          /\ Show("create", [data["create"] EXCEPT !.tier = Tier("create")])
  /\ UNCHANGED rest

\* What Confirm under card c has made of the choices.
Make(w, c) ==
  /\ taken' = taken \cup {data[w].name}
  /\ made' = [is   |-> [name |-> data[w].name, tier |-> data[w].tier],
              said |-> [name |-> c.name, tier |-> c.tier],
              old  |-> c.no # newest[w]]

\* A tap under a summary of the wizard at hand, which an answer replaces.
Tapped(w, c) == Entered(w, "confirm") /\ c.of = w /\ UNCHANGED <<newest, shown>>
Answered(c)  == cards' = cards \ {c}

\* A missing key is a KeyError, which leaves everything as it was.  A name that
\* is taken by now: the identity is in use, or create_client raises.
CtConfirm(c) ==
  /\ Tapped("create", c)
  /\ IF \E k \in {"name", "tier", "cap", "speed", "device"} : data["create"][k] = Unset
     THEN UNCHANGED <<conv, data, taken, made, cards>>
     ELSE \/ /\ data["create"].name \notin taken /\ Make("create", c) /\ Move("create", "none")
             /\ \/ Answered(c) /\ Forget("create")
                \/ UNCHANGED <<cards, data>>   \* the answer cannot be shown
          \/ Answered(c) /\ Move("create", "none") /\ UNCHANGED <<data, taken, made>>   \* it failed
          \/ /\ data["create"].name \in taken /\ Answered(c) /\ Move("create", "name")
             /\ UNCHANGED <<data, taken, made>>
  /\ UNCHANGED <<store, bounds>>

\* Back leads to the notes, Cancel ends the wizard and keeps its keys.
CtReturn(c) ==
  /\ Tapped("create", c) /\ Answered(c)
  /\ \/ Move("create", "notes") /\ backs < MaxBacks /\ backs' = backs + 1
     \/ Move("create", "none") /\ UNCHANGED backs
  /\ UNCHANGED <<data, store, taken, made, starts, stops, flushes, failed>>

-----------------------------------------------------------------------------
(* The steps of /renew_orphan.                                             *)

\* An orphan that is gone ends the wizard.
RoSelect(n) ==
  \/ Pick("renew", "select", "name", n, "duration")
  \/ Entered("renew", "select") /\ Move("renew", "none") /\ UNCHANGED <<data, rest, chat>>

\* Mutant: Back leads to the name, as it does in /create.
RoDurationToName(d) ==
  Pick("renew", "duration", "duration", d, "cap") \/ Back("renew", "duration", "name")

RoDuration(d) ==
  Pick("renew", "duration", "duration", d, "cap") \/ Back("renew", "duration", "select")

\* Mutant: a cap is taken at the summary as well, from the keyboard of a wizard
\* that was left.
RoCapAnyState(c) ==
  \/ Pick("renew", "cap", "cap", c, "speed") \/ Back("renew", "cap", "duration")
  \/ Pick("renew", "confirm", "cap", c, "confirm")

RoCap(c) == Pick("renew", "cap", "cap", c, "speed") \/ Back("renew", "cap", "duration")

\* The choice of the speed, which fixes the tier and shows the summary; or back.
RoSpeed(s) ==
  \/ /\ Entered("renew", "speed")
     /\ data' = [data EXCEPT !["renew"].speed = s, !["renew"].tier = Tier("renew")]
     /\ Move("renew", "confirm")
     /\ Show("renew", [data["renew"] EXCEPT !.tier = Tier("renew")])
     /\ UNCHANGED rest
  \/ Back("renew", "speed", "cap")

\* The Cancel button under any of them.
RoCancelled ==
  /\ conv["renew"] \notin {"none", "confirm"} /\ Move("renew", "none") /\ Forget("renew")
  /\ UNCHANGED <<rest, chat>>

\* renew_orphan_core refuses what is not an orphan; all keys go either way.
RoConfirm(c) ==
  /\ Tapped("renew", c) /\ Answered(c)
  /\ \/ data["renew"].name \in Names \ taken /\ Make("renew", c)
     \/ UNCHANGED <<taken, made>>
  /\ Move("renew", "none") /\ Forget("renew")
  /\ UNCHANGED <<store, bounds>>

\* Back leads to the speeds, Cancel ends the wizard.
RoReturn(c) ==
  /\ Tapped("renew", c) /\ Answered(c)
  /\ \/ Move("renew", "speed") /\ backs < MaxBacks /\ backs' = backs + 1 /\ UNCHANGED data
     \/ Move("renew", "none") /\ Forget("renew") /\ UNCHANGED backs
  /\ UNCHANGED <<store, taken, made, starts, stops, flushes, failed>>

-----------------------------------------------------------------------------
(* What is kept.                                                           *)

\* The rows of update_user_data and of update_conversation.
SaveData == savedData' = data
SaveConv == savedConv' = conv

\* Mutant: only the conversations are written, as the write-through of
\* MultiWorkerConversationHandler.handle_update means to.
FlushConversations ==
  /\ flushes < MaxFlushes /\ flushes' = flushes + 1
  /\ SaveConv
  /\ UNCHANGED <<conv, data, savedData, taken, made, starts, backs, stops, failed, chat>>

\* The library writes the choices and then the conversations, which no update
\* comes between.  A write that fails is logged; the process may stop between them.
Flush ==
  /\ flushes < MaxFlushes /\ flushes' = flushes + 1
  /\ \/ SaveData /\ SaveConv /\ UNCHANGED failed
     \/ SaveData /\ UNCHANGED savedConv /\ failed' = TRUE
     \/ SaveConv /\ UNCHANGED savedData /\ failed' = TRUE
  /\ UNCHANGED <<conv, data, taken, made, starts, backs, stops, chat>>

\* _load_conversations and get_user_data, as the process starts.
LoadConv == conv' = savedConv
LoadData == data' = savedData

\* The polling service stops, or crashes, and starts.
Restart ==
  /\ stops < MaxStops /\ stops' = stops + 1
  /\ LoadConv /\ LoadData
  /\ newest' = [w \in Wizards |-> 0]
  /\ UNCHANGED <<store, cards, taken, made, shown, starts, backs, flushes, failed>>

\* Somebody makes a customer in the portal.
OtherCreates(n) ==
  /\ n \notin taken /\ taken' = taken \cup {n}
  /\ UNCHANGED <<conv, data, store, made, bounds, chat>>

-----------------------------------------------------------------------------

Next ==
  \/ CreateStart \/ RenewStart \/ OtherCommand \/ CreateCancel \/ RenewCancel
  \/ \E n \in Names : CtName(n) \/ RoSelect(n) \/ OtherCreates(n) \/ RenewAtOnce(n)
  \/ \E d \in Durations : CtDuration(d) \/ RoDuration(d)
  \/ \E c \in Caps : CtCap(c) \/ RoCap(c)
  \/ \E s \in Speeds : CtSpeed(s) \/ RoSpeed(s)
  \/ \E d \in Devices : CtDevice(d)
  \/ CtCancelled \/ CtNotes \/ RoCancelled
  \/ \E c \in cards : CtConfirm(c) \/ CtReturn(c) \/ RoConfirm(c) \/ RoReturn(c)
  \/ Flush \/ Restart

Spec == Init /\ [][Next]_vars

-----------------------------------------------------------------------------
(* Properties.                                                             *)

\* ct_confirm, ro_confirm and the handlers before them: the choices of the
\* steps before the wizard's state have been made, also when the state was
\* loaded after a restart; unless a write to bot_persistence has failed or was cut
\* short (a wizard started anew then finds its old state without the choices).
KeysReady ==
  ~failed =>
    /\ \A w \in Wizards : \A k \in Given[conv[w]] : data[w][k] # Unset
    /\ conv["create"] = "confirm" => data["create"].device # Unset

\* ct_notes_entered, ct_confirm, ro_speed_chosen, ro_confirm: what Confirm makes
\* is what the summary says, unless the operator taps a summary that is not the
\* newest, or the process was started again since it was shown.
MadeIsShown == made.old \/ made.is = made.said

\* ct_notes_entered, ro_speed_chosen, ct_confirm, ro_confirm: the tier that is
\* made is that of the duration and the cap chosen last, however often the
\* operator went back, also after a restart.
TierOfChoices ==
  ~failed => \A w \in Wizards :
    conv[w] = "confirm" => data[w].tier = <<data[w].duration, data[w].cap>>
=============================================================================
