--------------------------- MODULE InstallerTokens ---------------------------
(***************************************************************************)
(* Installer links (host/vpn-portal/installer_tokens.py): an operator      *)
(* makes a one-time link for a customer, or has the password baked into a  *)
(* script; the customer's installer fetches the password with the link.    *)
(*                                                                         *)
(* A fetch is a row of statements and one remote command, without a        *)
(* transaction around them.  Other fetches, and the operations on the      *)
(* customer that CustomerLifecycle has in detail, run between them.  One   *)
(* customer with one device; the password is the secret of its block in    *)
(* rw-eap.conf, whatever secret the block has when it is read.             *)
(***************************************************************************)
EXTENDS Naturals, FiniteSets

CONSTANTS Tokens,       \* the random tokens
          Threads,      \* request threads
          NoToken,
          TokenTtl,     \* TOKEN_TTL_SECONDS
          MaxTime,      \* bound: the time
          MaxRequests,  \* bound: requests
          MaxChanges,   \* bound: changes to the customer
          MaxLost       \* bound: answers lost and files that cannot be read

ASSUME NoTokenIsNone == NoToken \notin Tokens
ASSUME BoundsAreNaturals ==
  /\ TokenTtl \in Nat \ {0} /\ MaxTime \in Nat /\ MaxRequests \in Nat
  /\ MaxChanges \in Nat /\ MaxLost \in Nat

VARIABLES
  clock,     \* int(time.time()), in days
  links,     \* the installer_tokens table
  active,    \* customers.is_active; FALSE without a row
  device,    \* devices row: "on", "off" (is_active=0) or "none"
  renamed,   \* devices.device_name is not the one in users.name
  user,      \* there is a users row
  block,     \* rw-eap.conf has a block of the customer's identity
  proc,      \* what each thread is doing
  held,      \* history: the conditions that held at some time of the request
  broken,    \* history: the requests during which some condition did not hold
  answered,  \* history: how many answers with a password a token has brought
  lost,      \* history: the tokens whose answer was lost
  overlapped, \* history: the tokens of which two fetches were under way at once
  requests, changes, losses

customer == <<active, device, renamed, user, block>>
counts   == <<requests, changes, losses>>
told     == <<answered, lost>>
vars     == <<clock, links, customer, proc, held, broken, overlapped, told, counts>>

Time  == 0 .. MaxTime
\* Mutant: the time to live is multiplied by the seconds of a day twice.
LinkInSeconds(now) == [created |-> now, expires |-> now + TokenTtl * 86400, consumed |-> FALSE]

Link(now) == [created |-> now, expires |-> now + TokenTtl, consumed |-> FALSE]
NoLink    == [created |-> 0, expires |-> 0, consumed |-> TRUE]
Links     == [created : Time, expires : 0 .. MaxTime + TokenTtl, consumed : BOOLEAN]

Kinds == {"fetch", "link", "bake"}
Idle  == [at |-> "idle", kind |-> "fetch", token |-> NoToken, now |-> 0, named |-> FALSE]

\* What a request needs: a fetch, a new link, a baked script.
Conditions  == {"unused", "current", "active", "device", "named", "user", "block"}
Needs(kind) ==
  CASE kind = "fetch" -> Conditions \ {"named"}
    [] kind = "bake"  -> {"active", "device", "named", "block"}
    [] OTHER          -> {"active", "device"}

\* Every variable keeps its type.
TypeOK ==
  /\ clock \in Time
  /\ links \in [Tokens -> Links]
  /\ active \in BOOLEAN /\ device \in {"on", "off", "none"}
  /\ renamed \in BOOLEAN /\ user \in BOOLEAN /\ block \in BOOLEAN
  /\ proc \in [Threads ->
       [at : {"idle", "look", "device", "insert", "user", "secret", "burn", "answer", "refused", "failed"},
        kind : Kinds, token : Tokens \cup {NoToken}, now : Time, named : BOOLEAN]]
  /\ held \in [Threads -> SUBSET Conditions] /\ broken \subseteq Threads
  /\ answered \in [Tokens -> 0 .. 2] /\ lost \subseteq Tokens /\ overlapped \subseteq Tokens
  /\ requests \in 0 .. MaxRequests /\ changes \in 0 .. MaxChanges /\ losses \in 0 .. MaxLost

Init ==
  /\ clock = 0
  /\ links = [k \in Tokens |-> NoLink]
  /\ active = TRUE /\ device = "on" /\ renamed = FALSE /\ user = TRUE /\ block = TRUE
  /\ proc = [t \in Threads |-> Idle]
  /\ held = [t \in Threads |-> {}] /\ broken = {}
  /\ answered = [k \in Tokens |-> 0] /\ lost = {} /\ overlapped = {}
  /\ requests = 0 /\ changes = 0 /\ losses = 0

Used(k) == \E t \in Threads : proc[t].at = "insert" /\ proc[t].token = k
Fresh(k) == links[k] = NoLink /\ ~Used(k)

\* Does the condition hold, for a request with this token?
Holds(c, k) ==
  CASE c = "unused"  -> k \in Tokens /\ ~links[k].consumed
    [] c = "current" -> k \in Tokens /\ clock <= links[k].expires
    [] c = "active"  -> active
    [] c = "device"  -> device = "on"
    [] c = "named"   -> ~renamed
    [] c = "user"    -> user
    [] OTHER         -> block

-----------------------------------------------------------------------------
(* What every request does.                                                *)

Arrive(t, kind, k) ==
  /\ proc[t] = Idle /\ requests < MaxRequests
  /\ requests' = requests + 1
  /\ proc' = [proc EXCEPT ![t] = [Idle EXCEPT !.at = "look", !.kind = kind, !.token = k]]
  /\ UNCHANGED <<clock, links, customer, told, changes, losses>>

Goto(t, at)   == proc' = [proc EXCEPT ![t].at = at]
If(t, ok, at) == Goto(t, IF ok THEN at ELSE "refused")

\* The answer has gone out, or the error.
Done(t) ==
  /\ \/ proc[t].at \in {"refused", "failed"} /\ UNCHANGED told
     \/ /\ proc[t].at = "answer"
        /\ LET k == proc[t].token
           IN answered' = IF k \in Tokens
                          THEN [answered EXCEPT ![k] = IF @ = 2 THEN 2 ELSE @ + 1] ELSE answered
        /\ UNCHANGED lost
  /\ proc' = [proc EXCEPT ![t] = Idle]
  /\ UNCHANGED <<clock, links, customer, counts>>

\* The worker stops, or the installer has stopped waiting.
Lose(t) ==
  /\ losses < MaxLost /\ losses' = losses + 1
  /\ proc[t].at = "answer" /\ proc[t].kind = "fetch"
  /\ lost' = lost \cup {proc[t].token}
  /\ proc' = [proc EXCEPT ![t] = Idle]
  /\ UNCHANGED <<clock, links, customer, answered, requests, changes>>

-----------------------------------------------------------------------------
(* create_installer_token.                                                 *)

CheckCustomer(t) ==
  /\ proc[t].at = "look" /\ proc[t].kind # "fetch"
  /\ If(t, active, "device")
  /\ UNCHANGED <<clock, links, customer, told, counts>>

\* The customer's newest active device; now is read after it.
PickDevice(t) ==
  /\ proc[t].at = "device" /\ proc[t].kind # "fetch"
  /\ \/ /\ proc[t].kind = "bake"
        /\ proc' = [proc EXCEPT ![t].at = IF device = "on" THEN "secret" ELSE "refused",
                                ![t].named = ~renamed]
     \/ /\ proc[t].kind = "link" /\ device = "on"
        /\ \E k \in Tokens :
             /\ Fresh(k)
             /\ proc' = [proc EXCEPT ![t].at = "insert", ![t].token = k, ![t].now = clock]
     \/ proc[t].kind = "link" /\ device # "on" /\ Goto(t, "refused")
  /\ UNCHANGED <<clock, links, customer, told, counts>>

Insert(t) ==
  /\ proc[t].at = "insert"
  /\ links' = [links EXCEPT ![proc[t].token] = Link(proc[t].now)]
  /\ proc' = [proc EXCEPT ![t] = Idle]
  /\ UNCHANGED <<clock, customer, told, counts>>

-----------------------------------------------------------------------------
(* consume_installer_token.                                                *)

\* Mutant: the link is not checked for having been used.
AdmitsUsed(k)    == links[k] # NoLink /\ links[k].expires >= clock /\ active

\* A row that joins its customer, not consumed, not expired, not suspended.
Admits(k) ==
  /\ links[k] # NoLink /\ ~links[k].consumed
  /\ links[k].expires >= clock
  /\ active

LookUp(t) ==
  /\ proc[t].at = "look" /\ proc[t].kind = "fetch"
  /\ If(t, Admits(proc[t].token), "device")
  /\ UNCHANGED <<clock, links, customer, told, counts>>

FindDevice(t) ==
  /\ proc[t].at = "device" /\ proc[t].kind = "fetch"
  /\ If(t, device = "on", "user")
  /\ UNCHANGED <<clock, links, customer, told, counts>>

\* Mutant: the link is burnt before the password is known.
BurnAndFindUser(t) ==
  /\ proc[t].at = "user"
  /\ proc' = [proc EXCEPT ![t].at = IF user THEN "secret" ELSE "refused", ![t].named = user]
  /\ links' = [links EXCEPT ![proc[t].token].consumed = TRUE]
  /\ UNCHANGED <<clock, customer, told, counts>>

\* The identity is users.name, whatever the device is called now.
FindUser(t) ==
  /\ proc[t].at = "user"
  /\ proc' = [proc EXCEPT ![t].at = IF user THEN "secret" ELSE "refused", ![t].named = user]
  /\ UNCHANGED <<clock, links, customer, told, counts>>

\* Mutant: the identity is composed of the names, as for a bake.
BlockFoundByNames(t) == block /\ proc[t].named /\ ~renamed

\* The block of the identity the request has.
BlockFound(t) == block /\ proc[t].named

AfterSecret(t) == IF proc[t].kind = "bake" THEN "answer" ELSE "burn"

\* _read_eap_secret_from_conf: the block's secret, no such block, or no file.
ReadSecret(t) ==
  /\ proc[t].at = "secret"
  /\ \/ /\ BlockFound(t)
        /\ Goto(t, AfterSecret(t))
        /\ UNCHANGED losses
     \/ ~BlockFound(t) /\ Goto(t, "refused") /\ UNCHANGED losses
     \/ losses < MaxLost /\ losses' = losses + 1 /\ Goto(t, "failed")
  /\ UNCHANGED <<clock, links, customer, told, requests, changes>>

\* Mutant: the UPDATE asks once more for a link that has not expired, and
\* takes the last moment for expired.
BurnBeforeExpiry(t) ==
  /\ proc[t].at = "burn"
  /\ links' = [links EXCEPT ![proc[t].token].consumed = @ \/ links[proc[t].token].expires > clock]
  /\ Goto(t, "answer")
  /\ UNCHANGED <<clock, customer, told, counts>>

\* The UPDATE has no condition on consumed_at.
Burn(t) ==
  /\ proc[t].at = "burn"
  /\ links' = [links EXCEPT ![proc[t].token].consumed = TRUE]
  /\ Goto(t, "answer")
  /\ UNCHANGED <<clock, customer, told, counts>>

-----------------------------------------------------------------------------
(* Meanwhile.                                                              *)

Tick ==
  /\ clock < MaxTime /\ clock' = clock + 1
  /\ UNCHANGED <<links, customer, proc, told, counts>>

\* archive, unarchive, /disable and /enable; rename and deactivate of the
\* device; a delete, statement by statement.  The block goes with a delete or
\* the kill, and comes back with the older rw-eap.conf that reset_quota copies
\* over the file; rotations and restores of its secret leave it there.
Change ==
  /\ changes < MaxChanges /\ changes' = changes + 1
  /\ \/ active' = ~active /\ UNCHANGED <<device, renamed, user, block>>
     \/ device = "on" /\ device' = "off" /\ UNCHANGED <<active, renamed, user, block>>
     \/ device = "off" /\ device' = "on" /\ UNCHANGED <<active, renamed, user, block>>
     \/ ~renamed /\ renamed' = TRUE /\ UNCHANGED <<active, device, user, block>>
     \/ user /\ user' = FALSE /\ UNCHANGED <<active, device, renamed, block>>
     \/ device # "none" /\ device' = "none" /\ UNCHANGED <<active, renamed, user, block>>
     \/ block' = ~block /\ UNCHANGED <<active, device, renamed, user>>
  /\ UNCHANGED <<clock, links, proc, told, requests, losses>>

-----------------------------------------------------------------------------

Step ==
  \/ Tick \/ Change
  \/ \E t \in Threads :
       \/ \E kind \in {"link", "bake"} : Arrive(t, kind, NoToken)
       \/ \E k \in Tokens : links[k] # NoLink /\ Arrive(t, "fetch", k)
       \/ CheckCustomer(t) \/ PickDevice(t) \/ Insert(t)
       \/ LookUp(t) \/ FindDevice(t) \/ FindUser(t) \/ ReadSecret(t) \/ Burn(t)
       \/ Done(t) \/ Lose(t)

\* Has t found the link k open and not yet burnt it?
Fetching(t, k) ==
  /\ proc[t].kind = "fetch" /\ proc[t].token = k
  /\ proc[t].at \in {"device", "user", "secret", "burn"}

\* What the requests under way have seen, brought up to date after a step.
Held(c, t) ==
  \/ c \in held[t] /\ proc[t].at # "idle"
  \/ \E k \in Tokens \cup {NoToken} : proc'[t].token = k /\ Holds(c, k)'

Watch ==
  /\ held' = [t \in Threads |-> IF proc'[t].at = "idle" THEN {}
                                ELSE {c \in Conditions : Held(c, t)}]
  /\ broken' = {t \in Threads :
       /\ proc'[t].at # "idle"
       /\ \/ t \in broken /\ proc[t].at # "idle"
          \/ \E c \in Needs(proc'[t].kind), k \in Tokens \cup {NoToken} :
               proc'[t].token = k /\ ~Holds(c, k)'}
  /\ overlapped' = overlapped \cup
       {k \in Tokens : \E s, t \in Threads : s # t /\ Fetching(s, k)' /\ Fetching(t, k)'}

Next == Step /\ Watch
Spec == Init /\ [][Next]_vars

-----------------------------------------------------------------------------
(* Properties.                                                             *)

\* consume_installer_token, create_installer_token: a password goes out only if
\* each of the request's conditions held at some time while it ran.  So a link
\* that was used, has expired or whose customer was suspended before the fetch
\* began brings nothing, whatever other requests do meanwhile.
ServedWhenOpen ==
  \A t \in Threads : proc[t].at = "answer" => Needs(proc[t].kind) \subseteq held[t]

\* consume_installer_token: a fetch is refused only if one of its conditions
\* failed at some time while it ran; renaming the device does not shut its links.
\* (A rw-eap.conf that cannot be read is an error of its own.)
RefusedForCause ==
  \A t \in Threads : proc[t].at = "refused" => t \in broken

\* consume_installer_token: a link is used up only by a fetch that got the
\* password, so that a fetch that fails can be tried again.
FailedFetchKeepsLink ==
  \A k \in Tokens :
    links[k].consumed =>
      \/ links[k] = NoLink \/ answered[k] > 0 \/ k \in lost
      \/ \E t \in Threads : proc[t].at = "answer" /\ proc[t].token = k

\* consume_installer_token: "Token is burned on first successful fetch.
\* Subsequent fetches return 404", the password is "only returned ONCE".  Unless
\* two of its fetches were between lookup and burn at the same time, a link
\* brings its password once, be the answer on its way, sent or lost.
OnceUnlessOverlapped ==
  \A k \in Tokens \ overlapped :
    answered[k] + (IF k \in lost THEN 1 ELSE 0)
      + Cardinality({t \in Threads : proc[t].at = "answer" /\ proc[t].token = k}) <= 1
=============================================================================
