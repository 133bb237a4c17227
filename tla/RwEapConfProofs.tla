--------------------------- MODULE RwEapConfProofs ---------------------------
(***************************************************************************)
(* For any numbers of identities, portal threads, local writers, edits and *)
(* failures: types, the exclusion of the local writers, and that the file  *)
(* is whole, loaded and the result of all edits at rest.                   *)
(*                                                                         *)
(* The argument: as long as no two portal threads have had one temporary   *)
(* file, each holds what its owner composed; an empty file under any name  *)
(* is still to be filled by somebody who has it open; and whoever replaces *)
(* the live file either has read it as it is or sets raced, and the last   *)
(* who replaced it finds it unchanged and reloads.                         *)
(***************************************************************************)
EXTENDS RwEapConf, TLAPS

Composing == {"stamp", "open", "tee", "check", "move", "verify", "lock", "replace"}

\* What the record p of writer w looks like.
Shape(w, p) ==
  /\ w \in Portals => /\ p.at \notin {"lock", "replace"}
                      /\ p.kind \in PortalEdits \cup {"none", "cleanup"}
  /\ w \in Locals  => /\ p.at \in {"idle", "lock", "replace", "verify", "reload"}
                      /\ p.kind \in LocalEdits \cup {"none", "rollback"}
  /\ p.at # "idle" => p.id \in Ids /\ p.kind # "none" /\ p.old \in Docs
  /\ p.at \in Composing => p.kind # "restore"
  /\ p.at # "idle" /\ p.kind # "restore" => p.new \in Docs
  /\ p.at \in {"pick", "cp"} => p.kind = "restore"
  /\ p.at = "cp"  => p.new # NoDoc /\ p.out \in {"live", "gone"}
  /\ p.at = "tee" => p.out \in {"tmp", "live", "gone"}
  /\ p.at \notin {"cp", "tee"} => p.out = "none"

\* The lock is held by the local between its backup and its last check.
Mutex == \A l \in Locals : proc[l].at \in {"replace", "verify"} <=> lock = l

TInv == TypeOK /\ Mutex /\ \A w \in Writers : Shape(w, proc[w])

-----------------------------------------------------------------------------
(* What the writers have under way.                                        *)

\* A cp into the live file, a tee into it, and a tee into the temporary file
\* that bears the name of second s.
Copying(p)    == proc[p].at = "cp" /\ proc[p].out = "live"
Spilling(p)   == proc[p].at = "tee" /\ proc[p].out = "live"
Filling(p, s) == proc[p].at = "tee" /\ proc[p].out = "tmp" /\ proc[p].second = s

\* A file that is empty is still to be written by somebody who has it open, or
\* was left so.
EmptyIsOpen ==
  /\ \A s \in 0 .. MaxSecond : tmp[s] = Empty => \E p \in Portals : Filling(p, s)
  /\ live = Empty => \/ \E p \in Portals : Copying(p)
                     \/ \E p \in Portals : Spilling(p)
                     \/ torn

\* Without sharing a temporary file has one user, whose document it gets.
OwnTemp ==
  ~shared => \A p \in Portals :
    /\ proc[p].at = "tee" => proc[p].out = "tmp" /\ tmp[proc[p].second] = Empty
    /\ proc[p].at \in {"check", "move"} => tmp[proc[p].second] = proc[p].new
    /\ \A q \in Portals :
         UsesTemp(p) /\ UsesTemp(q) /\ proc[p].second = proc[q].second => p = q

\* Nobody has composed anything but its edit of what it has read.
Faithful(w) ==
  proc[w].at \in Composing \ {"verify"} /\ proc[w].kind # "rollback" =>
    proc[w].new = Edited(proc[w].kind, proc[w].id, proc[w].old)

\* Somebody will make charon load the file.
WillLoad(w) ==
  \/ proc[w].at = "reload" \/ Copying(w)
  \/ proc[w].at = "verify" /\ live = proc[w].new

Loads == ~unloaded /\ ~shared => loaded = live \/ \E w \in Writers : WillLoad(w)

\* The file is the result of all edits, or one restore is about to make it so.
Keeps ==
  ~raced /\ ~shared =>
    \/ live = ideal /\ \A p \in Portals : ~Copying(p)
    \/ \E p \in Portals : /\ Copying(p) /\ live = Empty /\ proc[p].new = ideal
                           /\ \A q \in Portals : Copying(q) => q = p

SInv == EmptyIsOpen /\ OwnTemp /\ (\A w \in Writers : Faithful(w)) /\ Loads /\ Keeps
-----------------------------------------------------------------------------
(* Types and the lock.                                                     *)

\* An edit of a document is a document.
LEMMA EditedIsDoc ==
  ASSUME NEW k, NEW i \in Ids, NEW d \in Docs
  PROVE  Edited(k, i, d) \in Docs
BY DEF Edited, Expired, Docs, Blocks

\* Only a document has anything to edit.
LEMMA FoundIsDoc ==
  ASSUME NEW k, NEW i, NEW d \in Docs \cup {Empty}, Finds(k, i, d)
  PROVE  d \in Docs
BY DEF Finds

\* A writer that does nothing.
LEMMA IdleShape == Idle \in Procs /\ \A w \in Writers : Shape(w, Idle)
BY BoundsAreNaturals DEF Idle, Procs, Files, Shape, Composing

\* Writers keep their shape when one of them gets a record of its shape.
LEMMA PutKeepsShape ==
  ASSUME NEW f \in [Writers -> Procs], \A v \in Writers : Shape(v, f[v]),
         NEW w \in Writers, NEW r \in Procs, Shape(w, r)
  PROVE  LET g == [f EXCEPT ![w] = r]
         IN  g \in [Writers -> Procs] /\ \A v \in Writers : Shape(v, g[v])
<1>1. \A v \in Writers : [f EXCEPT ![w] = r][v] = IF v = w THEN r ELSE f[v]
  OBVIOUS
<1>. QED
  BY <1>1

\* A replacement changes only where a tee or a cp that is under way writes.
LEMMA OutKeepsShape ==
  ASSUME NEW f \in [Writers -> Procs], \A v \in Writers : Shape(v, f[v]),
         NEW g, \/ g = Orphaned(f)
                \/ \E s \in 0 .. MaxSecond, then \in {"live", "gone"} : g = Redirected(f, s, then)
  PROVE  /\ g \in [Writers -> Procs]
         /\ \A v \in Writers :
              /\ Shape(v, g[v])
              /\ g[v].at = f[v].at /\ g[v].kind = f[v].kind /\ g[v].id = f[v].id
              /\ g[v].old = f[v].old /\ g[v].new = f[v].new /\ g[v].second = f[v].second
<1>1. PICK out \in [Writers -> {"none", "tmp", "live", "gone"}] :
         /\ g = [v \in Writers |-> [f[v] EXCEPT !.out = out[v]]]
         /\ \A v \in Writers : \/ out[v] = f[v].out
                               \/ f[v].out = "live" /\ out[v] = "gone"
                               \/ f[v].out = "tmp" /\ out[v] \in {"live", "gone"}
  <2>1. CASE g = Orphaned(f)
    <3>. DEFINE out == [v \in Writers |-> IF f[v].out = "live" THEN "gone" ELSE f[v].out]
    <3>1. out \in [Writers -> {"none", "tmp", "live", "gone"}]
      BY DEF Procs
    <3>2. g = [v \in Writers |-> [f[v] EXCEPT !.out = out[v]]]
      BY <2>1 DEF Orphaned
    <3>. QED
      BY <3>1, <3>2
  <2>2. ASSUME NEW s \in 0 .. MaxSecond, NEW then \in {"live", "gone"}, g = Redirected(f, s, then)
        PROVE  \E out \in [Writers -> {"none", "tmp", "live", "gone"}] :
                 /\ g = [v \in Writers |-> [f[v] EXCEPT !.out = out[v]]]
                 /\ \A v \in Writers : \/ out[v] = f[v].out
                                       \/ f[v].out = "live" /\ out[v] = "gone"
                                       \/ f[v].out = "tmp" /\ out[v] \in {"live", "gone"}
    <3>. DEFINE out == [v \in Writers |-> IF f[v].out = "tmp" /\ f[v].second = s THEN then ELSE f[v].out]
    <3>1. out \in [Writers -> {"none", "tmp", "live", "gone"}]
      BY DEF Procs
    <3>2. g = [v \in Writers |-> [f[v] EXCEPT !.out = out[v]]]
      BY <2>2 DEF Redirected
    <3>. QED
      BY <3>1, <3>2
  <2>. QED
    BY <2>1, <2>2
<1>2. ASSUME NEW v \in Writers
      PROVE  /\ g[v] \in Procs /\ Shape(v, g[v])
             /\ g[v].at = f[v].at /\ g[v].kind = f[v].kind /\ g[v].id = f[v].id
             /\ g[v].old = f[v].old /\ g[v].new = f[v].new /\ g[v].second = f[v].second
  <2>1. g[v] = [f[v] EXCEPT !.out = out[v]] /\ f[v] \in Procs /\ Shape(v, f[v])
    BY <1>1
  <2>2. /\ g[v].at = f[v].at /\ g[v].kind = f[v].kind /\ g[v].id = f[v].id
        /\ g[v].old = f[v].old /\ g[v].new = f[v].new /\ g[v].second = f[v].second
        /\ g[v].out = out[v] /\ g[v] \in Procs
    BY <2>1 DEF Procs
  <2>. QED
    BY <2>1, <2>2, <1>1 DEF Shape
<1>. QED
  BY <1>1, <1>2

\* At the start every writer is idle.
LEMMA InitTInv == Init => TInv
<1>. SUFFICES ASSUME Init PROVE TInv
  OBVIOUS
<1>1. proc \in [Writers -> Procs] /\ \A w \in Writers : proc[w] = Idle
  BY IdleShape DEF Init
<1>2. Initially \in Docs /\ backup \in [Labels -> Files] /\ tmp \in [0 .. MaxSecond -> Files]
  BY DEF Init, Initially, Docs, Blocks, Files
<1>3. TypeOK
  <2>1. /\ live \in Docs /\ loaded \in Docs /\ ideal \in Docs /\ lock = Nobody
        /\ raced \in BOOLEAN /\ shared \in BOOLEAN /\ torn \in BOOLEAN /\ unloaded \in BOOLEAN
    BY <1>2 DEF Init
  <2>2. now \in 0 .. MaxSecond /\ edits \in 0 .. MaxEdits /\ fails \in 0 .. MaxFail
    BY BoundsAreNaturals DEF Init
  <2>. QED
    BY <1>1, <1>2, <2>1, <2>2 DEF TypeOK
<1>4. Mutex
  BY <1>1, WritersDistinct DEF Init, Mutex, Idle, Writers
<1>. QED
  BY <1>1, <1>3, <1>4, IdleShape DEF TInv

\* Starting an edit.
LEMMA BeginTInv ==
  ASSUME TInv, NEW w \in Writers, NEW i \in Ids, NEW k, NEW step, Begin(w, k, i, step),
         \/ w \in Portals /\ k \in PortalEdits /\ step = IF k = "restore" THEN "pick" ELSE "stamp"
         \/ w \in Locals /\ k \in LocalEdits /\ step = "lock"
  PROVE  TInv'
<1>. DEFINE r == [at |-> step, kind |-> k, id |-> i, old |-> live,
                  new |-> IF k = "restore" THEN NoDoc ELSE Edited(k, i, live),
                  second |-> 0, out |-> "none"]
<1>1. live \in Docs
  BY FoundIsDoc DEF Begin, TInv, TypeOK
<1>2. r.new \in Files /\ (k # "restore" => r.new \in Docs)
  BY <1>1, EditedIsDoc DEF Files
<1>3. r \in Procs
  BY <1>1, <1>2, BoundsAreNaturals DEF Procs, TInv, TypeOK, Files, PortalEdits, LocalEdits
<1>4. Shape(w, r)
  BY <1>1, <1>2, WritersDistinct DEF Shape, Composing, PortalEdits, LocalEdits
<1>5. proc' = [proc EXCEPT ![w] = r]
  BY DEF Begin
<1>. HIDE DEF r
<1>6. proc' \in [Writers -> Procs] /\ \A v \in Writers : Shape(v, proc'[v])
  BY <1>3, <1>4, <1>5, PutKeepsShape DEF TInv, TypeOK
<1>7. TypeOK'
  BY <1>6, BoundsAreNaturals DEF Begin, TInv, TypeOK, files, history
<1>8. Mutex'
  <2>1. r.at \notin {"replace", "verify"} /\ proc[w].at = "idle"
    BY DEF r, Begin, Idle
  <2>2. \A l \in Locals : l \in Writers /\ proc'[l] = IF l = w THEN r ELSE proc[l]
    BY <1>5 DEF TInv, TypeOK, Writers
  <2>. QED
    BY <2>1, <2>2 DEF Mutex, TInv, Begin
<1>. QED
  BY <1>6, <1>7, <1>8 DEF TInv

\* The records of the writers after a step of a portal thread.
LEMMA PortalShape ==
  ASSUME TInv, NEW p \in Portals, PortalContinues(p)
  PROVE  /\ proc' \in [Writers -> Procs] /\ \A v \in Writers : Shape(v, proc'[v])
         /\ \A l \in Locals : proc'[l].at = proc[l].at
<1>0. /\ p \in Writers /\ proc[p] \in Procs /\ Shape(p, proc[p])
      /\ proc \in [Writers -> Procs] /\ \A v \in Writers : Shape(v, proc[v])
      /\ p \notin Locals /\ Locals \subseteq Writers
  BY WritersDistinct DEF TInv, TypeOK, Writers
<1>1. \A r : r \in Procs /\ Shape(p, r) =>
        LET g == [proc EXCEPT ![p] = r]
        IN  /\ g \in [Writers -> Procs] /\ \A v \in Writers : Shape(v, g[v])
            /\ \A l \in Locals : g[l].at = proc[l].at
  <2>1. ASSUME NEW r \in Procs, Shape(p, r)
        PROVE  LET g == [proc EXCEPT ![p] = r]
               IN  g \in [Writers -> Procs] /\ \A v \in Writers : Shape(v, g[v])
    BY <1>0, <2>1, PutKeepsShape
  <2>. QED
    BY <1>0, <2>1
<1>2. \A r : proc' = [proc EXCEPT ![p] = r] /\ r \in Procs /\ Shape(p, r) =>
        /\ proc' \in [Writers -> Procs] /\ \A v \in Writers : Shape(v, proc'[v])
        /\ \A l \in Locals : proc'[l].at = proc[l].at
  BY <1>1
<1>3. CASE Finish(p)
  BY <1>0, <1>2, <1>3, IdleShape DEF Finish
<1>4. CASE OpenTemp(p)
  <2>. DEFINE r == [proc[p] EXCEPT !.at = "tee", !.out = "tmp"]
  <2>1. r \in Procs /\ Shape(p, r)
    BY <1>0, <1>4 DEF Procs, Shape, OpenTemp, Composing
  <2>2. proc' = [proc EXCEPT ![p] = r]
    BY <1>0, <1>4 DEF OpenTemp
  <2>. QED
    BY <1>2, <2>1, <2>2
<1>5. CASE WriteTemp(p)
  <2>. DEFINE r == [proc[p] EXCEPT !.at = "check", !.out = "none"]
  <2>1. r \in Procs /\ Shape(p, r)
    BY <1>0, <1>5 DEF Procs, Shape, WriteTemp, Composing
  <2>2. proc' = [proc EXCEPT ![p] = r]
    BY <1>0, <1>5 DEF WriteTemp
  <2>. QED
    BY <1>2, <2>1, <2>2
<1>6. CASE AbandonTemp(p)
  <2>. DEFINE g == [proc EXCEPT ![p] = Idle]
  <2>1. /\ g \in [Writers -> Procs] /\ \A v \in Writers : Shape(v, g[v])
        /\ \A l \in Locals : g[l].at = proc[l].at
    BY <1>0, <1>1, IdleShape
  <2>2. proc[p].second \in 0 .. MaxSecond /\ proc' = Redirected(g, proc[p].second, "gone")
    BY <1>0, <1>6 DEF Procs, AbandonTemp
  <2>. HIDE DEF g
  <2>. QED
    BY <1>0, <2>1, <2>2, OutKeepsShape
<1>7. CASE CheckTemp(p)
  <2>. DEFINE r == [proc[p] EXCEPT !.at = "move"]
  <2>1. r \in Procs /\ Shape(p, r)
    BY <1>0, <1>7 DEF Procs, Shape, CheckTemp, Composing
  <2>2. proc' = [proc EXCEPT ![p] = r]
    BY <1>0, <1>7 DEF CheckTemp
  <2>. QED
    BY <1>2, <2>1, <2>2
<1>8. CASE MoveTemp(p)
  <2>. DEFINE r == [proc[p] EXCEPT !.at = "verify"]
              g == [proc EXCEPT ![p] = r]
              h == Orphaned(g)
  <2>1. r \in Procs /\ Shape(p, r)
    BY <1>0, <1>8 DEF Procs, Shape, MoveTemp, Composing
  <2>2. /\ g \in [Writers -> Procs] /\ \A v \in Writers : Shape(v, g[v])
        /\ \A l \in Locals : g[l].at = proc[l].at
    BY <1>1, <2>1
  <2>3. proc[p].second \in 0 .. MaxSecond /\ proc' = Redirected(h, proc[p].second, "live")
    BY <1>0, <1>8 DEF Procs, MoveTemp
  <2>. HIDE DEF g
  <2>5. h = Orphaned(g)
    OBVIOUS
  <2>. HIDE DEF h
  <2>4. /\ h \in [Writers -> Procs] /\ \A v \in Writers : Shape(v, h[v])
        /\ \A l \in Locals : h[l].at = proc[l].at
    BY <1>0, <2>2, <2>5, OutKeepsShape
  <2>. QED
    BY <1>0, <2>3, <2>4, OutKeepsShape
<1>9. CASE VerifyMove(p) /\ ~Finish(p)
  <2>. DEFINE r == [proc[p] EXCEPT !.at = "reload"]
  <2>1. r \in Procs /\ Shape(p, r)
    BY <1>0, <1>9 DEF Procs, Shape, VerifyMove, Composing
  <2>2. proc' = [proc EXCEPT ![p] = r]
    BY <1>0, <1>9 DEF VerifyMove
  <2>. QED
    BY <1>2, <2>1, <2>2
<1>10. CASE StartCopy(p) /\ ~Finish(p)
  <2>. DEFINE r == [proc[p] EXCEPT !.at = "cp", !.new = Newest, !.out = "live"]
  <2>1. Newest \in Files
    BY DEF TInv, TypeOK, Newest, Labels
  <2>2. r \in Procs /\ Shape(p, r)
    BY <1>0, <1>10, <2>1 DEF Procs, Shape, StartCopy, Composing
  <2>3. proc' = [proc EXCEPT ![p] = r]
    BY <1>0, <1>10 DEF StartCopy
  <2>. HIDE DEF r
  <2>. QED
    BY <1>2, <2>2, <2>3
<1>11. CASE FinishCopy(p)
  <2>. DEFINE r == [proc[p] EXCEPT !.at = "reload", !.out = "none"]
  <2>1. r \in Procs /\ Shape(p, r)
    BY <1>0, <1>11 DEF Procs, Shape, FinishCopy, Composing
  <2>2. proc' = [proc EXCEPT ![p] = r]
    BY <1>0, <1>11 DEF FinishCopy
  <2>. QED
    BY <1>2, <2>1, <2>2
<1>12. CASE PortalReloadFails(p) /\ ~Finish(p)
  <2>. DEFINE r == [proc[p] EXCEPT !.at = "stamp", !.kind = "cleanup", !.old = live,
                                   !.new = Edited("cleanup", proc[p].id, live)]
  <2>1. live \in Docs /\ proc[p].id \in Ids
    BY <1>0, <1>12, FoundIsDoc DEF PortalReloadFails, TInv, TypeOK, Shape
  <2>2. Edited("cleanup", proc[p].id, live) \in Docs
    BY <2>1, EditedIsDoc
  <2>3. r \in Procs /\ Shape(p, r)
    BY <1>0, <1>12, <2>1, <2>2 DEF TInv, TypeOK, Procs, Files, Shape, PortalReloadFails, Composing
  <2>4. proc' = [proc EXCEPT ![p] = r]
    BY <1>0, <1>12 DEF PortalReloadFails
  <2>. HIDE DEF r
  <2>. QED
    BY <1>2, <2>3, <2>4
<1>13. CASE Stamp(p)
  <2>. DEFINE r == [proc[p] EXCEPT !.at = "open", !.second = now]
  <2>1. r \in Procs /\ Shape(p, r)
    BY <1>0, <1>13 DEF TInv, TypeOK, Procs, Shape, Stamp, Composing
  <2>2. proc' = [proc EXCEPT ![p] = r]
    BY <1>0, <1>13 DEF Stamp
  <2>. HIDE DEF r
  <2>. QED
    BY <1>2, <2>1, <2>2
<1>. QED
  BY <1>3, <1>4, <1>5, <1>6, <1>7, <1>8, <1>9, <1>10, <1>11, <1>12, <1>13
     DEF PortalContinues, MoveFails, Reload, VerifyMove, StartCopy, CopyFails, PortalReloadFails

\* A step of a portal thread keeps the types, and the lock is not its concern.
LEMMA PortalTInv ==
  ASSUME TInv, NEW p \in Portals, PortalContinues(p)
  PROVE  TInv'
<1>1. /\ proc' \in [Writers -> Procs] /\ \A v \in Writers : Shape(v, proc'[v])
      /\ \A l \in Locals : proc'[l].at = proc[l].at
  BY PortalShape
<1>2. lock' = lock
  BY DEF PortalContinues, Stamp, OpenTemp, WriteTemp, AbandonTemp, CheckTemp, MoveTemp, VerifyMove,
         MoveFails, StartCopy, FinishCopy, CopyFails, Reload, PortalReloadFails
<1>3. Mutex'
  BY <1>1, <1>2 DEF TInv, Mutex
<1>4. /\ proc[p] \in Procs /\ Shape(p, proc[p]) /\ proc[p].second \in 0 .. MaxSecond
      /\ proc[p].new \in Files
  BY DEF TInv, TypeOK, Writers, Procs
<1>5. /\ live \in Docs \cup {Empty} /\ loaded \in Docs \cup {Empty}
      /\ tmp \in [0 .. MaxSecond -> Files] /\ ideal \in Docs
      /\ raced \in BOOLEAN /\ shared \in BOOLEAN /\ torn \in BOOLEAN /\ unloaded \in BOOLEAN
      /\ fails \in 0 .. MaxFail /\ MaxFail \in Nat
  BY BoundsAreNaturals DEF TInv, TypeOK
<1>6. /\ live' \in Docs \cup {Empty} /\ loaded' \in Docs \cup {Empty}
      /\ tmp' \in [0 .. MaxSecond -> Files] /\ ideal' \in Docs
      /\ raced' \in BOOLEAN /\ shared' \in BOOLEAN /\ torn' \in BOOLEAN /\ unloaded' \in BOOLEAN
      /\ UNCHANGED <<backup, now, edits>> /\ fails' \in 0 .. MaxFail
  <2>1. CASE OpenTemp(p)
    BY <1>4, <1>5, <2>1 DEF OpenTemp, bounds, Files
  <2>2. CASE WriteTemp(p)
    <3>1. proc[p].new \in Docs
      BY <1>4, <2>2 DEF WriteTemp, Shape, Composing
    <3>2. live' \in {live, proc[p].new} /\ torn' \in {torn, FALSE}
      BY <2>2 DEF WriteTemp, Over
    <3>3. \/ tmp' = tmp
          \/ tmp' = [tmp EXCEPT ![proc[p].second] = Over(@, proc[p].new)]
      BY <2>2 DEF WriteTemp
    <3>4. tmp' \in [0 .. MaxSecond -> Files]
      BY <1>4, <1>5, <3>3 DEF Over
    <3>. QED
      BY <1>5, <2>2, <3>1, <3>2, <3>4 DEF WriteTemp, bounds
  <2>3. CASE AbandonTemp(p)
    BY <1>4, <1>5, <2>3 DEF AbandonTemp, Fail, Files
  <2>4. CASE CheckTemp(p)
    BY <1>5, <2>4 DEF CheckTemp, history, bounds, files
  <2>5. CASE MoveTemp(p)
    <3>1. proc[p].new \in Docs /\ proc[p].id \in Ids
      BY <1>4, <2>5 DEF MoveTemp, Shape, Composing
    <3>2. ideal' \in Docs /\ raced' \in BOOLEAN /\ torn' = FALSE
      BY <1>5, <2>5, <3>1, EditedIsDoc DEF MoveTemp, Replaced
    <3>3. UNCHANGED <<shared, unloaded>>
      BY <2>5 DEF MoveTemp, Replaced
    <3>. QED
      BY <1>4, <1>5, <2>5, <3>2, <3>3 DEF MoveTemp, bounds, Files
  <2>6. CASE VerifyMove(p)
    BY <1>5, <2>6 DEF VerifyMove, EndsUnloaded, bounds, files
  <2>7. CASE MoveFails(p)
    BY <1>5, <2>7 DEF MoveFails, EndsUnloaded, Fail, files
  <2>8. CASE StartCopy(p)
    <3>1. proc[p].id \in Ids
      BY <1>4, <2>8 DEF StartCopy, Shape
    <3>2. Edited("restore", proc[p].id, ideal) \in Docs
      BY <1>5, <3>1, EditedIsDoc
    <3>3. ideal' \in Docs
      BY <1>5, <2>8, <3>2 DEF StartCopy
    <3>4. CASE Newest = NoDoc
      BY <1>5, <2>8, <3>3, <3>4 DEF StartCopy, bounds
    <3>5. CASE Newest # NoDoc
      <4>1. raced' = (raced \/ live = Empty \/ Newest # Edited("restore", proc[p].id, live))
        BY <2>8, <3>5 DEF StartCopy
      <4>2. raced' \in BOOLEAN
        BY <4>1
      <4>. QED
        BY <1>5, <2>8, <3>3, <3>5, <4>2 DEF StartCopy, bounds
    <3>. QED
      BY <3>4, <3>5
  <2>9. CASE FinishCopy(p)
    <3>1. proc[p].new \in Docs \cup {Empty}
      BY <1>4, <2>9 DEF FinishCopy, Shape, Files
    <3>2. live' \in {live, proc[p].new} /\ torn' \in BOOLEAN
      BY <1>5, <2>9 DEF FinishCopy, Over
    <3>. QED
      BY <1>5, <2>9, <3>1, <3>2 DEF FinishCopy, bounds
  <2>10. CASE Reload(p)
    BY <1>5, <2>10 DEF Reload, bounds, files
  <2>11. CASE PortalReloadFails(p)
    BY <1>5, <2>11 DEF PortalReloadFails, EndsUnloaded, Fail, files
  <2>12. CASE Stamp(p)
    BY <1>5, <2>12 DEF Stamp, history, bounds, files
  <2>13. CASE CopyFails(p)
    BY <1>5, <2>13 DEF CopyFails, Fail, files
  <2>. QED
    BY <2>1, <2>2, <2>3, <2>4, <2>5, <2>6, <2>7, <2>8, <2>9, <2>10, <2>11, <2>12, <2>13
       DEF PortalContinues
<1>7. TypeOK'
  BY <1>1, <1>2, <1>6 DEF TInv, TypeOK
<1>. QED
  BY <1>1, <1>3, <1>7 DEF TInv

\* The records of the writers after a step of a local, and where each local is.
LEMMA LocalShape ==
  ASSUME TInv, NEW l \in Locals, LocalContinues(l)
  PROVE  /\ proc' \in [Writers -> Procs] /\ \A v \in Writers : Shape(v, proc'[v])
         /\ \A k \in Locals \ {l} : proc'[k].at = proc[k].at
         /\ \/ LocalLock(l) /\ proc'[l].at = "replace"
            \/ LocalReplace(l) /\ proc'[l].at = "verify"
            \/ LocalFails(l) /\ proc'[l].at = "idle"
            \/ LocalVerify(l) /\ proc'[l].at \in {"idle", "reload"}
            \/ Reload(l) /\ proc'[l].at = "idle"
            \/ LocalReloadFails(l) /\ proc'[l].at \in {"idle", "lock"}
<1>0. /\ l \in Writers /\ proc[l] \in Procs /\ Shape(l, proc[l])
      /\ proc \in [Writers -> Procs] /\ \A v \in Writers : Shape(v, proc[v])
      /\ l \notin Portals /\ Locals \subseteq Writers /\ Idle.at = "idle"
  BY WritersDistinct DEF TInv, TypeOK, Writers, Idle
<1>1. \A r : r \in Procs /\ Shape(l, r) =>
        LET g == [proc EXCEPT ![l] = r]
        IN  /\ g \in [Writers -> Procs] /\ \A v \in Writers : Shape(v, g[v])
            /\ \A k \in Locals \ {l} : g[k].at = proc[k].at
            /\ g[l] = r
  <2>1. ASSUME NEW r \in Procs, Shape(l, r)
        PROVE  LET g == [proc EXCEPT ![l] = r]
               IN  g \in [Writers -> Procs] /\ \A v \in Writers : Shape(v, g[v])
    BY <1>0, <2>1, PutKeepsShape
  <2>. QED
    BY <1>0, <2>1
<1>2. \A r : proc' = [proc EXCEPT ![l] = r] /\ r \in Procs /\ Shape(l, r) =>
        /\ proc' \in [Writers -> Procs] /\ \A v \in Writers : Shape(v, proc'[v])
        /\ \A k \in Locals \ {l} : proc'[k].at = proc[k].at
        /\ proc'[l] = r
  BY <1>1
<1>3. Finish(l) => /\ proc' \in [Writers -> Procs] /\ \A v \in Writers : Shape(v, proc'[v])
                   /\ \A k \in Locals \ {l} : proc'[k].at = proc[k].at
                   /\ proc'[l].at = "idle"
  BY <1>0, <1>2, IdleShape DEF Finish
<1>4. CASE LocalLock(l)
  <2>. DEFINE r == [proc[l] EXCEPT !.at = "replace"]
  <2>1. r \in Procs /\ Shape(l, r) /\ r.at = "replace"
    BY <1>0, <1>4 DEF Procs, Shape, LocalLock, Composing
  <2>2. proc' = [proc EXCEPT ![l] = r]
    BY <1>0, <1>4 DEF LocalLock
  <2>. HIDE DEF r
  <2>. QED
    BY <1>2, <1>4, <2>1, <2>2
<1>5. CASE LocalReplace(l)
  <2>. DEFINE r == [proc[l] EXCEPT !.at = "verify"]
              g == [proc EXCEPT ![l] = r]
  <2>1. r \in Procs /\ Shape(l, r) /\ r.at = "verify"
    BY <1>0, <1>5 DEF Procs, Shape, LocalReplace, Composing
  <2>2. /\ g \in [Writers -> Procs] /\ \A v \in Writers : Shape(v, g[v])
        /\ \A k \in Locals \ {l} : g[k].at = proc[k].at
        /\ g[l].at = "verify"
    BY <1>1, <2>1
  <2>3. proc' = Orphaned(g)
    BY <1>0, <1>5 DEF LocalReplace
  <2>. HIDE DEF g
  <2>4. /\ proc' \in [Writers -> Procs] /\ \A v \in Writers : Shape(v, proc'[v])
        /\ \A v \in Writers : proc'[v].at = g[v].at
    BY <2>2, <2>3, OutKeepsShape
  <2>. QED
    BY <1>0, <1>5, <2>2, <2>4
<1>6. CASE LocalFails(l)
  BY <1>3, <1>6 DEF LocalFails
<1>7. CASE LocalVerify(l) /\ ~Finish(l)
  <2>. DEFINE r == [proc[l] EXCEPT !.at = "reload"]
  <2>1. r \in Procs /\ Shape(l, r) /\ r.at = "reload"
    BY <1>0, <1>7 DEF Procs, Shape, LocalVerify, Composing, LocalEdits
  <2>2. proc' = [proc EXCEPT ![l] = r]
    BY <1>0, <1>7 DEF LocalVerify
  <2>. HIDE DEF r
  <2>. QED
    BY <1>2, <1>7, <2>1, <2>2
<1>8. CASE Reload(l)
  BY <1>3, <1>8 DEF Reload
<1>9. CASE LocalReloadFails(l) /\ ~Finish(l)
  <2>. DEFINE r == [proc[l] EXCEPT !.at = "lock", !.kind = "rollback",
                                   !.old = proc[l].new, !.new = proc[l].old]
  <2>1. proc[l].old \in Docs /\ proc[l].new \in Docs /\ proc[l].id \in Ids
    BY <1>0, <1>9 DEF Shape, LocalReloadFails
  <2>2. r \in Procs /\ Shape(l, r) /\ r.at = "lock"
    BY <1>0, <1>9, <2>1 DEF Procs, Shape, LocalReloadFails, Composing, Files
  <2>3. proc' = [proc EXCEPT ![l] = r]
    BY <1>0, <1>9 DEF LocalReloadFails
  <2>. HIDE DEF r
  <2>. QED
    BY <1>2, <1>9, <2>2, <2>3
<1>. QED
  BY <1>3, <1>4, <1>5, <1>6, <1>7, <1>8, <1>9
     DEF LocalContinues, LocalVerify, LocalReloadFails

\* A step of a local keeps the types and takes, keeps or frees the lock.
LEMMA LocalTInv ==
  ASSUME TInv, NEW l \in Locals, LocalContinues(l)
  PROVE  TInv'
<1>1. /\ proc' \in [Writers -> Procs] /\ \A v \in Writers : Shape(v, proc'[v])
      /\ \A k \in Locals \ {l} : proc'[k].at = proc[k].at
  BY LocalShape
<1>2. \A k \in Locals : proc[k].at \in {"replace", "verify"} <=> lock = k
  BY DEF TInv, Mutex
<1>3. Mutex' /\ lock' \in Locals \cup {Nobody}
  <2>0. l # Nobody /\ lock \in Locals \cup {Nobody}
    BY WritersDistinct DEF TInv, TypeOK
  <2>. SUFFICES lock' \in Locals \cup {Nobody} /\ \A k \in Locals : proc'[k].at \in {"replace", "verify"} <=> lock' = k
    BY DEF Mutex
  <2>1. CASE LocalLock(l) /\ proc'[l].at = "replace"
    BY <1>1, <1>2, <2>0, <2>1, WritersDistinct DEF LocalLock
  <2>2. CASE LocalReplace(l) /\ proc'[l].at = "verify"
    BY <1>1, <1>2, <2>0, <2>2 DEF LocalReplace
  <2>3. CASE LocalFails(l) /\ proc'[l].at = "idle"
    <3>1. lock = l /\ lock' = Nobody
      BY <1>2, <2>3 DEF LocalFails
    <3>. QED
      BY <1>1, <1>2, <2>0, <2>3, <3>1, WritersDistinct
  <2>4. CASE LocalVerify(l) /\ proc'[l].at \in {"idle", "reload"}
    <3>1. lock = l /\ lock' = Nobody
      BY <1>2, <2>4 DEF LocalVerify
    <3>. QED
      BY <1>1, <1>2, <2>0, <2>4, <3>1, WritersDistinct
  <2>5. CASE Reload(l) /\ proc'[l].at = "idle"
    BY <1>1, <1>2, <2>0, <2>5 DEF Reload
  <2>6. CASE LocalReloadFails(l) /\ proc'[l].at \in {"idle", "lock"}
    BY <1>1, <1>2, <2>0, <2>6 DEF LocalReloadFails
  <2>. QED
    BY LocalShape, <2>1, <2>2, <2>3, <2>4, <2>5, <2>6
<1>4. /\ proc[l] \in Procs /\ Shape(l, proc[l])
      /\ live \in Docs \cup {Empty} /\ loaded \in Docs \cup {Empty}
      /\ backup \in [Labels -> Files] /\ ideal \in Docs
      /\ raced \in BOOLEAN /\ shared \in BOOLEAN /\ torn \in BOOLEAN /\ unloaded \in BOOLEAN
      /\ fails \in 0 .. MaxFail /\ MaxFail \in Nat
  BY BoundsAreNaturals DEF TInv, TypeOK, Writers
<1>5. /\ live' \in Docs \cup {Empty} /\ loaded' \in Docs \cup {Empty}
      /\ backup' \in [Labels -> Files] /\ ideal' \in Docs
      /\ raced' \in BOOLEAN /\ shared' \in BOOLEAN /\ torn' \in BOOLEAN /\ unloaded' \in BOOLEAN
      /\ UNCHANGED <<tmp, now, edits>> /\ fails' \in 0 .. MaxFail
  <2>1. CASE LocalLock(l)
    BY <1>4, <2>1 DEF LocalLock, history, bounds, Files, Labels, LabelOf
  <2>2. CASE LocalReplace(l)
    <3>1. proc[l].new \in Docs /\ proc[l].id \in Ids
      BY <1>4, <2>2 DEF LocalReplace, Shape, Composing
    <3>2. ideal' \in Docs /\ raced' \in BOOLEAN /\ torn' = FALSE
      BY <1>4, <2>2, <3>1, EditedIsDoc DEF LocalReplace, Replaced
    <3>3. UNCHANGED <<shared, unloaded>>
      BY <2>2 DEF LocalReplace, Replaced
    <3>. QED
      BY <1>4, <2>2, <3>1, <3>2, <3>3 DEF LocalReplace, bounds
  <2>3. CASE LocalFails(l)
    BY <1>4, <2>3 DEF LocalFails, Fail, history, files
  <2>4. CASE LocalVerify(l)
    BY <1>4, <2>4 DEF LocalVerify, EndsUnloaded, bounds, files
  <2>5. CASE Reload(l)
    BY <1>4, <2>5 DEF Reload, bounds, files
  <2>6. CASE LocalReloadFails(l)
    BY <1>4, <2>6 DEF LocalReloadFails, EndsUnloaded, Fail, files
  <2>. QED
    BY <2>1, <2>2, <2>3, <2>4, <2>5, <2>6 DEF LocalContinues
<1>6. TypeOK'
  BY <1>1, <1>3, <1>5 DEF TInv, TypeOK
<1>. QED
  BY <1>1, <1>3, <1>6 DEF TInv

\* Every step keeps the types, the shapes and the lock.
LEMMA StepTInv == TInv /\ [Next]_vars => TInv'
<1>. SUFFICES ASSUME TInv, [Next]_vars PROVE TInv'
  OBVIOUS
<1>1. CASE UNCHANGED vars
  BY <1>1 DEF vars, files, history, bounds, TInv, TypeOK, Mutex
<1>2. CASE Tick
  <2>1. now' \in 0 .. MaxSecond
    BY <1>2, BoundsAreNaturals DEF Tick, TInv, TypeOK
  <2>. QED
    BY <1>2, <2>1 DEF Tick, files, history, bounds, TInv, TypeOK, Mutex
<1>3. ASSUME NEW p \in Portals, NEW i \in Ids, NEW k \in PortalKinds,
             IF k = "restore" THEN PortalReset(p, i) ELSE PortalEdit(p, k, i)
      PROVE  TInv'
  BY <1>3, KindsKnown, BeginTInv DEF PortalReset, PortalEdit, Writers
<1>4. ASSUME NEW l \in Locals, NEW i \in Ids, NEW k \in LocalKinds, LocalEdit(l, k, i)
      PROVE  TInv'
  BY <1>4, KindsKnown, BeginTInv DEF LocalEdit, Writers
<1>. QED
  BY <1>1, <1>2, <1>3, <1>4, PortalTInv, LocalTInv DEF Next

LEMMA SpecTInv == Spec => []TInv
<1>. QED
  BY InitTInv, StepTInv, PTL DEF Spec

\* The variables keep their types, with any number of writers of both sorts.
THEOREM TypeCorrect == Spec => []TypeOK
<1>1. TInv => TypeOK
  BY DEF TInv
<1>. QED
  BY <1>1, SpecTInv, PTL

\* Never are two locals between the backup and the last check of
\* atomic_write_conf_local, where no step of the code tests the lock again.
LocksExclude ==
  \A k, l \in Locals :
    {proc[k].at, proc[l].at} \subseteq {"replace", "verify"} => k = l

THEOREM LocalsExclude == Spec => []LocksExclude
<1>1. TInv => LocksExclude
  BY DEF TInv, Mutex, LocksExclude
<1>. QED
  BY <1>1, SpecTInv, PTL

-----------------------------------------------------------------------------
(* Whole, loaded and complete at rest.                                     *)

\* A step leaves writer v as it was, but for where its output goes.
Kept(v) == /\ proc'[v].at = proc[v].at /\ proc'[v].kind = proc[v].kind
           /\ proc'[v].id = proc[v].id /\ proc'[v].old = proc[v].old
           /\ proc'[v].new = proc[v].new /\ proc'[v].second = proc[v].second

\* Nothing is under way at the start.
LEMMA InitSInv == Init => SInv
<1>. SUFFICES ASSUME Init PROVE SInv
  OBVIOUS
<1>1. \A w \in Writers : proc[w] = Idle /\ proc[w].at = "idle"
  BY DEF Init, Idle
<1>2. live \in Docs /\ live = loaded /\ live = ideal /\ live # Empty
  BY NoFileIsNoDocument DEF Init, Initially, Docs, Blocks
<1>3. \A s \in 0 .. MaxSecond : tmp[s] = NoDoc
  BY DEF Init
<1>4. \A w \in Writers : ~UsesTemp(w) /\ ~Copying(w) /\ Faithful(w)
  BY <1>1 DEF UsesTemp, Copying, Faithful, Composing
<1>5. EmptyIsOpen
  BY <1>2, <1>3, NoFileIsNoDocument DEF EmptyIsOpen
<1>6. OwnTemp
  BY <1>4 DEF OwnTemp, UsesTemp, Writers
<1>. QED
  BY <1>2, <1>4, <1>5, <1>6 DEF SInv, Loads, Keeps, Writers

\* A step of w that writes into no file and opens none, and after which charon's
\* secrets are no more behind than before.
Quiet(w) ==
  /\ UNCHANGED <<live, tmp, ideal, raced, shared, torn>>
  /\ \A v \in Writers \ {w} : Kept(v) /\ proc'[v].out = proc[v].out
  /\ {proc[w].at, proc'[w].at} \cap {"tee", "cp"} = {}
  /\ UsesTemp(w)' => /\ proc[w].at = "check"
                     /\ proc'[w].second = proc[w].second /\ proc'[w].new = proc[w].new
  /\ Faithful(w)'
  /\ ~unloaded' /\ ~shared => \/ loaded' = live
                              \/ WillLoad(w)'
                              \/ ~unloaded /\ loaded' = loaded /\ ~WillLoad(w)

LEMMA QuietSInv ==
  ASSUME TInv, SInv, NEW w \in Writers, Quiet(w)
  PROVE  SInv'
<1>1. /\ UNCHANGED <<live, tmp, ideal, raced, shared, torn>>
      /\ \A v \in Writers \ {w} : Kept(v) /\ proc'[v].out = proc[v].out
      /\ proc[w].at \notin {"tee", "cp"} /\ proc'[w].at \notin {"tee", "cp"}
  BY DEF Quiet
<1>2. \A v \in Writers : (Copying(v)' <=> Copying(v)) /\ (Spilling(v)' <=> Spilling(v))
  BY <1>1 DEF Copying, Spilling, Kept
<1>3. \A v \in Writers, s \in 0 .. MaxSecond : Filling(v, s) => Filling(v, s)'
  BY <1>1 DEF Filling, Kept
<1>4. EmptyIsOpen'
  BY <1>1, <1>2, <1>3 DEF SInv, EmptyIsOpen, Writers
<1>5. OwnTemp'
  <2>1. \A v \in Writers : UsesTemp(v)' =>
          /\ UsesTemp(v) /\ proc'[v].second = proc[v].second /\ proc'[v].new = proc[v].new
          /\ proc'[v].at = "tee" => proc[v].at = "tee" /\ proc'[v].out = proc[v].out
          /\ proc'[v].at \in {"check", "move"} => proc[v].at \in {"check", "move"}
    BY <1>1 DEF Quiet, UsesTemp, Kept
  <2>. QED
    BY <1>1, <2>1 DEF SInv, OwnTemp, UsesTemp, Writers
<1>6. \A v \in Writers : Faithful(v)'
  BY <1>1 DEF SInv, Quiet, Faithful, Kept
<1>7. Loads'
  <2>1. \A v \in Writers \ {w} : WillLoad(v) => WillLoad(v)'
    BY <1>1, <1>2 DEF WillLoad, Kept
  <2>. QED
    BY <1>1, <2>1 DEF SInv, Loads, Quiet
<1>8. Keeps'
  <2>1. \A v \in Writers : Copying(v) => proc'[v].new = proc[v].new
    BY <1>1 DEF Copying, Kept
  <2>. QED
    BY <1>1, <1>2, <2>1 DEF SInv, Keeps, Writers
<1>. QED
  BY <1>4, <1>5, <1>6, <1>7, <1>8 DEF SInv

\* Where only the record of w changes.
LEMMA OnlyOne ==
  ASSUME TInv, NEW w \in Writers, NEW r, proc' = [proc EXCEPT ![w] = r]
  PROVE  proc'[w] = r /\ \A v \in Writers \ {w} : Kept(v) /\ proc'[v].out = proc[v].out
BY DEF TInv, TypeOK, Kept

\* Starting an edit.
LEMMA BeginSInv ==
  ASSUME TInv, SInv, NEW w \in Writers, NEW i \in Ids, NEW k, NEW step, Begin(w, k, i, step),
         step \in {"stamp", "pick", "lock"}, k = "restore" => step = "pick"
  PROVE  SInv'
<1>. DEFINE r == [at |-> step, kind |-> k, id |-> i, old |-> live,
                  new |-> IF k = "restore" THEN NoDoc ELSE Edited(k, i, live),
                  second |-> 0, out |-> "none"]
<1>1. proc[w].at = "idle" /\ UNCHANGED <<live, tmp, loaded, history>>
  BY DEF Begin, Idle, files
<1>2. proc' = [proc EXCEPT ![w] = r]
  BY DEF Begin
<1>3. r.at = step /\ r.kind = k /\ (k # "restore" => r.new = Edited(r.kind, r.id, r.old))
  OBVIOUS
<1>. HIDE DEF r
<1>4. proc'[w] = r /\ \A v \in Writers \ {w} : Kept(v) /\ proc'[v].out = proc[v].out
  BY <1>2, OnlyOne
<1>5. Faithful(w)' /\ ~WillLoad(w) /\ ~UsesTemp(w)'
  BY <1>1, <1>3, <1>4 DEF Faithful, WillLoad, Copying, UsesTemp, Composing
<1>6. Quiet(w)
  BY <1>1, <1>3, <1>4, <1>5 DEF Quiet, history
<1>. QED
  BY <1>6, QuietSInv

\* What a rename or a removal does to another writer v: nothing, but for where
\* the output goes that v has open.
LEMMA OthersRedirected ==
  ASSUME TInv, NEW p \in Portals, AbandonTemp(p) \/ MoveTemp(p), NEW v \in Writers \ {p}
  PROVE  /\ Kept(v)
         /\ AbandonTemp(p) => proc'[v].out = IF proc[v].out = "tmp" /\ proc[v].second = proc[p].second
                                           THEN "gone" ELSE proc[v].out
         /\ MoveTemp(p) => proc'[v].out = IF proc[v].out = "live" THEN "gone"
                                        ELSE IF proc[v].out = "tmp" /\ proc[v].second = proc[p].second
                                        THEN "live" ELSE proc[v].out
<1>0. /\ proc \in [Writers -> Procs] /\ p \in Writers /\ v \in Writers /\ v # p
      /\ proc[p] \in Procs /\ proc[v] \in Procs
  BY DEF TInv, TypeOK, Writers
<1>2. CASE AbandonTemp(p)
  <2>. DEFINE f == [proc EXCEPT ![p] = Idle]
  <2>1. f[v] = proc[v] /\ proc' = Redirected(f, proc[p].second, "gone")
    BY <1>0, <1>2 DEF AbandonTemp
  <2>. HIDE DEF f
  <2>2. proc'[v] = [proc[v] EXCEPT !.out = IF @ = "tmp" /\ proc[v].second = proc[p].second
                                           THEN "gone" ELSE @]
    BY <1>0, <2>1 DEF Redirected
  <2>3. ~MoveTemp(p)
    BY <1>2 DEF AbandonTemp, MoveTemp
  <2>. QED
    BY <1>0, <1>2, <2>2, <2>3 DEF Kept, Procs
<1>3. CASE MoveTemp(p)
  <2>. DEFINE f == [proc EXCEPT ![p].at = "verify"]
              g == Orphaned(f)
  <2>1. f[v] = proc[v] /\ proc' = Redirected(g, proc[p].second, "live")
    BY <1>0, <1>3 DEF MoveTemp
  <2>. HIDE DEF f
  <2>2. g[v] = [proc[v] EXCEPT !.out = IF @ = "live" THEN "gone" ELSE @]
    BY <1>0, <2>1 DEF Orphaned
  <2>. HIDE DEF g
  <2>3. proc'[v] = [g[v] EXCEPT !.out = IF @ = "tmp" /\ g[v].second = proc[p].second
                                        THEN "live" ELSE @]
    BY <1>0, <2>1 DEF Redirected
  <2>4. ~AbandonTemp(p)
    BY <1>3 DEF AbandonTemp, MoveTemp
  <2>5. /\ g[v] \in Procs /\ g[v].out = IF proc[v].out = "live" THEN "gone" ELSE proc[v].out
        /\ g[v].at = proc[v].at /\ g[v].kind = proc[v].kind /\ g[v].id = proc[v].id
        /\ g[v].old = proc[v].old /\ g[v].new = proc[v].new /\ g[v].second = proc[v].second
    BY <1>0, <2>2 DEF Procs
  <2>6. /\ proc'[v].out = IF g[v].out = "tmp" /\ g[v].second = proc[p].second THEN "live" ELSE g[v].out
        /\ proc'[v].at = g[v].at /\ proc'[v].kind = g[v].kind /\ proc'[v].id = g[v].id
        /\ proc'[v].old = g[v].old /\ proc'[v].new = g[v].new /\ proc'[v].second = g[v].second
    BY <2>3, <2>5 DEF Procs
  <2>. QED
    BY <1>3, <2>4, <2>5, <2>6 DEF Kept
<1>. QED
  BY <1>2, <1>3

-----------------------------------------------------------------------------
(* The steps that move files, one lemma each.                              *)

\* What they start from.
LEMMA PortalFacts ==
  ASSUME TInv, NEW p \in Portals
  PROVE  /\ p \in Writers /\ proc \in [Writers -> Procs] /\ proc[p] \in Procs /\ Shape(p, proc[p])
         /\ proc[p].second \in 0 .. MaxSecond
         /\ tmp \in [0 .. MaxSecond -> Files] /\ live \in Docs \cup {Empty} /\ ideal \in Docs
         /\ Empty \notin Docs /\ NoDoc \notin Docs /\ NoDoc # Empty
BY NoFileIsNoDocument DEF TInv, TypeOK, Writers, Procs

\* One thread moves, and no other's temporary file.
LEMMA OwnTempKept ==
  ASSUME OwnTemp, ~shared, NEW p \in Portals,
         \A q \in Portals \ {p} :
           /\ Kept(q) /\ (proc[q].at = "tee" => proc'[q].out = proc[q].out)
           /\ UsesTemp(q) => tmp'[proc[q].second] = tmp[proc[q].second],
         proc'[p].at = "tee" => proc'[p].out = "tmp" /\ tmp'[proc'[p].second] = Empty,
         proc'[p].at \in {"check", "move"} => tmp'[proc'[p].second] = proc'[p].new,
         UsesTemp(p)' => \A q \in Portals \ {p} : UsesTemp(q) => proc[q].second # proc'[p].second
  PROVE  OwnTemp'
<1>1. ASSUME NEW q \in Portals \ {p}
      PROVE  /\ proc'[q].at = "tee" => proc'[q].out = "tmp" /\ tmp'[proc'[q].second] = Empty
             /\ proc'[q].at \in {"check", "move"} => tmp'[proc'[q].second] = proc'[q].new
             /\ (UsesTemp(q)' <=> UsesTemp(q)) /\ proc'[q].second = proc[q].second
  <2>1. /\ proc[q].at = "tee" => proc[q].out = "tmp" /\ tmp[proc[q].second] = Empty
        /\ proc[q].at \in {"check", "move"} => tmp[proc[q].second] = proc[q].new
    BY DEF OwnTemp
  <2>. QED
    BY <2>1 DEF UsesTemp, Kept
<1>2. \A q, u \in Portals \ {p} :
        UsesTemp(q) /\ UsesTemp(u) /\ proc[q].second = proc[u].second => q = u
  BY DEF OwnTemp
<1>3. \A q, u \in Portals : UsesTemp(q)' /\ UsesTemp(u)' /\ proc'[q].second = proc'[u].second => q = u
  BY <1>1, <1>2
<1>. QED
  BY <1>1, <1>3 DEF OwnTemp

LEMMA OpenTempSInv ==
  ASSUME TInv, SInv, NEW p \in Portals, OpenTemp(p)
  PROVE  SInv'
<1>. DEFINE s == proc[p].second
<1>1. /\ proc[p].at = "open" /\ tmp' = [tmp EXCEPT ![s] = Empty]
      /\ shared' = (shared \/ \E q \in Portals \ {p} : UsesTemp(q) /\ proc[q].second = s)
      /\ UNCHANGED <<live, loaded, ideal, raced, torn, unloaded>>
  BY DEF OpenTemp
<1>2. \A v \in Writers \ {p} : Kept(v) /\ proc'[v].out = proc[v].out
  BY PortalFacts DEF OpenTemp, Kept
<1>3. /\ proc'[p].at = "tee" /\ proc'[p].out = "tmp" /\ proc'[p].second = s
      /\ proc'[p].kind = proc[p].kind /\ proc'[p].id = proc[p].id
      /\ proc'[p].old = proc[p].old /\ proc'[p].new = proc[p].new
  BY PortalFacts DEF OpenTemp, Procs
<1>4. \A v \in Writers : /\ (Copying(v)' <=> Copying(v))
                         /\ (Spilling(v)' <=> Spilling(v))
                         /\ (WillLoad(v)' <=> WillLoad(v))
  BY <1>1, <1>2, <1>3 DEF Copying, Spilling, WillLoad, Kept
<1>5. EmptyIsOpen'
  <2>1. \A z \in 0 .. MaxSecond : tmp'[z] = Empty => \E q \in Portals : Filling(q, z)'
    <3>1. SUFFICES ASSUME NEW z \in 0 .. MaxSecond, z # s, tmp[z] = Empty
                   PROVE  \E q \in Portals : Filling(q, z)'
      BY <1>1, <1>3, PortalFacts DEF Filling
    <3>2. PICK q \in Portals : Filling(q, z)
      BY <3>1 DEF SInv, EmptyIsOpen
    <3>3. q \in Writers \ {p}
      BY <1>1, <3>2 DEF Filling, Writers
    <3>. QED
      BY <1>2, <3>2, <3>3 DEF Filling, Kept
  <2>. QED
    BY <1>1, <1>4, <2>1 DEF SInv, EmptyIsOpen, Writers
<1>6. OwnTemp'
  <2>1. SUFFICES ASSUME ~shared'
                 PROVE  OwnTemp'
    BY DEF OwnTemp
  <2>2. \A q \in Portals \ {p} :
          /\ q \in Writers \ {p} /\ proc[q].second \in 0 .. MaxSecond
          /\ UsesTemp(q) => proc[q].second # s
    BY <1>1, <2>1, PortalFacts
  <2>3. ~shared
    BY <1>1, <2>1
  <2>4. \A q \in Portals \ {p} : UsesTemp(q) => tmp'[proc[q].second] = tmp[proc[q].second]
    BY <1>1, <2>2, PortalFacts
  <2>5. tmp'[s] = Empty
    BY <1>1, PortalFacts
  <2>. QED
    BY <1>2, <1>3, <2>2, <2>3, <2>4, <2>5, OwnTempKept DEF SInv
<1>7. \A v \in Writers : Faithful(v)'
  BY <1>1, <1>2, <1>3 DEF SInv, Faithful, Kept, Composing
<1>8. Loads'
  BY <1>1, <1>4 DEF SInv, Loads
<1>9. Keeps'
  <2>1. \A v \in Writers : proc'[v].new = proc[v].new
    BY <1>2, <1>3 DEF Kept
  <2>. QED
    BY <1>1, <1>4, <2>1 DEF SInv, Keeps, Writers
<1>. QED
  BY <1>5, <1>6, <1>7, <1>8, <1>9 DEF SInv

LEMMA WriteTempSInv ==
  ASSUME TInv, SInv, NEW p \in Portals, WriteTemp(p)
  PROVE  SInv'
<1>. DEFINE s == proc[p].second
            d == proc[p].new
<1>1. /\ proc[p].at = "tee" /\ UNCHANGED <<loaded, ideal, raced, shared, unloaded>>
      /\ d \in Docs /\ d # Empty /\ d # NoDoc
      /\ \/ proc[p].out = "tmp" /\ tmp' = [tmp EXCEPT ![s] = Over(@, d)] /\ UNCHANGED <<live, torn>>
         \/ proc[p].out = "live" /\ live' = Over(live, d) /\ torn' = FALSE /\ UNCHANGED tmp
         \/ proc[p].out = "gone" /\ UNCHANGED <<tmp, live, torn>>
  BY PortalFacts DEF WriteTemp, Shape, Composing
<1>2. \A v \in Writers \ {p} : Kept(v) /\ proc'[v].out = proc[v].out
  BY PortalFacts DEF WriteTemp, Kept
<1>3. /\ proc'[p].at = "check" /\ proc'[p].second = s /\ proc'[p].kind = proc[p].kind
      /\ proc'[p].id = proc[p].id /\ proc'[p].old = proc[p].old /\ proc'[p].new = d
  BY PortalFacts DEF WriteTemp, Procs
<1>4. \A v \in Writers \ {p} :
        /\ (Copying(v)' <=> Copying(v)) /\ (Spilling(v)' <=> Spilling(v))
        /\ \A z \in 0 .. MaxSecond : Filling(v, z)' <=> Filling(v, z)
  BY <1>2 DEF Copying, Spilling, Filling, Kept
<1>5. ~Copying(p) /\ ~Copying(p)' /\ ~WillLoad(p)
  BY <1>1, <1>3 DEF Copying, WillLoad
<1>6. \A f : Over(f, d) # Empty /\ Over(Empty, d) = d
  BY <1>1 DEF Over
<1>7. EmptyIsOpen'
  <2>1. ASSUME NEW z \in 0 .. MaxSecond, tmp'[z] = Empty
        PROVE  \E q \in Portals : Filling(q, z)'
    <3>1. tmp[z] = Empty /\ ~Filling(p, z)
      BY <1>1, <1>6, <2>1, PortalFacts DEF Filling
    <3>. QED
      BY <1>4, <3>1 DEF SInv, EmptyIsOpen, Writers
  <2>2. live' = Empty => live = Empty /\ torn' = torn /\ ~Spilling(p)
    BY <1>1, <1>6 DEF Spilling
  <2>. QED
    BY <1>4, <1>5, <2>1, <2>2 DEF SInv, EmptyIsOpen, Writers
<1>8. OwnTemp' /\ (~shared => live' = live)
  <2>1. SUFFICES ASSUME ~shared PROVE OwnTemp' /\ live' = live
    BY <1>1 DEF OwnTemp
  <2>2. proc[p].out = "tmp" /\ tmp[s] = Empty
    BY <1>1, <2>1 DEF SInv, OwnTemp
  <2>3. tmp' = [tmp EXCEPT ![s] = d] /\ live' = live
    BY <1>1, <1>6, <2>2
  <2>4. \A q \in Portals \ {p} :
          /\ q \in Writers \ {p}
          /\ UsesTemp(q) => proc[q].second \in 0 .. MaxSecond /\ proc[q].second # s
    BY <1>1, <2>1, PortalFacts DEF SInv, OwnTemp, UsesTemp
  <2>5. \A q \in Portals \ {p} : UsesTemp(q) => tmp'[proc[q].second] = tmp[proc[q].second]
    BY <2>3, <2>4, PortalFacts
  <2>6. tmp'[s] = d
    BY <2>3, PortalFacts
  <2>. QED
    BY <1>2, <1>3, <2>1, <2>3, <2>4, <2>5, <2>6, OwnTempKept DEF SInv
<1>9. \A v \in Writers : Faithful(v)'
  BY <1>1, <1>2, <1>3 DEF SInv, Faithful, Kept, Composing
<1>10. Loads'
  <2>1. \A v \in Writers \ {p} : WillLoad(v) /\ live' = live => WillLoad(v)'
    BY <1>2, <1>4 DEF WillLoad, Kept
  <2>. QED
    BY <1>1, <1>5, <1>8, <2>1 DEF SInv, Loads
<1>11. Keeps'
  <2>1. \A v \in Writers \ {p} : proc'[v].new = proc[v].new
    BY <1>2 DEF Kept
  <2>. QED
    BY <1>1, <1>4, <1>5, <1>8, <2>1 DEF SInv, Keeps, Writers
<1>. QED
  BY <1>7, <1>8, <1>9, <1>10, <1>11 DEF SInv

LEMMA AbandonTempSInv ==
  ASSUME TInv, SInv, NEW p \in Portals, AbandonTemp(p)
  PROVE  SInv'
<1>. DEFINE s == proc[p].second
<1>1. /\ UsesTemp(p) /\ proc[p].at \in {"tee", "check"}
      /\ tmp' = [tmp EXCEPT ![s] = NoDoc] /\ torn' = (torn \/ proc[p].out = "live")
      /\ UNCHANGED <<live, loaded, ideal, raced, shared, unloaded>>
  BY DEF AbandonTemp, UsesTemp
<1>2. \A v \in Writers \ {p} :
        /\ Kept(v)
        /\ proc'[v].out = IF proc[v].out = "tmp" /\ proc[v].second = s THEN "gone" ELSE proc[v].out
  BY OthersRedirected
<1>3. proc'[p].at = "idle"
  <2>1. proc'[p] = [Idle EXCEPT !.out = IF @ = "tmp" /\ Idle.second = s THEN "gone" ELSE @]
    BY PortalFacts, IdleShape DEF AbandonTemp, Redirected
  <2>. QED
    BY <2>1 DEF Idle
<1>4. \A v \in Writers \ {p} :
        /\ (Copying(v)' <=> Copying(v)) /\ (Spilling(v)' <=> Spilling(v))
        /\ \A z \in 0 .. MaxSecond : z # s /\ Filling(v, z) => Filling(v, z)'
  BY <1>2 DEF Copying, Spilling, Filling, Kept
<1>5. ~Copying(p) /\ ~Copying(p)' /\ ~WillLoad(p)
  BY <1>1, <1>3 DEF Copying, WillLoad
<1>6. EmptyIsOpen'
  <2>1. ASSUME NEW z \in 0 .. MaxSecond, tmp'[z] = Empty
        PROVE  \E q \in Portals : Filling(q, z)'
    <3>1. z # s /\ tmp[z] = Empty
      BY <1>1, <2>1, PortalFacts
    <3>2. PICK q \in Portals : Filling(q, z)
      BY <3>1 DEF SInv, EmptyIsOpen
    <3>. QED
      BY <1>4, <3>1, <3>2 DEF Filling, Writers
  <2>2. Spilling(p) => torn'
    BY <1>1 DEF Spilling
  <2>. QED
    BY <1>1, <1>4, <1>5, <2>1, <2>2 DEF SInv, EmptyIsOpen, Writers
<1>7. OwnTemp'
  <2>1. SUFFICES ASSUME ~shared PROVE OwnTemp'
    BY <1>1 DEF OwnTemp
  <2>2. \A q \in Portals \ {p} :
          /\ q \in Writers \ {p}
          /\ UsesTemp(q) => proc[q].second \in 0 .. MaxSecond /\ proc[q].second # s
    BY <1>1, <2>1, PortalFacts DEF SInv, OwnTemp
  <2>3. \A q \in Portals \ {p} : UsesTemp(q) => tmp'[proc[q].second] = tmp[proc[q].second]
    BY <1>1, <2>2, PortalFacts
  <2>4. \A q \in Portals \ {p} : proc[q].at = "tee" => proc'[q].out = proc[q].out
    BY <1>2, <2>2 DEF UsesTemp
  <2>. QED
    BY <1>2, <1>3, <2>1, <2>2, <2>3, <2>4, OwnTempKept DEF SInv, UsesTemp
<1>8. \A v \in Writers : Faithful(v)'
  BY <1>1, <1>2, <1>3 DEF SInv, Faithful, Kept, Composing
<1>9. Loads'
  <2>1. \A v \in Writers \ {p} : WillLoad(v) => WillLoad(v)'
    BY <1>1, <1>2, <1>4 DEF WillLoad, Kept
  <2>. QED
    BY <1>1, <1>5, <2>1 DEF SInv, Loads
<1>10. Keeps'
  <2>1. \A v \in Writers \ {p} : proc'[v].new = proc[v].new
    BY <1>2 DEF Kept
  <2>. QED
    BY <1>1, <1>4, <1>5, <2>1 DEF SInv, Keeps, Writers
<1>. QED
  BY <1>6, <1>7, <1>8, <1>9, <1>10 DEF SInv

LEMMA MoveTempSInv ==
  ASSUME TInv, SInv, NEW p \in Portals, MoveTemp(p)
  PROVE  SInv'
<1>. DEFINE s == proc[p].second
<1>1. /\ UsesTemp(p) /\ proc[p].at = "move"
      /\ live' = tmp[s] /\ tmp' = [tmp EXCEPT ![s] = NoDoc]
      /\ Replaced(p) /\ UNCHANGED <<loaded, shared, unloaded>>
  BY DEF MoveTemp, UsesTemp, Replaced
<1>2. \A v \in Writers \ {p} :
        /\ Kept(v)
        /\ proc'[v].out = IF proc[v].out = "live" THEN "gone"
                          ELSE IF proc[v].out = "tmp" /\ proc[v].second = s THEN "live" ELSE proc[v].out
  BY OthersRedirected
<1>3. proc'[p].at = "verify" /\ proc'[p].new = proc[p].new
  <2>. DEFINE f == [proc EXCEPT ![p].at = "verify"]
              g == Orphaned(f)
  <2>0. f[p] = [proc[p] EXCEPT !.at = "verify"]
    BY PortalFacts
  <2>1. g[p] \in Procs /\ g[p].at = "verify" /\ g[p].new = proc[p].new
    <3>. HIDE DEF f
    <3>1. g[p] = [f[p] EXCEPT !.out = IF @ = "live" THEN "gone" ELSE @]
      BY PortalFacts DEF Orphaned
    <3>2. f[p] \in Procs /\ f[p].at = "verify" /\ f[p].new = proc[p].new
      BY <2>0, PortalFacts DEF Procs
    <3>. QED
      BY <3>1, <3>2 DEF Procs
  <2>2. proc' = Redirected(g, s, "live")
    BY DEF MoveTemp
  <2>. HIDE DEF g
  <2>3. proc'[p] = [g[p] EXCEPT !.out = IF @ = "tmp" /\ g[p].second = s THEN "live" ELSE @]
    BY <2>2, PortalFacts DEF Redirected
  <2>. QED
    BY <2>1, <2>3 DEF Procs
<1>4. ~Copying(p) /\ \A v \in Portals : ~Copying(v)'
  <2>1. ASSUME NEW v \in Portals \ {p}, Copying(v)' PROVE FALSE
    <3>1. v \in Writers \ {p} /\ proc[v].at = "cp" /\ proc'[v].out = "live"
      BY <1>2, <2>1 DEF Copying, Kept, Writers
    <3>2. proc[v].out \in {"live", "gone"}
      BY <3>1 DEF TInv, Shape
    <3>. QED
      BY <1>2, <3>1, <3>2
  <2>. QED
    BY <1>1, <1>3, <2>1 DEF Copying
<1>5. EmptyIsOpen'
  <2>1. ASSUME NEW z \in 0 .. MaxSecond, tmp'[z] = Empty
        PROVE  \E q \in Portals : Filling(q, z)'
    <3>1. z # s /\ tmp[z] = Empty
      BY <1>1, <2>1, PortalFacts
    <3>2. PICK q \in Portals : Filling(q, z)
      BY <3>1 DEF SInv, EmptyIsOpen
    <3>. QED
      BY <1>1, <1>2, <3>1, <3>2 DEF Filling, Kept, Writers
  <2>2. live' = Empty => \E q \in Portals : Spilling(q)'
    <3>1. SUFFICES ASSUME tmp[s] = Empty PROVE \E q \in Portals : Spilling(q)'
      BY <1>1
    <3>2. PICK q \in Portals : Filling(q, s)
      BY <3>1, PortalFacts DEF SInv, EmptyIsOpen
    <3>. QED
      BY <1>1, <1>2, <3>2 DEF Filling, Spilling, Kept, Writers
  <2>. QED
    BY <2>1, <2>2 DEF EmptyIsOpen
<1>6. ~shared => live' = proc[p].new
  BY <1>1 DEF SInv, OwnTemp
<1>7. OwnTemp'
  <2>1. SUFFICES ASSUME ~shared PROVE OwnTemp'
    BY <1>1 DEF OwnTemp
  <2>2. \A q \in Portals \ {p} :
          /\ q \in Writers \ {p}
          /\ UsesTemp(q) => proc[q].second \in 0 .. MaxSecond /\ proc[q].second # s
    BY <1>1, <2>1, PortalFacts DEF SInv, OwnTemp
  <2>3. \A q \in Portals \ {p} : UsesTemp(q) => tmp'[proc[q].second] = tmp[proc[q].second]
    BY <1>1, <2>2, PortalFacts
  <2>4. \A q \in Portals \ {p} : proc[q].at = "tee" => proc'[q].out = proc[q].out
    BY <1>2, <2>1, <2>2 DEF SInv, OwnTemp, UsesTemp
  <2>. QED
    BY <1>2, <1>3, <2>1, <2>2, <2>3, <2>4, OwnTempKept DEF SInv, UsesTemp
<1>8. \A v \in Writers : Faithful(v)'
  BY <1>1, <1>2, <1>3 DEF SInv, Faithful, Kept, Composing
<1>9. Loads'
  <2>1. ~shared => WillLoad(p)'
    BY <1>3, <1>6 DEF WillLoad
  <2>. QED
    BY <1>1, <2>1 DEF Loads, Writers
<1>10. Keeps'
  <2>1. SUFFICES ASSUME ~raced', ~shared PROVE live' = ideal'
    BY <1>1, <1>4 DEF Keeps
  <2>2. ~raced /\ live = proc[p].old /\ proc[p].kind # "rollback"
    BY <1>1, <2>1, PortalFacts DEF Replaced, Shape, PortalEdits
  <2>3. proc[p].old \in Docs /\ proc[p].new = Edited(proc[p].kind, proc[p].id, proc[p].old)
    BY <1>1, <2>2, PortalFacts DEF SInv, Faithful, Shape, Composing
  <2>4. live = ideal
    BY <2>1, <2>2, <2>3, PortalFacts DEF SInv, Keeps
  <2>5. ideal' = Edited(proc[p].kind, proc[p].id, ideal)
    BY <1>1, <2>2 DEF Replaced
  <2>. QED
    BY <1>6, <2>1, <2>2, <2>3, <2>4, <2>5
<1>. QED
  BY <1>5, <1>7, <1>8, <1>9, <1>10 DEF SInv

LEMMA CopySInv ==
  ASSUME TInv, SInv, NEW p \in Portals,
         (StartCopy(p) /\ Newest # NoDoc) \/ FinishCopy(p) \/ CopyFails(p)
  PROVE  SInv'
<1>1. /\ proc[p].at \in {"pick", "cp"}
      /\ UNCHANGED <<tmp, shared>>
      /\ \A v \in Writers \ {p} : Kept(v) /\ proc'[v].out = proc[v].out
  BY PortalFacts DEF StartCopy, FinishCopy, CopyFails, Finish, files, Kept
<1>2. proc'[p].at \in {"cp", "reload", "idle"}
  BY PortalFacts DEF StartCopy, FinishCopy, CopyFails, Finish, Idle, Procs
<1>3. \A v \in Writers \ {p} :
        /\ (Copying(v)' <=> Copying(v)) /\ (Spilling(v)' <=> Spilling(v))
        /\ proc'[v].new = proc[v].new
        /\ \A z \in 0 .. MaxSecond : Filling(v, z)' <=> Filling(v, z)
  BY <1>1 DEF Copying, Spilling, Filling, Kept
<1>4. \A z \in 0 .. MaxSecond : tmp'[z] = Empty => \E q \in Portals : Filling(q, z)'
  <2>1. \A z \in 0 .. MaxSecond : ~Filling(p, z)
    BY <1>1 DEF Filling
  <2>. QED
    BY <1>1, <1>3, <2>1 DEF SInv, EmptyIsOpen, Writers
<1>5. OwnTemp'
  <2>1. SUFFICES ASSUME ~shared PROVE OwnTemp'
    BY <1>1 DEF OwnTemp
  <2>2. \A q \in Portals \ {p} : q \in Writers \ {p}
    BY DEF Writers
  <2>. QED
    BY <1>1, <1>2, <2>1, <2>2, OwnTempKept DEF SInv, UsesTemp
<1>6. \A v \in Writers : Faithful(v)'
  BY <1>1, <1>2 DEF SInv, Faithful, Kept, Composing
<1>7. CASE StartCopy(p) /\ Newest # NoDoc
  <2>1. /\ proc[p].at = "pick" /\ live' = Empty /\ UNCHANGED <<loaded, torn, unloaded>>
        /\ proc'[p].at = "cp" /\ proc'[p].new = Newest /\ proc'[p].out = "live"
        /\ ideal' = Edited("restore", proc[p].id, ideal)
        /\ raced' = (raced \/ live = Empty \/ Newest # Edited("restore", proc[p].id, live))
    BY <1>7, PortalFacts DEF StartCopy, Procs
  <2>2. Copying(p)' /\ ~Copying(p)
    BY <2>1 DEF Copying
  <2>3. EmptyIsOpen' /\ Loads'
    BY <1>4, <2>2 DEF EmptyIsOpen, Loads, WillLoad, Writers
  <2>4. Keeps'
    <3>1. SUFFICES ASSUME ~raced', ~shared
                   PROVE  proc'[p].new = ideal' /\ \A q \in Portals : Copying(q)' => q = p
      BY <1>1, <2>1, <2>2 DEF Keeps
    <3>2. ~raced /\ live # Empty /\ Newest = Edited("restore", proc[p].id, live)
      BY <2>1, <3>1
    <3>3. live = ideal /\ \A q \in Portals : ~Copying(q)
      BY <3>1, <3>2 DEF SInv, Keeps
    <3>. QED
      BY <1>3, <2>1, <3>2, <3>3 DEF Writers
  <2>. QED
    BY <1>5, <1>6, <2>3, <2>4 DEF SInv
<1>8. CASE FinishCopy(p)
  <2>1. /\ proc[p].at = "cp" /\ proc'[p].at = "reload" /\ UNCHANGED <<loaded, ideal, raced, unloaded>>
        /\ \/ Copying(p) /\ live' = Over(live, proc[p].new) /\ torn' = (live' = Empty)
           \/ ~Copying(p) /\ UNCHANGED <<live, torn>>
    BY <1>8, PortalFacts DEF FinishCopy, Copying, Procs
  <2>2. ~Copying(p)' /\ ~Spilling(p) /\ WillLoad(p)'
    BY <2>1 DEF Copying, Spilling, WillLoad
  <2>3. EmptyIsOpen' /\ Loads'
    BY <1>3, <1>4, <2>1, <2>2, PortalFacts DEF SInv, EmptyIsOpen, Loads, Writers
  <2>4. Keeps'
    <3>1. SUFFICES ASSUME ~raced, ~shared PROVE Keeps'
      BY <1>1, <2>1 DEF Keeps
    <3>2. CASE live = ideal /\ \A q \in Portals : ~Copying(q)
      BY <1>3, <2>1, <2>2, <3>2 DEF Keeps, Writers
    <3>3. ASSUME NEW c \in Portals, Copying(c), live = Empty, proc[c].new = ideal,
                 \A q \in Portals : Copying(q) => q = c
          PROVE  Keeps'
      <4>1. CASE c = p
        <5>1. live' = ideal
          BY <2>1, <3>3, <4>1, PortalFacts DEF Over
        <5>. QED
          BY <1>3, <2>1, <2>2, <3>3, <4>1, <5>1 DEF Keeps, Writers
      <4>2. CASE c # p
        BY <1>3, <2>1, <2>2, <3>3, <4>2 DEF Keeps, Writers
      <4>. QED
        BY <4>1, <4>2
    <3>. QED
      BY <3>1, <3>2, <3>3 DEF SInv, Keeps
  <2>. QED
    BY <1>5, <1>6, <2>3, <2>4 DEF SInv
<1>9. CASE CopyFails(p)
  <2>1. /\ proc[p].at = "cp" /\ proc'[p].at = "idle" /\ UNCHANGED <<live, loaded, ideal>>
        /\ torn' = (torn \/ proc[p].out = "live") /\ raced' = (raced \/ proc[p].out = "live")
        /\ unloaded' = (unloaded \/ proc[p].out = "live")
    BY <1>9, PortalFacts DEF CopyFails, Finish, Idle, files
  <2>2. ~Copying(p)' /\ ~Spilling(p) /\ (Copying(p) <=> proc[p].out = "live")
    BY <2>1 DEF Copying, Spilling
  <2>3. EmptyIsOpen'
    BY <1>3, <1>4, <2>1, <2>2 DEF SInv, EmptyIsOpen, Writers
  <2>4. Loads'
    <3>1. \A v \in Writers \ {p} : WillLoad(v) => WillLoad(v)'
      BY <1>1, <1>3, <2>1 DEF WillLoad, Kept
    <3>2. WillLoad(p) => Copying(p)
      BY <2>1 DEF WillLoad
    <3>. QED
      BY <1>1, <2>1, <2>2, <3>1, <3>2 DEF SInv, Loads
  <2>5. Keeps'
    BY <1>1, <1>3, <2>1, <2>2 DEF SInv, Keeps, Writers
  <2>. QED
    BY <1>5, <1>6, <2>3, <2>4, <2>5 DEF SInv
<1>. QED
  BY <1>7, <1>8, <1>9

LEMMA LocalReplaceSInv ==
  ASSUME TInv, SInv, NEW l \in Locals, LocalReplace(l)
  PROVE  SInv'
<1>0. /\ l \in Writers /\ l \notin Portals /\ proc \in [Writers -> Procs] /\ proc[l] \in Procs
      /\ Shape(l, proc[l]) /\ Empty \notin Docs /\ ideal \in Docs
  BY WritersDistinct, NoFileIsNoDocument DEF TInv, TypeOK, Writers
<1>1. /\ proc[l].at = "replace" /\ live' = proc[l].new /\ proc[l].new \in Docs
      /\ Replaced(l) /\ UNCHANGED <<tmp, loaded, shared, unloaded>>
  BY <1>0 DEF LocalReplace, Replaced, Shape, Composing
<1>2. ASSUME NEW v \in Writers
      PROVE  /\ v # l => Kept(v)
             /\ v = l => proc'[v].at = "verify" /\ proc'[v].new = proc[v].new
             /\ proc'[v].out = IF proc[v].out = "live" THEN "gone" ELSE proc[v].out
  <2>. DEFINE f == [proc EXCEPT ![l].at = "verify"]
  <2>1. /\ f[v] \in Procs /\ f[v].out = proc[v].out
        /\ f[v] = IF v = l THEN [proc[l] EXCEPT !.at = "verify"] ELSE proc[v]
    BY <1>0 DEF Procs
  <2>. HIDE DEF f
  <2>2. proc' = Orphaned(f)
    BY DEF LocalReplace, f
  <2>3. proc'[v] = [f[v] EXCEPT !.out = IF @ = "live" THEN "gone" ELSE @]
    BY <2>2 DEF Orphaned
  <2>. QED
    BY <1>0, <2>1, <2>3 DEF Kept, Procs
<1>3. /\ \A v \in Portals : ~Copying(v)'
      /\ \A v \in Portals, z \in 0 .. MaxSecond : Filling(v, z) => Filling(v, z)'
  <2>1. \A v \in Portals : v \in Writers /\ Kept(v) /\ Shape(v, proc[v])
    BY <1>0, <1>2 DEF Writers, TInv
  <2>2. \A v \in Portals : proc'[v].at = "cp" => proc'[v].out = "gone"
    BY <1>2, <2>1 DEF Kept, Shape
  <2>. QED
    BY <1>2, <2>1, <2>2 DEF Copying, Filling, Kept
<1>4. EmptyIsOpen'
  BY <1>0, <1>1, <1>3 DEF SInv, EmptyIsOpen
<1>5. OwnTemp'
  <2>1. SUFFICES ASSUME ~shared, NEW p \in Portals
                 PROVE  /\ proc'[p].at = "tee" => proc'[p].out = "tmp" /\ tmp[proc'[p].second] = Empty
                        /\ proc'[p].at \in {"check", "move"} => tmp[proc'[p].second] = proc'[p].new
                        /\ \A q \in Portals :
                             UsesTemp(p)' /\ UsesTemp(q)' /\ proc'[p].second = proc'[q].second => p = q
    BY <1>1 DEF OwnTemp
  <2>2. \A q \in Portals : Kept(q) /\ (proc[q].out = "tmp" => proc'[q].out = "tmp")
    BY <1>0, <1>2 DEF Writers
  <2>. QED
    BY <2>1, <2>2 DEF SInv, OwnTemp, UsesTemp, Kept
<1>6. \A v \in Writers : Faithful(v)'
  BY <1>2 DEF SInv, Faithful, Kept
<1>7. Loads'
  BY <1>0, <1>1, <1>2 DEF Loads, WillLoad
<1>8. Keeps'
  <2>1. SUFFICES ASSUME ~raced', ~shared PROVE live' = ideal'
    BY <1>1, <1>3 DEF Keeps
  <2>2. ~raced /\ live = proc[l].old /\ live # Empty
    BY <1>0, <1>1, <2>1 DEF Replaced, Shape
  <2>3. live = ideal
    BY <2>1, <2>2 DEF SInv, Keeps
  <2>4. proc[l].kind # "rollback" => proc[l].new = Edited(proc[l].kind, proc[l].id, proc[l].old)
    BY <1>0, <1>1 DEF SInv, Faithful, Composing
  <2>. QED
    BY <1>1, <2>2, <2>3, <2>4 DEF Replaced
<1>. QED
  BY <1>4, <1>5, <1>6, <1>7, <1>8 DEF SInv

-----------------------------------------------------------------------------
(* The steps that move no file.                                            *)

LEMMA PortalQuiet ==
  ASSUME TInv, SInv, NEW p \in Portals, PortalContinues(p),
         ~OpenTemp(p), ~WriteTemp(p), ~AbandonTemp(p), ~MoveTemp(p), ~FinishCopy(p), ~CopyFails(p),
         ~(StartCopy(p) /\ Newest # NoDoc)
  PROVE  Quiet(p)
<1>0. /\ p \in Writers /\ proc[p] \in Procs /\ Shape(p, proc[p]) /\ Faithful(p)
      /\ proc \in [Writers -> Procs]
  BY PortalFacts DEF SInv
<1>1. ASSUME NEW r, proc' = [proc EXCEPT ![p] = r]
      PROVE  proc'[p] = r /\ \A v \in Writers \ {p} : Kept(v) /\ proc'[v].out = proc[v].out
  BY <1>0, <1>1, OnlyOne
<1>2. ASSUME Finish(p)
      PROVE  /\ proc'[p].at = "idle" /\ Faithful(p)' /\ ~UsesTemp(p)'
             /\ \A v \in Writers \ {p} : Kept(v) /\ proc'[v].out = proc[v].out
  <2>1. proc' = [proc EXCEPT ![p] = Idle]
    BY <1>2 DEF Finish
  <2>2. proc'[p] = Idle /\ \A v \in Writers \ {p} : Kept(v) /\ proc'[v].out = proc[v].out
    BY <1>1, <2>1
  <2>3. Idle.at = "idle"
    BY DEF Idle
  <2>. QED
    BY <2>2, <2>3 DEF Faithful, UsesTemp, Composing
<1>3. CASE Stamp(p)
  <2>1. proc' = [proc EXCEPT ![p] = [proc[p] EXCEPT !.at = "open", !.second = now]]
    BY <1>0, <1>3 DEF Stamp
  <2>2. proc'[p].at = "open" /\ Faithful(p)' /\ proc[p].at = "stamp"
    BY <1>0, <1>1, <1>3, <2>1 DEF Stamp, Faithful, Composing, Procs
  <2>. QED
    BY <1>1, <1>3, <2>1, <2>2 DEF Stamp, Quiet, UsesTemp, WillLoad, Copying, files, history
<1>4. CASE CheckTemp(p)
  <2>1. proc' = [proc EXCEPT ![p] = [proc[p] EXCEPT !.at = "move"]]
    BY <1>0, <1>4 DEF CheckTemp
  <2>2. /\ proc'[p].at = "move" /\ Faithful(p)' /\ proc[p].at = "check"
        /\ proc'[p].second = proc[p].second /\ proc'[p].new = proc[p].new
    BY <1>0, <1>1, <1>4, <2>1 DEF CheckTemp, Faithful, Composing, Procs
  <2>. QED
    BY <1>1, <1>4, <2>1, <2>2 DEF CheckTemp, Quiet, WillLoad, Copying, files, history
<1>5. CASE VerifyMove(p)
  <2>1. /\ proc[p].at = "verify" /\ UNCHANGED <<live, tmp, ideal, raced, shared, torn, loaded>>
        /\ unloaded' = (unloaded \/ proc[p].kind = "cleanup")
    BY <1>5 DEF VerifyMove, EndsUnloaded, files
  <2>2. CASE proc[p].kind = "cleanup"
    BY <1>2, <1>5, <2>1, <2>2 DEF VerifyMove, Quiet
  <2>3. CASE proc[p].kind # "cleanup"
    <3>1. proc' = [proc EXCEPT ![p] = [proc[p] EXCEPT !.at = "reload"]]
      BY <1>0, <1>5, <2>3 DEF VerifyMove
    <3>2. proc'[p].at = "reload" /\ Faithful(p)'
      BY <1>0, <1>1, <3>1 DEF Faithful, Composing, Procs
    <3>. QED
      BY <1>1, <2>1, <3>1, <3>2 DEF Quiet, UsesTemp, WillLoad
  <2>. QED
    BY <2>2, <2>3
<1>6. CASE MoveFails(p)
  <2>1. /\ proc[p].at \in {"move", "verify"}
        /\ UNCHANGED <<live, tmp, ideal, raced, shared, torn, loaded>>
        /\ unloaded' = (unloaded \/ (proc[p].at = "verify" /\ fails' # fails))
    BY <1>6 DEF MoveFails, EndsUnloaded, files
  <2>2. ~unloaded' => ~unloaded /\ ~WillLoad(p)
    <3>1. SUFFICES ASSUME proc[p].at = "verify", fails' = fails PROVE ~WillLoad(p)
      BY <2>1 DEF WillLoad, Copying
    <3>2. fails' # fails + 1
      BY <3>1, BoundsAreNaturals DEF TInv, TypeOK
    <3>3. ~SameSize(live, proc[p].new)
      BY <1>6, <3>1, <3>2 DEF MoveFails, Fail
    <3>4. live # proc[p].new
      BY <3>3, PortalFacts DEF SameSize
    <3>. QED
      BY <3>1, <3>4 DEF WillLoad, Copying
  <2>. QED
    BY <1>2, <1>6, <2>1, <2>2 DEF MoveFails, Quiet
<1>7. CASE StartCopy(p)
  BY <1>2, <1>7 DEF StartCopy, Quiet, WillLoad, Copying
<1>8. CASE Reload(p)
  BY <1>2, <1>8 DEF Reload, Quiet, files
<1>9. CASE PortalReloadFails(p)
  <2>1. /\ proc[p].at = "reload" /\ UNCHANGED <<live, tmp, ideal, raced, shared, torn>> /\ unloaded'
    BY <1>9 DEF PortalReloadFails, EndsUnloaded, files
  <2>2. CASE Finish(p)
    BY <1>2, <2>1, <2>2 DEF Quiet
  <2>3. CASE ~Finish(p)
    <3>1. proc' = [proc EXCEPT ![p] = [proc[p] EXCEPT !.at = "stamp", !.kind = "cleanup", !.old = live,
                                         !.new = Edited("cleanup", proc[p].id, live)]]
      BY <1>0, <1>9, <2>3 DEF PortalReloadFails
    <3>2. /\ proc'[p].at = "stamp" /\ proc'[p].kind = "cleanup" /\ proc'[p].old = live
          /\ proc'[p].id = proc[p].id /\ proc'[p].new = Edited("cleanup", proc[p].id, live)
      BY <1>0, <1>1, <3>1 DEF Procs
    <3>3. Faithful(p)'
      BY <3>2 DEF Faithful
    <3>. QED
      BY <1>1, <2>1, <3>1, <3>2, <3>3 DEF Quiet, UsesTemp
  <2>. QED
    BY <2>2, <2>3
<1>. QED
  BY <1>3, <1>4, <1>5, <1>6, <1>7, <1>8, <1>9 DEF PortalContinues

LEMMA LocalQuiet ==
  ASSUME TInv, SInv, NEW l \in Locals, LocalContinues(l), ~LocalReplace(l)
  PROVE  Quiet(l)
<1>0. /\ l \in Writers /\ proc[l] \in Procs /\ Shape(l, proc[l]) /\ Faithful(l)
      /\ proc \in [Writers -> Procs] /\ l \notin Portals
  BY WritersDistinct DEF TInv, TypeOK, Writers, SInv
<1>1. ASSUME NEW r, proc' = [proc EXCEPT ![l] = r]
      PROVE  proc'[l] = r /\ \A v \in Writers \ {l} : Kept(v) /\ proc'[v].out = proc[v].out
  BY <1>0, <1>1, OnlyOne
<1>2. ASSUME Finish(l)
      PROVE  /\ proc'[l].at = "idle" /\ Faithful(l)' /\ ~UsesTemp(l)'
             /\ \A v \in Writers \ {l} : Kept(v) /\ proc'[v].out = proc[v].out
  <2>1. proc' = [proc EXCEPT ![l] = Idle]
    BY <1>2 DEF Finish
  <2>2. proc'[l] = Idle /\ \A v \in Writers \ {l} : Kept(v) /\ proc'[v].out = proc[v].out
    BY <1>1, <2>1
  <2>3. Idle.at = "idle"
    BY DEF Idle
  <2>. QED
    BY <2>2, <2>3 DEF Faithful, UsesTemp, Composing
<1>3. CASE LocalLock(l)
  <2>1. proc' = [proc EXCEPT ![l] = [proc[l] EXCEPT !.at = "replace"]]
    BY <1>0, <1>3 DEF LocalLock
  <2>2. proc'[l].at = "replace" /\ Faithful(l)' /\ proc[l].at = "lock"
    BY <1>0, <1>1, <1>3, <2>1 DEF LocalLock, Faithful, Composing, Procs
  <2>. QED
    BY <1>1, <1>3, <2>1, <2>2 DEF LocalLock, Quiet, UsesTemp, WillLoad, Copying, history
<1>4. CASE LocalFails(l)
  <2>1. /\ proc[l].at \in {"replace", "verify"}
        /\ UNCHANGED <<live, tmp, loaded, history>>
        /\ proc[l].at = "verify" => ~SameSize(live, proc[l].new)
    BY <1>4 DEF LocalFails, files
  <2>2. live # NoDoc
    BY NoFileIsNoDocument DEF TInv, TypeOK
  <2>3. ~WillLoad(l)
    BY <2>1, <2>2 DEF WillLoad, Copying, SameSize
  <2>. QED
    BY <1>2, <1>4, <2>1, <2>3 DEF LocalFails, Quiet, history
<1>5. CASE LocalVerify(l)
  <2>1. /\ proc[l].at = "verify" /\ UNCHANGED <<live, tmp, ideal, raced, shared, torn, loaded>>
        /\ unloaded' = (unloaded \/ proc[l].kind = "rollback")
    BY <1>5 DEF LocalVerify, EndsUnloaded, files
  <2>2. CASE proc[l].kind = "rollback"
    BY <1>2, <1>5, <2>1, <2>2 DEF LocalVerify, Quiet
  <2>3. CASE proc[l].kind # "rollback"
    <3>1. proc' = [proc EXCEPT ![l] = [proc[l] EXCEPT !.at = "reload"]]
      BY <1>0, <1>5, <2>3 DEF LocalVerify
    <3>2. proc'[l].at = "reload" /\ Faithful(l)'
      BY <1>0, <1>1, <3>1 DEF Faithful, Composing, Procs
    <3>. QED
      BY <1>1, <2>1, <3>1, <3>2 DEF Quiet, UsesTemp, WillLoad
  <2>. QED
    BY <2>2, <2>3
<1>6. CASE Reload(l)
  BY <1>2, <1>6 DEF Reload, Quiet, files
<1>7. CASE LocalReloadFails(l)
  <2>1. /\ proc[l].at = "reload" /\ UNCHANGED <<live, tmp, ideal, raced, shared, torn>> /\ unloaded'
    BY <1>7 DEF LocalReloadFails, EndsUnloaded, files
  <2>2. CASE Finish(l)
    BY <1>2, <2>1, <2>2 DEF Quiet
  <2>3. CASE ~Finish(l)
    <3>1. proc' = [proc EXCEPT ![l] = [proc[l] EXCEPT !.at = "lock", !.kind = "rollback",
                                         !.old = proc[l].new, !.new = proc[l].old]]
      BY <1>0, <1>7, <2>3 DEF LocalReloadFails
    <3>2. proc'[l].at = "lock" /\ proc'[l].kind = "rollback"
      BY <1>0, <1>1, <3>1 DEF Procs
    <3>. QED
      BY <1>1, <2>1, <3>1, <3>2 DEF Quiet, UsesTemp, Faithful
  <2>. QED
    BY <2>2, <2>3
<1>. QED
  BY <1>3, <1>4, <1>5, <1>6, <1>7 DEF LocalContinues

-----------------------------------------------------------------------------
(* The properties.                                                         *)

LEMMA StepSInv == TInv /\ SInv /\ [Next]_vars => SInv'
<1>. SUFFICES ASSUME TInv, SInv, [Next]_vars PROVE SInv'
  OBVIOUS
<1>1. CASE UNCHANGED <<live, tmp, loaded, proc, history>>
  BY <1>1 DEF history, SInv, EmptyIsOpen, OwnTemp, Faithful, Loads, Keeps, WillLoad, Copying,
              Spilling, Filling, UsesTemp
<1>2. ASSUME NEW p \in Portals, NEW i \in Ids, NEW k \in PortalKinds,
             IF k = "restore" THEN PortalReset(p, i) ELSE PortalEdit(p, k, i)
      PROVE  SInv'
  BY <1>2, BeginSInv DEF PortalReset, PortalEdit, Writers
<1>3. ASSUME NEW l \in Locals, NEW i \in Ids, NEW k \in LocalKinds, LocalEdit(l, k, i)
      PROVE  SInv'
  BY <1>3, KindsKnown, BeginSInv DEF LocalEdit, Writers, LocalEdits
<1>4. ASSUME NEW p \in Portals, PortalContinues(p) PROVE SInv'
  BY <1>4, PortalQuiet, QuietSInv, OpenTempSInv, WriteTempSInv, AbandonTempSInv, MoveTempSInv,
     CopySInv DEF Writers
<1>5. ASSUME NEW l \in Locals, LocalContinues(l) PROVE SInv'
  BY <1>5, LocalQuiet, QuietSInv, LocalReplaceSInv DEF Writers
<1>. QED
  BY <1>1, <1>2, <1>3, <1>4, <1>5 DEF Next, Tick, vars, files

LEMMA SpecSInv == Spec => []SInv
<1>. QED
  BY InitTInv, StepTInv, InitSInv, StepSInv, PTL DEF Spec

\* Nobody but a restore under way, or two threads of one temporary file, leaves
\* the live file empty, whatever is renamed, abandoned or failing in between.
THEOREM WholeFile == Spec => []WholeAtRest
<1>1. SInv => WholeAtRest
  BY DEF SInv, EmptyIsOpen, OwnTemp, WholeAtRest, Copying, Spilling
<1>. QED
  BY <1>1, SpecSInv, PTL

\* charon has the secrets of the file when every writer has finished, in
\* whatever order they replaced it and reloaded.
THEOREM LoadedFile == Spec => []LoadedIsLive
<1>1. SInv => LoadedIsLive
  BY DEF SInv, Loads, LoadedIsLive, AllIdle, WillLoad, Copying, Idle
<1>. QED
  BY <1>1, SpecSInv, PTL

\* Without a race the file is the result of all edits, failures included.
THEOREM EditsKept == Spec => []UnracedEditsKept
<1>1. SInv => UnracedEditsKept
  BY DEF SInv, Keeps, UnracedEditsKept, AllIdle, Copying, Idle, Writers
<1>. QED
  BY <1>1, SpecSInv, PTL

\* Between a local's backup and its last check no local moves file or backups.
THEOREM BackupReplaced == Spec => BackupIsReplaced
<1>. DEFINE A == \A l, k \in Locals :
                   l # k /\ proc[l].at \in {"replace", "verify"} /\ proc'[k].at # proc[k].at
                   => UNCHANGED <<live, backup>>
<1>1. TInv /\ [Next]_vars => [A]_vars
  <2>. SUFFICES ASSUME TInv, Next, NEW l \in Locals, NEW k \in Locals, l # k,
                       proc[l].at \in {"replace", "verify"}, proc'[k].at # proc[k].at
                PROVE  UNCHANGED <<live, backup>>
    OBVIOUS
  <2>1. lock = l /\ k \in Writers /\ k \notin Portals /\ l # Nobody
    BY WritersDistinct DEF TInv, Mutex, Writers
  <2>2. ASSUME NEW w \in Writers, NEW k2, NEW i, NEW step, Begin(w, k2, i, step)
        PROVE  UNCHANGED <<live, backup>>
    BY <2>2 DEF Begin, files
  <2>3. ASSUME NEW p \in Portals, PortalContinues(p) PROVE FALSE
    BY <2>3, PortalShape
  <2>4. ASSUME NEW m \in Locals, LocalContinues(m) PROVE UNCHANGED <<live, backup>>
    <3>1. m = k
      BY <2>4, LocalShape
    <3>2. proc[k].at \notin {"replace", "verify"} /\ lock # Nobody
      BY <2>1 DEF TInv, Mutex
    <3>. QED
      BY <2>4, <3>1, <3>2
         DEF LocalContinues, LocalLock, LocalReplace, LocalFails, LocalVerify, Reload,
             LocalReloadFails, files
  <2>. QED
    BY <2>2, <2>3, <2>4 DEF Next, Tick, PortalReset, PortalEdit, LocalEdit, files, Writers
<1>. QED
  BY <1>1, SpecTInv, PTL DEF Spec, BackupIsReplaced
=============================================================================
