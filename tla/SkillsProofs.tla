------------------------------ MODULE SkillsProofs ------------------------------
(* Proofs about the skills: the map in memory is that of the disk when     *)
(* nobody is at work, an install that meets nobody answers with what it    *)
(* installed, and the skill of a chat is a best one in whatever order the  *)
(* map is walked; for any directories, packages, scores and requests.      *)
EXTENDS Skills, WellFoundedInduction, FiniteSetTheorems, TLAPS

Held == {Blank} \cup Packages

Views == [Ids -> {None} \cup [dir : Dirs, from : Held]]

Places ==
  {"idle", "mkdir", "create", "read", "write", "remove", "reload", "scan", "answer", "over"}

Kinds == {"none", "install", "uninstall", "reload"}

SourceStates ==
  {s \in [src : Dirs \cup {None}, package : Held, own : Ids] :
     s.package \in Packages /\ s.package.id # None => s.own = s.package.id}

RequestStates ==
  [kind : Kinds, at : Places, dst : Ids \cup {None}, source : SourceStates \cup {None},
   text : Held \cup {None}, todo : SUBSET DOMAIN Names, loaded : Views, number : Nat,
   alone : BOOLEAN]

Sourced(q) ==
  q.source \in SourceStates /\ q.dst \in Ids
  /\ (q.source.src = None => q.source.package \in Packages)

(* What a request holds at its place. *)
KnowsWhatToDo(q) ==
  /\ q.at \in {"mkdir", "create", "read", "write", "answer"} => q.kind = "install"
  /\ q.kind = "install" => Sourced(q)
  /\ q.at \in {"read", "write"} => q.text \in Held
  /\ q.at = "read" => q.source.src \in Dirs
  /\ q.at = "remove" => q.kind = "uninstall" /\ q.dst \in Dirs
  /\ q.at \in {"mkdir", "create", "read", "write", "remove", "reload"} => q.loaded = NoSkills

SkillsTyped ==
  /\ disk \in [Dirs -> {None, Bare} \cup Held]
  /\ skills \in Views
  /\ req \in [Requests -> RequestStates]
  /\ started \in Nat /\ served \in 0 .. started /\ unseen \in BOOLEAN
  /\ \A r \in Requests : req[r].number \in 0 .. started /\ KnowsWhatToDo(req[r])

Pending(q) == q.at \in {"mkdir", "create", "read", "write", "remove", "reload"}

(* Nobody is between changing the disk and reading it, and nobody failed   *)
(* there since the last scan began.                                        *)
Quiet == ~unseen /\ \A r \in Requests : ~Pending(req[r])

HasRead(q) ==
  /\ \A id \in Ids : q.loaded[id] = LastAmong(PlacesOf(id) \ q.todo)
  /\ \A i \in DOMAIN Names \ q.todo, j \in q.todo : Parsed(disk[Names[i]]) => i < j

ScansInv ==
  Quiet => \A r \in Requests : At(r, "scan") /\ req[r].number = started => HasRead(req[r])

ViewInv == Quiet /\ served = started => skills = OnDisk

AloneInv ==
  \A r, o \in Requests : Active(r) /\ req[r].alone /\ Active(o) => r = o

(* What an install leaves in its directory: what it was given, unless it   *)
(* emptied that itself.                                                    *)
Kept(q) == IF q.source.src = q.dst THEN Blank ELSE q.source.package

Installs(q) ==
  /\ q.at \in {"mkdir", "create"} /\ q.source.src # None => disk[q.source.src] = q.source.package
  /\ q.at \in {"read", "write"} => disk[q.dst] = Blank /\ q.text = Kept(q)
  /\ q.at = "read" => disk[q.source.src] = Kept(q)
  /\ q.at \in {"reload", "scan", "answer"} => disk[q.dst] = Kept(q)
  /\ q.at = "scan" => q.number = started /\ ~unseen
  /\ q.at = "answer" => skills = OnDisk

InstallInv ==
  \A r \in Requests :
    Active(r) /\ req[r].alone /\ req[r].kind = "install" /\ req[r].dst # "" => Installs(req[r])

SkillsInv == SkillsTyped /\ ScansInv /\ ViewInv /\ AloneInv /\ InstallInv

--------------------------------------------------------------------------------
(* The last of a set of places *)

LEMMA LeastBy ==
  ASSUME NEW R, \A k, m \in Nat : k < m => <<k, m>> \in R,
         NEW T \in SUBSET Nat, \E m \in T : \A k \in T : ~(<<k, m>> \in R)
  PROVE  \E m \in T : \A k \in T : m <= k
<1>1. PICK m \in T : \A k \in T : ~(<<k, m>> \in R)
  OBVIOUS
<1>2. \A k \in T : ~(k < m)
  BY <1>1
<1>3. \A k \in T : m <= k
  <2> TAKE k \in T
  <2>1. k \in Nat /\ m \in Nat /\ ~(k < m)
    BY <1>2
  <2>2. QED
    BY <2>1
<1>4. QED
  BY <1>3

LEMMA LeastOf ==
  ASSUME NEW T \in SUBSET Nat, T # {}
  PROVE  \E m \in T : \A k \in T : m <= k
<1>1. \E m \in T : \A k \in T : ~(<<k, m>> \in OpToRel(<, Nat))
  BY WFMin, NatLessThanWellFounded
<1>2. \A k, m \in Nat : k < m => <<k, m>> \in OpToRel(<, Nat)
  BY DEF OpToRel
<1>3. QED
  BY <1>1, <1>2, LeastBy

(* A set of places has a last one. *)
LEMMA LastOf ==
  ASSUME NEW n \in Nat, NEW S \in SUBSET (1 .. n), S # {}
  PROVE  Max(S) \in S
<1> DEFINE T == {k \in Nat : \A y \in S : y <= k}
<1>1. T \in SUBSET Nat /\ n \in T
  OBVIOUS
<1>2. PICK m \in T : \A k \in T : m <= k
  <2> HIDE DEF T
  <2>1. QED
    BY <1>1, LeastOf
<1>3. m \in Nat /\ \A y \in S : y <= m
  OBVIOUS
<1>4. m \in S
  <2> SUFFICES ASSUME m \notin S PROVE FALSE
    OBVIOUS
  <2>1. PICK y \in S : y \in 1 .. n /\ y <= m
    BY <1>3
  <2>2. m - 1 \in Nat
    BY <1>3, <2>1
  <2>3. \A z \in S : z <= m - 1
    BY <1>3
  <2>4. m - 1 \in T
    BY <2>2, <2>3
  <2>5. m <= m - 1
    BY <1>2, <2>4
  <2>6. QED
    BY <1>3, <2>5
<1>5. \A y \in S : m >= y
  BY <1>3
<1>6. QED
  BY <1>4, <1>5 DEF Max
  
LEMMA LastIs ==
  ASSUME NEW S \in SUBSET Nat, NEW i \in S, \A y \in S : y <= i
  PROVE  Max(S) = i
<1>1. \A y \in S : i >= y
  OBVIOUS
<1>2. Max(S) \in S /\ \A y \in S : Max(S) >= y
  BY <1>1 DEF Max
<1>3. Max(S) \in Nat /\ i \in Nat /\ Max(S) >= i /\ Max(S) <= i
  BY <1>2
<1>4. QED
  BY <1>3

--------------------------------------------------------------------------------
(* What a request holds, and what a step of one leaves *)

USE DEF At, Active

LEMMA RequestTypes ==
  ASSUME SkillsInv, NEW r \in Requests
  PROVE  /\ req[r] \in RequestStates /\ KnowsWhatToDo(req[r]) /\ req[r].number \in 0 .. started
         /\ req[r].at \in Places /\ req[r].dst \in Ids \cup {None}
         /\ req[r].source \in SourceStates \cup {None} /\ req[r].text \in Held \cup {None}
         /\ req[r].todo \in SUBSET DOMAIN Names
         /\ req[r].loaded \in Views /\ req[r].number \in Nat /\ req[r].alone \in BOOLEAN
BY DEF SkillsInv, SkillsTyped, RequestStates

LEMMA RequestBecomes ==
  ASSUME SkillsInv, NEW r \in Requests, NEW local \in RequestStates, Becomes(r, local)
  PROVE  /\ req' \in [Requests -> RequestStates] /\ req'[r] = local
         /\ \A o \in Requests : o # r => req'[o] = req[o]
BY DEF SkillsInv, SkillsTyped, Becomes

LEMMA LocalMoves ==
  ASSUME NEW q \in RequestStates, NEW where \in Places
  PROVE  LET local == [q EXCEPT !.at = where]
         IN  /\ local \in RequestStates /\ local.at = where /\ local.kind = q.kind
             /\ local.dst = q.dst /\ local.source = q.source /\ local.text = q.text
             /\ local.todo = q.todo /\ local.loaded = q.loaded /\ local.number = q.number
             /\ local.alone = q.alone
BY DEF RequestStates

LEMMA MovesTo ==
  ASSUME NEW r, req[r] \in RequestStates, NEW where \in Places, Moves(r, where)
  PROVE  \E local \in RequestStates :
           /\ Becomes(r, local) /\ local.at = where /\ local.kind = req[r].kind
           /\ local.dst = req[r].dst /\ local.source = req[r].source /\ local.text = req[r].text
           /\ local.todo = req[r].todo /\ local.loaded = req[r].loaded
           /\ local.number = req[r].number /\ local.alone = req[r].alone
BY LocalMoves, ZenonT(40) DEF Moves

Texts(r, where, text) == Becomes(r, [req[r] EXCEPT !.at = where, !.text = text])

LEMMA TextsTo ==
  ASSUME NEW r, req[r] \in RequestStates, NEW where \in Places, NEW text \in Held \cup {None},
         Texts(r, where, text)
  PROVE  \E local \in RequestStates :
           /\ Becomes(r, local) /\ local.at = where /\ local.kind = req[r].kind
           /\ local.dst = req[r].dst /\ local.source = req[r].source /\ local.text = text
           /\ local.loaded = req[r].loaded /\ local.number = req[r].number
           /\ local.alone = req[r].alone
<1> DEFINE local == [req[r] EXCEPT !.at = where, !.text = text]
<1>1. /\ local \in RequestStates /\ local.at = where /\ local.kind = req[r].kind
      /\ local.dst = req[r].dst /\ local.source = req[r].source /\ local.text = text
      /\ local.loaded = req[r].loaded /\ local.number = req[r].number
      /\ local.alone = req[r].alone
  BY DEF RequestStates
<1> HIDE DEF local
<1>2. Becomes(r, local)
  BY DEF local, Texts
<1>3. QED
  BY <1>1, <1>2

LEMMA NoSkillsTyped == NoSkills \in Views
BY DEF NoSkills, Views

LEMMA LocalEnds ==
  LET local == [Idle EXCEPT !.at = "over"]
  IN  /\ local \in RequestStates /\ local.at = "over" /\ local.number = 0
      /\ local.kind = "none" /\ KnowsWhatToDo(local)
<1> DEFINE local == [Idle EXCEPT !.at = "over"]
           v == NoSkills
<1>1. v \in Views
  BY NoSkillsTyped
<1> HIDE DEF v
<1>2. Idle = [kind |-> "none", at |-> "idle", dst |-> None, source |-> None,
              text |-> None, todo |-> {}, loaded |-> v, number |-> 0, alone |-> TRUE]
  BY DEF Idle, v
<1>3. /\ local \in RequestStates /\ local.at = "over" /\ local.number = 0 /\ local.kind = "none"
  BY <1>1, <1>2 DEF RequestStates, Kinds, Places
<1> HIDE DEF local
<1>4. KnowsWhatToDo(local)
  BY <1>3 DEF KnowsWhatToDo
<1>5. QED
  BY <1>3, <1>4 DEF local

(* While the disk stays, so does what a scan has to show for it.           *)
LEMMA DiskStays ==
  ASSUME UNCHANGED disk, NEW q
  PROVE  HasRead(q)' = HasRead(q) /\ OnDisk' = OnDisk
<1>1. \A id : PlacesOf(id)' = PlacesOf(id)
  BY DEF PlacesOf
<1>2. \A places : LastAmong(places)' = LastAmong(places)
  BY DEF LastAmong
<1>3. QED
  BY <1>1, <1>2 DEF HasRead, OnDisk, PlacesOf, LastAmong

(* What an install that meets nobody has to show after a step.             *)
ShowsThen(q) ==
  q.at # "over" /\ q.alone /\ q.kind = "install" /\ q.dst # "" =>
    /\ q.at \in {"mkdir", "create"} /\ q.source.src # None =>
         disk'[q.source.src] = q.source.package
    /\ q.at \in {"read", "write"} => disk'[q.dst] = Blank /\ q.text = Kept(q)
    /\ q.at = "read" => disk'[q.source.src] = Kept(q)
    /\ q.at \in {"reload", "scan", "answer"} => disk'[q.dst] = Kept(q)
    /\ q.at = "scan" => q.number = started' /\ ~unseen'
    /\ q.at = "answer" => skills' = OnDisk'

(* Nobody is alone but who is the only one at work.                        *)
LEMMA AloneMoves ==
  ASSUME SkillsInv, NEW r \in Requests, Active(r), NEW local \in RequestStates, Becomes(r, local),
         local.at # "over" => local.alone = req[r].alone, ShowsThen(local)
  PROVE  AloneInv' /\ InstallInv'
<1>1. req'[r] = local /\ \A o \in Requests : o # r => req'[o] = req[o]
  BY RequestBecomes
<1>2. AloneInv'
  BY <1>1 DEF SkillsInv, AloneInv
<1>3. ASSUME NEW o \in Requests, Active(o)', req'[o].alone, req'[o].kind = "install", req'[o].dst # ""
      PROVE  o = r
  BY <1>1, <1>3 DEF SkillsInv, AloneInv
<1>4. ASSUME NEW o \in Requests, Active(o)', req'[o].alone, req'[o].kind = "install", req'[o].dst # ""
      PROVE  Installs(req[o])'
  <2>1. o = r /\ req'[o] = local
    BY <1>1, <1>3, <1>4
  <2>2. QED
    BY <1>4, <2>1 DEF Installs, Kept, ShowsThen
<1>5. QED
  BY <1>2, <1>4 DEF InstallInv

(* A step on the files, after which a scan is still to come.               *)
LEMMA FileStep ==
  ASSUME SkillsInv, NEW r \in Requests, Pending(req[r]), NEW local \in RequestStates,
         Becomes(r, local), UNCHANGED <<skills, started, served, unseen>>,
         disk' \in [Dirs -> {None, Bare} \cup Held],
         KnowsWhatToDo(local), Pending(local), local.number = req[r].number,
         local.alone = req[r].alone, ShowsThen(local)
  PROVE  SkillsInv'
<1>1. req[r].number \in 0 .. started
  BY RequestTypes
<1>2. req' \in [Requests -> RequestStates] /\ req'[r] = local
      /\ \A o \in Requests : o # r => req'[o] = req[o]
  BY RequestBecomes
<1>3. SkillsTyped'
  <2>1. \A o \in Requests : req'[o].number \in 0 .. started' /\ KnowsWhatToDo(req'[o])
    BY <1>1, <1>2, RequestTypes
  <2>2. QED
    BY <1>2, <2>1 DEF SkillsInv, SkillsTyped
<1>4. ~Quiet'
  BY <1>2 DEF Quiet
<1>5. Active(r)
  BY DEF Pending
<1>6. AloneInv' /\ InstallInv'
  BY <1>5, AloneMoves
<1>7. QED
  BY <1>3, <1>4, <1>6 DEF SkillsInv, ScansInv, ViewInv

LEMMA HeldParses ==
  \A c \in {None, Bare} \cup Held : Parsed(c) <=> c \in Held
BY SkillsAssumption DEF Parsed, Held

LEMMA IntoIs ==
  ASSUME SkillsInv, NEW r \in Requests, req[r].kind = "install"
  PROVE  /\ Into(r) = req[r].dst /\ From(r) = req[r].source.src /\ Sourced(req[r])
         /\ Into(r) \in Dirs \/ Into(r) = ""
         /\ From(r) \in Dirs \cup {None} /\ req[r].source.package \in Held
         /\ From(r) = None => req[r].source.package \in Packages
         /\ "" \notin Dirs /\ None \notin Dirs
BY RequestTypes, SkillsAssumption DEF Into, From, KnowsWhatToDo, Sourced, SourceStates, Ids

LEMMA DiskTyped ==
  ASSUME SkillsInv
  PROVE  disk \in [Dirs -> {None, Bare} \cup Held]
BY DEF SkillsInv, SkillsTyped

(* What an install that meets nobody knows of the disk.                    *)
LEMMA InstallShows ==
  ASSUME SkillsInv, NEW r \in Requests, Active(r), req[r].alone, req[r].kind = "install",
         req[r].dst # ""
  PROVE  Installs(req[r])
BY DEF SkillsInv, InstallInv

LEMMA MakeDirStep ==
  ASSUME SkillsInv, NEW r \in Requests, MakeDir(r)
  PROVE  SkillsInv'
<1>1. /\ Pending(req[r]) /\ req[r].kind = "install" /\ req[r].loaded = NoSkills
      /\ req[r] \in RequestStates /\ req[r].at = "mkdir" /\ Active(r)
  BY RequestTypes DEF MakeDir, Pending, KnowsWhatToDo
<1>2. disk' \in [Dirs -> {None, Bare} \cup Held]
  BY DiskTyped DEF MakeDir
<1>3. "create" \in Places /\ Moves(r, "create") /\ UNCHANGED <<skills, started, served, unseen>>
  BY DEF MakeDir, Places
<1>4. PICK local \in RequestStates :
        /\ Becomes(r, local) /\ local.at = "create" /\ local.kind = req[r].kind
        /\ local.dst = req[r].dst /\ local.source = req[r].source
        /\ local.loaded = req[r].loaded /\ local.number = req[r].number
        /\ local.alone = req[r].alone
  BY <1>1, <1>3, MovesTo, ZenonT(40)
<1>5. KnowsWhatToDo(local) /\ Pending(local)
  BY <1>1, <1>4, IntoIs DEF KnowsWhatToDo, Sourced, Pending
<1>6. ShowsThen(local)
  <2> SUFFICES ASSUME local.alone, local.dst # "", local.source.src # None
               PROVE  disk'[local.source.src] = local.source.package
    BY <1>4 DEF ShowsThen
  <2>1. disk[From(r)] = req[r].source.package /\ From(r) \in Dirs /\ req[r].source.package \in Held
    BY <1>1, <1>4, IntoIs, InstallShows DEF Installs
  <2>2. disk[From(r)] # None
    BY <2>1, HeldParses DEF Parsed
  <2>3. disk'[From(r)] = disk[From(r)]
    BY <2>1, <2>2, DiskTyped DEF MakeDir
  <2>4. QED
    BY <1>1, <1>4, <2>1, <2>3, IntoIs
<1>7. QED
  BY <1>1, <1>2, <1>3, <1>4, <1>5, <1>6, FileStep

LEMMA EmptiedIs ==
  ASSUME SkillsInv, NEW d
  PROVE  /\ Emptied(d) \in [Dirs -> {None, Bare} \cup Held]
         /\ d \in Dirs => Emptied(d)[d] = Blank
         /\ \A e \in Dirs : e # d => Emptied(d)[e] = disk[e]
BY DiskTyped DEF Emptied, Held

LEMMA CreateFileStep ==
  ASSUME SkillsInv, NEW r \in Requests, CreateFile(r)
  PROVE  SkillsInv'
<1> DEFINE file == IF From(r) = None THEN req[r].source.package ELSE disk[From(r)]
           where == IF From(r) = None THEN "write" ELSE "read"
           text == IF From(r) = Into(r) THEN Blank ELSE file
<1>1. /\ Pending(req[r]) /\ req[r].kind = "install" /\ req[r].loaded = NoSkills
      /\ req[r] \in RequestStates /\ req[r].at = "create" /\ Active(r)
      /\ UNCHANGED <<skills, started, served, unseen>>
  BY RequestTypes DEF CreateFile, Pending, KnowsWhatToDo
<1>2. /\ From(r) = req[r].source.src /\ Into(r) = req[r].dst /\ Sourced(req[r])
      /\ From(r) \in Dirs \cup {None} /\ (Into(r) \in Dirs \/ Into(r) = "")
      /\ req[r].source.package \in Held
  BY <1>1, IntoIs
<1>3. ASSUME req[r].alone, req[r].dst # ""
      PROVE  file = req[r].source.package
  BY <1>1, <1>2, <1>3, InstallShows DEF Installs
<1>4. CASE Parsed(file)
  <2>1. file \in Held /\ text \in Held
    BY <1>2, <1>4, DiskTyped, HeldParses DEF Held
  <2>2. disk' = Emptied(Into(r)) /\ Texts(r, where, text)
    BY <1>4 DEF CreateFile, Texts
  <2>3. where \in Places /\ where \in {"read", "write"} /\ (where = "read" => From(r) \in Dirs)
    BY <1>2 DEF Places
  <2>4. text = Kept(req[r]) \/ ~(req[r].alone /\ req[r].dst # "")
    BY <1>2, <1>3 DEF Kept
  <2>5. where = "read" /\ req[r].alone /\ req[r].dst # "" => disk'[From(r)] = Kept(req[r])
    BY <1>2, <1>3, <2>2, <2>3, EmptiedIs DEF Kept
  <2>10. text \in Held \cup {None}
    BY <2>1
  <2> HIDE DEF file, where, text
  <2>6. PICK local \in RequestStates :
          /\ Becomes(r, local) /\ local.at = where /\ local.kind = req[r].kind
          /\ local.dst = req[r].dst /\ local.source = req[r].source /\ local.text = text
          /\ local.loaded = req[r].loaded /\ local.number = req[r].number
          /\ local.alone = req[r].alone
    BY <1>1, <2>2, <2>3, <2>10, TextsTo
  <2>7. KnowsWhatToDo(local) /\ Pending(local)
    BY <1>1, <1>2, <2>1, <2>3, <2>6 DEF KnowsWhatToDo, Sourced, Pending
  <2>8. ShowsThen(local)
    <3> SUFFICES ASSUME local.alone, local.dst # ""
                 PROVE  /\ disk'[local.dst] = Blank /\ local.text = Kept(local)
                        /\ local.at = "read" => disk'[local.source.src] = Kept(local)
      BY <2>3, <2>6 DEF ShowsThen
    <3>1. Kept(local) = Kept(req[r])
      BY <2>6 DEF Kept
    <3>2. local.dst = req[r].dst /\ req[r].dst # "" /\ req[r].alone
      BY <2>6
    <3>3. disk'[local.dst] = Blank
      BY <1>2, <2>2, <3>2, EmptiedIs
    <3>4. local.text = Kept(local)
      BY <2>4, <2>6, <3>1, <3>2
    <3>5. local.at = "read" => disk'[local.source.src] = Kept(local)
      BY <1>2, <2>5, <2>6, <3>1, <3>2
    <3>6. QED
      BY <3>3, <3>4, <3>5
  <2>9. QED
    BY <1>1, <2>2, <2>6, <2>7, <2>8, EmptiedIs, FileStep
<1>5. CASE ~Parsed(file)
  <2>1. Moves(r, "reload") /\ disk' = disk /\ "reload" \in Places
    BY <1>5 DEF CreateFile, Places
  <2>2. ~(req[r].alone /\ req[r].dst # "")
    BY <1>2, <1>3, <1>5, HeldParses
  <2>3. PICK local \in RequestStates :
          /\ Becomes(r, local) /\ local.at = "reload" /\ local.kind = req[r].kind
          /\ local.dst = req[r].dst /\ local.source = req[r].source
          /\ local.loaded = req[r].loaded /\ local.number = req[r].number
          /\ local.alone = req[r].alone
    BY <1>1, <2>1, MovesTo, ZenonT(40)
  <2>4. KnowsWhatToDo(local) /\ Pending(local)
    BY <1>1, <1>2, <2>3 DEF KnowsWhatToDo, Sourced, Pending
  <2>5. ShowsThen(local)
    BY <2>2, <2>3 DEF ShowsThen
  <2>6. QED
    BY <1>1, <2>1, <2>3, <2>4, <2>5, DiskTyped, FileStep
<1>6. QED
  BY <1>4, <1>5

LEMMA ReadFileStep ==
  ASSUME SkillsInv, NEW r \in Requests, ReadFile(r)
  PROVE  SkillsInv'
<1>1. /\ Pending(req[r]) /\ req[r].kind = "install" /\ req[r].loaded = NoSkills
      /\ req[r] \in RequestStates /\ req[r].at = "read" /\ Active(r)
      /\ req[r].text \in Held /\ req[r].source.src \in Dirs
      /\ UNCHANGED <<disk, skills, started, served, unseen>>
  BY RequestTypes DEF ReadFile, Pending, KnowsWhatToDo
<1>2. PICK text \in {req[r].text} \cup {c \in {disk[From(r)]} : Parsed(c)} :
        Texts(r, "write", text)
  BY DEF ReadFile, Texts
<1>3. From(r) = req[r].source.src /\ Sourced(req[r]) /\ Into(r) = req[r].dst
  BY <1>1, IntoIs
<1>4. text \in Held /\ "write" \in Places
  BY <1>1, <1>2, <1>3, DiskTyped, HeldParses DEF Places
<1>8. text \in Held \cup {None} /\ "write" \in Places
  BY <1>4
<1>5. PICK local \in RequestStates :
        /\ Becomes(r, local) /\ local.at = "write" /\ local.kind = req[r].kind
        /\ local.dst = req[r].dst /\ local.source = req[r].source /\ local.text = text
        /\ local.loaded = req[r].loaded /\ local.number = req[r].number
        /\ local.alone = req[r].alone
  BY <1>1, <1>2, <1>8, TextsTo
<1>6. KnowsWhatToDo(local) /\ Pending(local)
  BY <1>1, <1>3, <1>4, <1>5 DEF KnowsWhatToDo, Sourced, Pending
<1>7. ShowsThen(local)
  <2> SUFFICES ASSUME local.alone, local.dst # ""
               PROVE  disk[local.dst] = Blank /\ local.text = Kept(local)
    BY <1>1, <1>5 DEF ShowsThen
  <2>1. Installs(req[r])
    BY <1>1, <1>5, InstallShows
  <2>2. Kept(local) = Kept(req[r])
    BY <1>5 DEF Kept
  <2>3. QED
    BY <1>1, <1>2, <1>3, <1>5, <2>1, <2>2 DEF Installs
<1>9. disk' \in [Dirs -> {None, Bare} \cup Held]
  BY <1>1, DiskTyped
<1>10. QED
  BY <1>1, <1>5, <1>6, <1>7, <1>9, FileStep

LEMMA WriteFileStep ==
  ASSUME SkillsInv, NEW r \in Requests, WriteFile(r)
  PROVE  SkillsInv'
<1>1. /\ Pending(req[r]) /\ req[r].kind = "install" /\ req[r].loaded = NoSkills
      /\ req[r] \in RequestStates /\ req[r].at = "write" /\ Active(r) /\ req[r].text \in Held
      /\ UNCHANGED <<skills, started, served, unseen>>
  BY RequestTypes DEF WriteFile, Pending, KnowsWhatToDo
<1>2. disk' \in [Dirs -> {None, Bare} \cup Held]
  BY <1>1, DiskTyped DEF WriteFile
<1>3. /\ Texts(r, "reload", None) /\ "reload" \in Places
      /\ None \in Held \cup {None}
  BY DEF WriteFile, Texts, Places
<1>4. Sourced(req[r]) /\ Into(r) = req[r].dst /\ (Into(r) \in Dirs \/ Into(r) = "")
  BY <1>1, IntoIs
<1>5. PICK local \in RequestStates :
        /\ Becomes(r, local) /\ local.at = "reload" /\ local.kind = req[r].kind
        /\ local.dst = req[r].dst /\ local.source = req[r].source
        /\ local.loaded = req[r].loaded /\ local.number = req[r].number
        /\ local.alone = req[r].alone
  BY <1>1, <1>3, TextsTo
<1>6. KnowsWhatToDo(local) /\ Pending(local)
  BY <1>1, <1>4, <1>5 DEF KnowsWhatToDo, Sourced, Pending
<1>7. ShowsThen(local)
  <2> SUFFICES ASSUME local.alone, local.dst # "" PROVE disk'[local.dst] = Kept(local)
    BY <1>5 DEF ShowsThen
  <2>1. disk[Into(r)] = Blank /\ req[r].text = Kept(req[r]) /\ Into(r) \in Dirs
    BY <1>1, <1>4, <1>5, InstallShows DEF Installs
  <2>2. Parsed(disk[Into(r)])
    BY <2>1, HeldParses DEF Held
  <2>3. disk'[Into(r)] = req[r].text
    BY <2>1, <2>2, DiskTyped DEF WriteFile
  <2>4. QED
    BY <1>4, <1>5, <2>1, <2>3 DEF Kept
<1>8. QED
  BY <1>1, <1>2, <1>5, <1>6, <1>7, FileStep

LEMMA RemoveDirStep ==
  ASSUME SkillsInv, NEW r \in Requests, RemoveDir(r)
  PROVE  SkillsInv'
<1> DEFINE where == IF Parsed(disk[Into(r)]) THEN "remove" ELSE "reload"
<1>1. /\ Pending(req[r]) /\ req[r].dst \in Dirs /\ req[r].kind = "uninstall"
      /\ req[r].loaded = NoSkills /\ req[r] \in RequestStates
  BY RequestTypes DEF RemoveDir, Pending, KnowsWhatToDo
<1>2. disk' \in [Dirs -> {None, Bare} \cup Held]
  BY DiskTyped DEF RemoveDir
<1>3. where \in Places /\ Moves(r, where) /\ UNCHANGED <<skills, started, served, unseen>>
      /\ where \in {"remove", "reload"}
  BY DEF RemoveDir, Places
<1> HIDE DEF where
<1>4. PICK local \in RequestStates :
        /\ Becomes(r, local) /\ local.at = where /\ local.kind = req[r].kind
        /\ local.dst = req[r].dst /\ local.loaded = req[r].loaded
        /\ local.number = req[r].number /\ local.alone = req[r].alone
  BY <1>1, <1>3, MovesTo, ZenonT(40)
<1>5. KnowsWhatToDo(local) /\ Pending(local)
  BY <1>1, <1>3, <1>4 DEF KnowsWhatToDo, Pending
<1>6. ShowsThen(local)
  BY <1>1, <1>4 DEF ShowsThen
<1>7. QED
  BY <1>1, <1>2, <1>3, <1>4, <1>5, <1>6, FileStep

(* A step of one request that leaves the disk: what it has to show.        *)
LEMMA DiskKeptStep ==
  ASSUME SkillsInv, NEW r \in Requests, Active(r), NEW local \in RequestStates, Becomes(r, local),
         KnowsWhatToDo(local), local.number \in 0 .. started',
         UNCHANGED disk, skills' \in Views, started' \in {started, started + 1},
         served' \in 0 .. started', unseen' \in BOOLEAN,
         Quiet' => HasRead(local) \/ local.at # "scan" \/ local.number # started',
         Quiet' => started' > started \/ Quiet,
         Quiet' /\ served' = started' => skills' = OnDisk,
         local.at # "over" => local.alone = req[r].alone, ShowsThen(local)
  PROVE  SkillsInv'
<1>1. req' \in [Requests -> RequestStates] /\ req'[r] = local
      /\ \A o \in Requests : o # r => req'[o] = req[o]
  BY RequestBecomes
<1>2. started \in Nat
  BY DEF SkillsInv, SkillsTyped
<1>3. SkillsTyped'
  <2>1. started' \in Nat /\ started <= started'
    BY <1>2
  <2>2. \A o \in Requests : req'[o].number \in 0 .. started' /\ KnowsWhatToDo(req'[o])
    <3> SUFFICES ASSUME NEW o \in Requests
                 PROVE  req'[o].number \in 0 .. started' /\ KnowsWhatToDo(req'[o])
      OBVIOUS
    <3>1. CASE o = r
      BY <1>1, <3>1
    <3>2. CASE o # r
      <4>1. req'[o] = req[o] /\ req[o].number \in 0 .. started /\ KnowsWhatToDo(req[o])
        BY <1>1, <3>2, RequestTypes
      <4>2. req[o].number \in 0 .. started'
        BY <1>2, <2>1, <4>1
      <4>3. QED
        BY <4>1, <4>2
    <3>3. QED
      BY <3>1, <3>2
  <2>4. disk' \in [Dirs -> {None, Bare} \cup Held]
    BY DiskTyped
  <2>3. QED
    BY <1>1, <2>1, <2>2, <2>4 DEF SkillsTyped
<1>4. ScansInv'
  <2> SUFFICES ASSUME Quiet', NEW o \in Requests, req'[o].at = "scan", req'[o].number = started'
               PROVE  HasRead(req[o])'
    BY DEF ScansInv
  <2>1. CASE o = r
    <3>1. HasRead(local)
      BY <1>1, <2>1
    <3>2. HasRead(req'[o])
      BY <1>1, <2>1, <3>1
    <3>3. QED
      BY <3>2 DEF HasRead, PlacesOf, LastAmong, Parsed
  <2>2. CASE o # r
    <3>1. req'[o] = req[o] /\ req[o].number \in 0 .. started
      BY <1>1, <2>2, RequestTypes
    <3>2. req[o].number = started' /\ ~(started' > started)
      BY <1>2, <3>1
    <3>4. started' = started /\ Quiet
      BY <1>2, <3>2
    <3>3. HasRead(req'[o])
      BY <3>1, <3>4 DEF SkillsInv, ScansInv
    <3>5. QED
      BY <3>3 DEF HasRead, PlacesOf, LastAmong, Parsed
  <2>3. QED
    BY <2>1, <2>2
<1>5. OnDisk' = OnDisk
  BY DiskStays
<1>6. ViewInv'
  BY <1>5 DEF ViewInv
<1>7. AloneInv' /\ InstallInv'
  BY AloneMoves
<1>8. QED
  BY <1>3, <1>4, <1>6, <1>7 DEF SkillsInv

LEMMA EndsStep ==
  ASSUME SkillsInv, NEW r \in Requests, Active(r), Ends(r), UNCHANGED <<disk, skills, started, served>>,
         \/ unseen' = TRUE
         \/ unseen' = unseen /\ ~Pending(req[r])
  PROVE  SkillsInv'
<1> DEFINE local == [Idle EXCEPT !.at = "over"]
<1>1. /\ local \in RequestStates /\ local.at = "over" /\ local.number = 0
      /\ KnowsWhatToDo(local) /\ Becomes(r, local)
  BY LocalEnds DEF Ends
<1> HIDE DEF local
<1>2. req'[r] = local /\ \A o \in Requests : o # r => req'[o] = req[o]
  BY <1>1, RequestBecomes
<1>3. Quiet' => Quiet
  BY <1>2 DEF Quiet
<1>4. /\ skills' \in Views /\ started' = started /\ started \in Nat
      /\ served' \in 0 .. started' /\ unseen' \in BOOLEAN
  BY DEF SkillsInv, SkillsTyped
<1>5. Quiet' /\ served' = started' => skills' = OnDisk
  BY <1>3 DEF SkillsInv, ViewInv
<1>6. local.number \in 0 .. started' /\ UNCHANGED disk
  BY <1>1, <1>4
<1>7. ShowsThen(local)
  BY <1>1 DEF ShowsThen
<1>8. QED
  BY <1>1, <1>3, <1>4, <1>5, <1>6, <1>7, DiskKeptStep

LEMMA AnswerStep ==
  ASSUME SkillsInv, NEW r \in Requests, Answer(r)
  PROVE  SkillsInv'
BY EndsStep DEF Answer, Pending

LEMMA FailStep ==
  ASSUME SkillsInv, NEW r \in Requests, Fail(r)
  PROVE  SkillsInv'
BY EndsStep DEF Fail

--------------------------------------------------------------------------------
(* A request begins *)

Others(r) == {o \in Requests \ {r} : Active(o)}

LEMMA LocalAlone ==
  ASSUME NEW q \in RequestStates, NEW b \in BOOLEAN
  PROVE  LET local == [q EXCEPT !.alone = b]
         IN  /\ local \in RequestStates /\ local.at = q.at /\ local.kind = q.kind
             /\ local.dst = q.dst /\ local.source = q.source /\ local.text = q.text
             /\ local.todo = q.todo /\ local.loaded = q.loaded /\ local.number = q.number
             /\ local.alone = b
BY DEF RequestStates

(* It changes no request but in who is alone.                              *)
LEMMA BeginsIs ==
  ASSUME SkillsInv, NEW r \in Requests, NEW local \in RequestStates, Begins(r, local)
  PROVE  /\ req' \in [Requests -> RequestStates]
         /\ \A o \in Requests :
              LET q == IF o = r THEN local ELSE req[o]
              IN  /\ req'[o].at = q.at /\ req'[o].kind = q.kind /\ req'[o].dst = q.dst
                  /\ req'[o].source = q.source /\ req'[o].text = q.text /\ req'[o].todo = q.todo
                  /\ req'[o].loaded = q.loaded /\ req'[o].number = q.number
         /\ req'[r].alone => Others(r) = {}
         /\ \A o \in Others(r) : req'[o].alone = FALSE
         /\ UNCHANGED <<disk, skills, started, served, unseen>>
<1> DEFINE others == Others(r)
           lone == others = {}
<1>1. /\ req' = [o \in Requests |->
            IF o = r THEN [local EXCEPT !.alone = lone]
            ELSE IF o \in others THEN [req[o] EXCEPT !.alone = FALSE] ELSE req[o]]
      /\ UNCHANGED <<disk, skills, started, served, unseen>>
  BY DEF Begins, Others
<1>2. lone \in BOOLEAN /\ (lone <=> Others(r) = {})
  OBVIOUS
<1>3. /\ req'[r] \in RequestStates /\ req'[r].at = local.at /\ req'[r].kind = local.kind
      /\ req'[r].dst = local.dst /\ req'[r].source = local.source /\ req'[r].text = local.text
      /\ req'[r].todo = local.todo /\ req'[r].loaded = local.loaded
      /\ req'[r].number = local.number /\ req'[r].alone = lone
  <2> HIDE DEF lone
  <2>1. req'[r] = [local EXCEPT !.alone = lone]
    BY <1>1
  <2>2. QED
    BY <1>2, <2>1, LocalAlone
<1>4. ASSUME NEW o \in Requests, o # r
      PROVE  /\ req'[o] \in RequestStates /\ req'[o].at = req[o].at /\ req'[o].kind = req[o].kind
             /\ req'[o].dst = req[o].dst /\ req'[o].source = req[o].source
             /\ req'[o].text = req[o].text /\ req'[o].todo = req[o].todo /\ req'[o].loaded = req[o].loaded
             /\ req'[o].number = req[o].number
             /\ o \in others => req'[o].alone = FALSE
  <2> HIDE DEF others, lone
  <2>1. req[o] \in RequestStates
    BY RequestTypes
  <2>2. CASE o \in others
    <3>1. req'[o] = [req[o] EXCEPT !.alone = FALSE]
      BY <1>1, <1>4, <2>2
    <3>2. QED
      BY <2>1, <2>2, <3>1 DEF RequestStates
  <2>3. CASE o \notin others
    <3>1. req'[o] = req[o]
      BY <1>1, <1>4, <2>3
    <3>2. QED
      BY <2>1, <2>3, <3>1
  <2>4. QED
    BY <2>2, <2>3
<1>5. req' \in [Requests -> RequestStates]
  <2> HIDE DEF others, lone
  <2>1. \A o \in Requests : req'[o] \in RequestStates
    BY <1>3, <1>4
  <2>2. DOMAIN req' = Requests /\ req' = [o \in Requests |-> req'[o]]
    BY <1>1
  <2>3. QED
    BY <2>1, <2>2
<1>6. \A o \in Requests : o # r =>
         /\ req'[o].at = req[o].at /\ req'[o].kind = req[o].kind
         /\ req'[o].dst = req[o].dst /\ req'[o].source = req[o].source /\ req'[o].text = req[o].text
         /\ req'[o].todo = req[o].todo /\ req'[o].loaded = req[o].loaded
         /\ req'[o].number = req[o].number
  BY <1>4
<1>7. \A o \in Others(r) : req'[o].alone = FALSE
  BY <1>4 DEF Others
<1>8. req'[r].alone => Others(r) = {}
  BY <1>3
<1>9. QED
  BY <1>1, <1>3, <1>5, <1>6, <1>7, <1>8

LEMMA BeginsStep ==
  ASSUME SkillsInv, NEW r \in Requests, ~Active(r), NEW local \in RequestStates, Begins(r, local),
         KnowsWhatToDo(local), local.number = 0, local.at \notin {"scan", "answer"},
         local.kind = "install" => Installs(local)
  PROVE  SkillsInv'
<1>1. /\ req' \in [Requests -> RequestStates]
      /\ UNCHANGED <<disk, skills, started, served, unseen>>
      /\ req'[r].alone => Others(r) = {}
      /\ \A o \in Others(r) : req'[o].alone = FALSE
  BY BeginsIs
<1>2. /\ req'[r].at = local.at /\ req'[r].kind = local.kind /\ req'[r].dst = local.dst
      /\ req'[r].source = local.source /\ req'[r].text = local.text /\ req'[r].loaded = local.loaded
      /\ req'[r].number = local.number
  BY BeginsIs
<1>3. ASSUME NEW o \in Requests, o # r
      PROVE  /\ req'[o].at = req[o].at /\ req'[o].kind = req[o].kind /\ req'[o].dst = req[o].dst
             /\ req'[o].source = req[o].source /\ req'[o].text = req[o].text
             /\ req'[o].todo = req[o].todo
             /\ req'[o].loaded = req[o].loaded /\ req'[o].number = req[o].number
  BY <1>3, BeginsIs, ZenonT(40)
<1>4. started \in Nat
  BY DEF SkillsInv, SkillsTyped
<1>5. SkillsTyped'
  <2>1. ASSUME NEW o \in Requests
        PROVE  req'[o].number \in 0 .. started' /\ KnowsWhatToDo(req'[o])
    <3>1. CASE o = r
      BY <1>1, <1>2, <1>4, <3>1 DEF KnowsWhatToDo, Sourced
    <3>2. CASE o # r
      BY <1>1, <1>3, <3>2, RequestTypes DEF KnowsWhatToDo, Sourced
    <3>3. QED
      BY <3>1, <3>2
  <2>2. QED
    BY <1>1, <2>1 DEF SkillsInv, SkillsTyped
<1>6. Quiet' => Quiet
  <2> SUFFICES ASSUME Quiet' PROVE Quiet
    OBVIOUS
  <2>1. ASSUME NEW o \in Requests PROVE ~Pending(req[o])
    <3>1. CASE o = r
      BY <3>1 DEF Pending
    <3>2. CASE o # r
      BY <1>3, <3>2 DEF Pending, Quiet
    <3>3. QED
      BY <3>1, <3>2
  <2>2. QED
    BY <1>1, <2>1 DEF Quiet
<1>7. ScansInv'
  <2> SUFFICES ASSUME Quiet', NEW o \in Requests, req'[o].at = "scan", req'[o].number = started'
               PROVE  HasRead(req[o])'
    BY DEF ScansInv
  <2>1. o # r
    BY <1>2
  <2>2. HasRead(req[o])
    BY <1>1, <1>3, <1>6, <2>1 DEF SkillsInv, ScansInv
  <2>3. req'[o].loaded = req[o].loaded /\ req'[o].todo = req[o].todo /\ disk' = disk
    BY <1>1, <1>3, <2>1
  <2>4. QED
    BY <2>2, <2>3 DEF HasRead, PlacesOf, LastAmong, Parsed
<1>8. ViewInv'
  <2>1. OnDisk' = OnDisk
    BY <1>1, DiskStays
  <2>2. QED
    BY <1>1, <1>6, <2>1 DEF SkillsInv, ViewInv
<1>9. ASSUME NEW a \in Requests, NEW o \in Requests, Active(a)', req'[a].alone, Active(o)'
      PROVE  a = o
  <2>1. a = r
    <3> SUFFICES ASSUME a # r PROVE FALSE
      OBVIOUS
    <3>1. Active(a)
      BY <1>3, <1>9
    <3>2. QED
      BY <1>1, <1>9, <3>1 DEF Others
  <2>2. o = r
    <3> SUFFICES ASSUME o # r PROVE FALSE
      OBVIOUS
    <3>1. Active(o)
      BY <1>3, <1>9
    <3>2. QED
      BY <1>1, <1>9, <2>1, <3>1 DEF Others
  <2>3. QED
    BY <2>1, <2>2
<1>10. AloneInv'
  BY <1>9 DEF AloneInv
<1>11. InstallInv'
  <2> SUFFICES ASSUME NEW a \in Requests, Active(a)', req'[a].alone, req'[a].kind = "install"
               PROVE  Installs(req[a])'
    BY DEF InstallInv
  <2>1. a = r
    <3> SUFFICES ASSUME a # r PROVE FALSE
      OBVIOUS
    <3>1. Active(a)
      BY <1>3
    <3>2. QED
      BY <1>1, <3>1 DEF Others
  <2>2. QED
    BY <1>1, <1>2, <2>1 DEF Installs, Kept
<1>12. QED
  BY <1>5, <1>7, <1>8, <1>10, <1>11 DEF SkillsInv

LEMMA IdleTyped ==
  /\ Idle \in RequestStates /\ Idle.kind = "none" /\ Idle.at = "idle" /\ Idle.dst = None
  /\ Idle.source = None /\ Idle.text = None /\ Idle.loaded = NoSkills
  /\ Idle.number = 0 /\ Idle.alone = TRUE
<1> DEFINE v == NoSkills
<1>1. v \in Views
  BY NoSkillsTyped
<1> HIDE DEF v
<1>2. Idle = [kind |-> "none", at |-> "idle", dst |-> None, source |-> None,
              text |-> None, todo |-> {}, loaded |-> v, number |-> 0, alone |-> TRUE]
  BY DEF Idle, v
<1>3. /\ Idle \in RequestStates /\ Idle.kind = "none" /\ Idle.at = "idle" /\ Idle.dst = None
      /\ Idle.source = None /\ Idle.text = None /\ Idle.loaded = v
      /\ Idle.number = 0 /\ Idle.alone = TRUE
  BY <1>1, <1>2 DEF RequestStates, Kinds, Places
<1>4. QED
  BY <1>3 DEF v

LEMMA SourcesTyped ==
  ASSUME SkillsInv, NEW source \in Sources
  PROVE  /\ source \in SourceStates
         /\ source.src = None => source.package \in Packages
         /\ source.src # None => disk[source.src] = source.package
<1>1. CASE \E p \in Packages : source = [src |-> None, package |-> p, own |-> IdOf(p.base, p)]
  <2>1. PICK p \in Packages : source = [src |-> None, package |-> p, own |-> IdOf(p.base, p)]
    BY <1>1
  <2>2. IdOf(p.base, p) \in Ids /\ (p.id # None => IdOf(p.base, p) = p.id)
    BY SkillsAssumption DEF IdOf
  <2>3. QED
    BY <2>1, <2>2 DEF SourceStates, Held
<1>2. CASE \E d \in Dirs :
            Parsed(disk[d]) /\ source = [src |-> d, package |-> disk[d], own |-> IdOf(d, disk[d])]
  <2>1. PICK d \in Dirs :
            Parsed(disk[d]) /\ source = [src |-> d, package |-> disk[d], own |-> IdOf(d, disk[d])]
    BY <1>2
  <2>2. disk[d] \in Held /\ d # None
    BY <2>1, DiskTyped, HeldParses, SkillsAssumption DEF Ids
  <2>3. /\ IdOf(d, disk[d]) \in Ids
        /\ disk[d] \in Packages /\ disk[d].id # None => IdOf(d, disk[d]) = disk[d].id
    BY SkillsAssumption DEF IdOf, Ids
  <2>4. QED
    BY <2>1, <2>2, <2>3 DEF SourceStates
<1>3. QED
  BY <1>1, <1>2 DEF Sources

LEMMA InstallStep ==
  ASSUME SkillsInv, NEW r \in Requests, NEW source \in Sources, NEW id \in Ids \cup {None},
         Install(r, source, id)
  PROVE  SkillsInv'
<1> DEFINE dst == IF id # None THEN id ELSE source.own
           local == [Idle EXCEPT !.kind = "install", !.at = "mkdir", !.source = source, !.dst = dst]
<1>1. /\ source \in SourceStates /\ (source.src = None => source.package \in Packages)
      /\ (source.src # None => disk[source.src] = source.package)
  BY SourcesTyped
<1>2. dst \in Ids
  BY <1>1 DEF SourceStates
<1>3. Begins(r, local) /\ ~Active(r)
  BY DEF Install
<1> HIDE DEF dst
<1>4. /\ local \in RequestStates /\ local.kind = "install" /\ local.at = "mkdir"
      /\ local.source = source /\ local.dst = dst /\ local.loaded = NoSkills /\ local.number = 0
  BY <1>1, <1>2, IdleTyped DEF RequestStates, Kinds, Places
<1> HIDE DEF local
<1>5. KnowsWhatToDo(local) /\ Installs(local)
  BY <1>1, <1>2, <1>4 DEF KnowsWhatToDo, Sourced, Installs
<1>6. QED
  BY <1>3, <1>4, <1>5, BeginsStep

LEMMA UninstallStep ==
  ASSUME SkillsInv, NEW r \in Requests, NEW id \in Ids, Uninstall(r, id)
  PROVE  SkillsInv'
<1> DEFINE there == id \in {d \in Dirs : disk[d] # None}
           removes == [Idle EXCEPT !.kind = "uninstall", !.at = "remove", !.dst = id]
           over == [Idle EXCEPT !.at = "over"]
           local == IF there THEN removes ELSE over
<1>1. ~Active(r) /\ Begins(r, local)
  BY DEF Uninstall
<1>2. /\ removes \in RequestStates /\ removes.kind = "uninstall" /\ removes.at = "remove"
      /\ removes.dst = id /\ removes.loaded = NoSkills /\ removes.number = 0
  BY IdleTyped DEF RequestStates, Kinds, Places
<1>3. /\ over \in RequestStates /\ over.at = "over" /\ over.number = 0
      /\ over.kind = "none" /\ KnowsWhatToDo(over)
  BY LocalEnds
<1>4. there => id \in Dirs
  OBVIOUS
<1>5. there => KnowsWhatToDo(removes)
  <2> HIDE DEF there, removes
  <2>1. QED
    BY <1>2, <1>4 DEF KnowsWhatToDo
<1>6. (there => local = removes) /\ (~there => local = over)
  OBVIOUS
<1> HIDE DEF there, removes, over, local
<1>7. /\ local \in RequestStates /\ KnowsWhatToDo(local) /\ local.number = 0
      /\ local.at \in {"remove", "over"} /\ local.kind # "install"
  BY <1>2, <1>3, <1>5, <1>6
<1>8. QED
  BY <1>1, <1>7, BeginsStep

LEMMA ReloadStep ==
  ASSUME SkillsInv, NEW r \in Requests, Reload(r)
  PROVE  SkillsInv'
<1> DEFINE local == [Idle EXCEPT !.kind = "reload", !.at = "reload"]
<1>1. Begins(r, local) /\ ~Active(r)
  BY DEF Reload
<1>2. /\ local \in RequestStates /\ local.kind = "reload" /\ local.at = "reload"
      /\ local.loaded = NoSkills /\ local.number = 0
  BY IdleTyped DEF RequestStates, Kinds, Places
<1> HIDE DEF local
<1>3. KnowsWhatToDo(local)
  BY <1>2 DEF KnowsWhatToDo
<1>4. QED
  BY <1>1, <1>2, <1>3, BeginsStep

--------------------------------------------------------------------------------
(* A reload *)

LEMMA PlaceTypes ==
  /\ Len(Names) \in Nat /\ DOMAIN Names = 1 .. Len(Names)
  /\ \A i \in DOMAIN Names : i \in Nat /\ Names[i] \in Dirs /\ Names[i] \in Ids
<1>1. Names \in Seq(Dirs)
  BY SkillsAssumption
<1>2. Len(Names) \in Nat /\ DOMAIN Names = 1 .. Len(Names)
  BY <1>1
<1>3. \A i \in DOMAIN Names : i \in Nat /\ Names[i] \in Dirs
  BY <1>1, <1>2
<1>4. QED
  BY <1>2, <1>3 DEF Ids

LEMMA ListDirsStep ==
  ASSUME SkillsInv, NEW r \in Requests, ListDirs(r)
  PROVE  SkillsInv'
<1> DEFINE there == {i \in DOMAIN Names : disk[Names[i]] # None}
           local == [req[r] EXCEPT !.at = "scan", !.todo = there, !.number = started + 1]
<1>1. /\ req[r].at = "reload" /\ started' = started + 1 /\ unseen' = FALSE
      /\ Becomes(r, local) /\ UNCHANGED <<disk, skills, served>>
  BY DEF ListDirs
<1>2. /\ req[r] \in RequestStates /\ req[r].loaded = NoSkills
      /\ (req[r].kind = "install" => Sourced(req[r]))
  BY <1>1, RequestTypes DEF KnowsWhatToDo
<1>3. there \subseteq DOMAIN Names /\ started \in Nat /\ served \in 0 .. started /\ skills \in Views
  BY DEF SkillsInv, SkillsTyped
<1>4. \A i \in DOMAIN Names \ there : ~Parsed(disk[Names[i]])
  BY DEF Parsed
<1>5. /\ local \in RequestStates /\ local.at = "scan" /\ local.todo = there
      /\ local.number = started + 1 /\ local.kind = req[r].kind /\ local.dst = req[r].dst
      /\ local.source = req[r].source /\ local.loaded = NoSkills /\ local.alone = req[r].alone
  <2> HIDE DEF there
  <2>1. there \in SUBSET DOMAIN Names /\ started + 1 \in Nat /\ "scan" \in Places
    BY <1>3 DEF Places
  <2>2. QED
    BY <1>2, <2>1 DEF RequestStates
<1> HIDE DEF there, local
<1>6. KnowsWhatToDo(local)
  BY <1>2, <1>5 DEF KnowsWhatToDo, Sourced
<1>7. HasRead(local)
  <2>1. \A id \in Ids : PlacesOf(id) \ there = {}
    BY <1>4 DEF PlacesOf
  <2>2. \A id \in Ids : local.loaded[id] = LastAmong(PlacesOf(id) \ local.todo)
    BY <1>5, <2>1 DEF NoSkills, LastAmong
  <2>3. QED
    BY <1>4, <1>5, <2>2 DEF HasRead
<1>8. local.number \in 0 .. started' /\ served' \in 0 .. started' /\ started' > started
      /\ served' # started'
  BY <1>1, <1>3, <1>5
<1>9. ShowsThen(local)
  <2> SUFFICES ASSUME local.alone, local.kind = "install", local.dst # ""
               PROVE  disk[local.dst] = Kept(local)
    BY <1>1, <1>5 DEF ShowsThen
  <2>1. QED
    BY <1>1, <1>5 DEF SkillsInv, InstallInv, Installs, Kept
<1>10. QED
  BY <1>1, <1>3, <1>5, <1>6, <1>7, <1>8, <1>9, DiskKeptStep

(* What reading a directory puts into the map.                             *)
LEMMA PutIs ==
  ASSUME SkillsInv, NEW loaded \in Views, NEW i \in DOMAIN Names
  PROVE  /\ Put(loaded, Names[i]) \in Views
         /\ \A id \in Ids :
              Put(loaded, Names[i])[id] =
                IF i \in PlacesOf(id) THEN Skill(Names[i], disk[Names[i]]) ELSE loaded[id]
<1> DEFINE d == Names[i]
           c == disk[d]
           s == Skill(d, c)
           at == IdOf(d, c)
<1>1. d \in Dirs /\ d \in Ids /\ c \in {None, Bare} \cup Held
  BY PlaceTypes, DiskTyped
<1>2. at \in Ids
  BY <1>1, SkillsAssumption DEF IdOf
<1>3. Parsed(c) => s \in [dir : Dirs, from : Held]
  BY <1>1, HeldParses DEF Skill
<1>4. \A id \in Ids : i \in PlacesOf(id) <=> Parsed(c) /\ id = at
  BY DEF PlacesOf
<1>5. Put(loaded, d) = IF Parsed(c) THEN [loaded EXCEPT ![at] = s] ELSE loaded
  BY DEF Put
<1> HIDE DEF c, s, at
<1>6. CASE Parsed(c)
  <2>1. Put(loaded, d) = [loaded EXCEPT ![at] = s]
    BY <1>5, <1>6
  <2>2. Put(loaded, d) \in Views
    BY <1>2, <1>3, <1>6, <2>1 DEF Views
  <2>3. \A id \in Ids : Put(loaded, d)[id] = IF i \in PlacesOf(id) THEN s ELSE loaded[id]
    BY <1>4, <1>6, <2>1 DEF Views
  <2>4. QED
    BY <2>2, <2>3 DEF s, c
<1>7. CASE ~Parsed(c)
  BY <1>4, <1>5, <1>7
<1>8. QED
  BY <1>6, <1>7

(* The place read now is after all those read before it.                   *)
LEMMA ReadsLast ==
  ASSUME SkillsInv, NEW q \in RequestStates, HasRead(q), NEW i \in q.todo,
         \A j \in q.todo : i <= j, NEW id \in Ids
  PROVE  LastAmong(PlacesOf(id) \ (q.todo \ {i})) =
           IF i \in PlacesOf(id) THEN Skill(Names[i], disk[Names[i]]) ELSE q.loaded[id]
<1> DEFINE before == PlacesOf(id) \ q.todo
           now == PlacesOf(id) \ (q.todo \ {i})
<1>1. q.todo \subseteq DOMAIN Names /\ i \in DOMAIN Names
  BY DEF RequestStates
<1>2. CASE i \in PlacesOf(id)
  <2>1. i \in now /\ now \in SUBSET Nat
    BY <1>1, <1>2, PlaceTypes DEF PlacesOf
  <2>2. ASSUME NEW j \in now PROVE j <= i
    <3>1. CASE j = i
      BY <2>1, <3>1
    <3>2. CASE j # i
      <4>1. j \in DOMAIN Names \ q.todo /\ Parsed(disk[Names[j]])
        BY <3>2 DEF PlacesOf
      <4>2. j < i
        BY <4>1 DEF HasRead
      <4>3. QED
        BY <2>1, <4>2
    <3>3. QED
      BY <3>1, <3>2
  <2> HIDE DEF now
  <2>3. Max(now) = i
    BY <2>1, <2>2, LastIs
  <2>4. LastAmong(now) = Skill(Names[i], disk[Names[i]])
    BY <2>1, <2>3 DEF LastAmong
  <2>5. QED
    BY <1>2, <2>4 DEF now
<1>3. CASE i \notin PlacesOf(id)
  <2>1. now = before
    BY <1>3
  <2>2. q.loaded[id] = LastAmong(before)
    BY DEF HasRead
  <2>3. QED
    BY <1>3, <2>1, <2>2
<1>4. QED
  BY <1>2, <1>3

LEMMA ReadNextStep ==
  ASSUME SkillsInv, NEW r \in Requests, ReadNext(r)
  PROVE  SkillsInv'
<1>1. PICK i \in req[r].todo :
        /\ \A j \in req[r].todo : i <= j
        /\ Becomes(r, [req[r] EXCEPT !.todo = @ \ {i}, !.loaded = Put(@, Names[i])])
  BY DEF ReadNext
<1> DEFINE read == Put(req[r].loaded, Names[i])
           rest == req[r].todo \ {i}
           local == [req[r] EXCEPT !.todo = rest, !.loaded = read]
<1>2. /\ req[r].at = "scan" /\ UNCHANGED <<disk, skills, started, served, unseen>>
      /\ req[r] \in RequestStates /\ req[r].number \in 0 .. started
      /\ (req[r].kind = "install" => Sourced(req[r]))
  BY RequestTypes DEF ReadNext, KnowsWhatToDo
<1>3. i \in DOMAIN Names /\ req[r].loaded \in Views /\ req[r].todo \in SUBSET DOMAIN Names
  BY RequestTypes
<1>4. /\ read \in Views
      /\ \A id \in Ids :
           read[id] = IF i \in PlacesOf(id) THEN Skill(Names[i], disk[Names[i]])
                      ELSE req[r].loaded[id]
  BY <1>3, PutIs
<1>5. Becomes(r, local)
  BY <1>1, <1>2 DEF RequestStates
<1>6. /\ local \in RequestStates /\ local.at = "scan" /\ local.todo = rest
      /\ local.number = req[r].number /\ local.kind = req[r].kind /\ local.dst = req[r].dst
      /\ local.source = req[r].source /\ local.loaded = read /\ local.alone = req[r].alone
  <2>1. rest \in SUBSET DOMAIN Names
    BY <1>3
  <2> HIDE DEF read, rest
  <2>2. QED
    BY <1>2, <1>4, <2>1 DEF RequestStates
<1> HIDE DEF read, local
<1>7. KnowsWhatToDo(local)
  BY <1>2, <1>6 DEF KnowsWhatToDo, Sourced
<1>8. req'[r] = local /\ \A o \in Requests : o # r => req'[o] = req[o]
  BY <1>5, <1>6, RequestBecomes
<1>9. Quiet' => Quiet
  BY <1>2, <1>8 DEF Quiet, Pending
<1>10. HasRead(req[r]) => HasRead(local)
  <2> SUFFICES ASSUME HasRead(req[r]) PROVE HasRead(local)
    OBVIOUS
  <2>1. \A id \in Ids : read[id] = LastAmong(PlacesOf(id) \ rest)
    BY <1>1, <1>2, <1>4, ReadsLast
  <2>2. ASSUME NEW a \in DOMAIN Names \ rest, NEW b \in rest, Parsed(disk[Names[a]])
        PROVE  a < b
    <3>1. b \in req[r].todo /\ b # i /\ i <= b /\ b \in Nat /\ i \in Nat
      BY <1>1, <1>3, PlaceTypes
    <3>2. CASE a = i
      BY <3>1, <3>2
    <3>3. CASE a # i
      BY <2>2, <3>1, <3>3 DEF HasRead
    <3>4. QED
      BY <3>2, <3>3
  <2>3. QED
    BY <1>6, <2>1, <2>2 DEF HasRead
<1>11. Quiet' => HasRead(local) \/ local.at # "scan" \/ local.number # started'
  BY <1>2, <1>6, <1>9, <1>10 DEF SkillsInv, ScansInv
<1>12. ShowsThen(local)
  <2> SUFFICES ASSUME local.alone, local.kind = "install", local.dst # ""
               PROVE  disk[local.dst] = Kept(local) /\ local.number = started /\ ~unseen
    BY <1>2, <1>6 DEF ShowsThen
  <2>1. QED
    BY <1>2, <1>6 DEF SkillsInv, InstallInv, Installs, Kept
<1>13. /\ started \in Nat /\ served \in 0 .. started /\ skills \in Views /\ unseen \in BOOLEAN
       /\ (Quiet /\ served = started => skills = OnDisk)
  BY DEF SkillsInv, SkillsTyped, ViewInv
<1>14. /\ local.number \in 0 .. started' /\ served' \in 0 .. started' /\ skills' \in Views
       /\ unseen' \in BOOLEAN /\ started' = started
  BY <1>2, <1>6, <1>13
<1>15. Quiet' /\ served' = started' => skills' = OnDisk
  BY <1>2, <1>9, <1>13
<1>16. UNCHANGED disk /\ Active(r)
  BY <1>2
<1>17. QED
  BY <1>5, <1>6, <1>7, <1>9, <1>11, <1>12, <1>14, <1>15, <1>16, DiskKeptStep

LEMMA SwapStep ==
  ASSUME SkillsInv, NEW r \in Requests, Swap(r)
  PROVE  SkillsInv'
<1>1. /\ req[r].at = "scan" /\ req[r].todo = {} /\ skills' = req[r].loaded
      /\ served' = req[r].number /\ UNCHANGED <<disk, started, unseen>>
  BY DEF Swap
<1>2. /\ req[r] \in RequestStates /\ req[r].loaded \in Views /\ req[r].number \in 0 .. started
      /\ (req[r].kind = "install" => Sourced(req[r]))
  BY RequestTypes DEF KnowsWhatToDo
<1>3. PICK local \in RequestStates :
        /\ Becomes(r, local) /\ KnowsWhatToDo(local) /\ local.number = 0
        /\ \/ local.at = "over"
           \/ /\ local.at = "answer" /\ local.kind = req[r].kind /\ local.dst = req[r].dst
              /\ local.source = req[r].source /\ local.alone = req[r].alone
  <2>1. CASE req[r].kind = "install"
    <3> DEFINE v == NoSkills
               local == [req[r] EXCEPT !.at = "answer", !.loaded = v, !.number = 0]
    <3>1. Becomes(r, local)
      BY <2>1 DEF Swap
    <3>2. v \in Views
      BY NoSkillsTyped
    <3> HIDE DEF v
    <3>3. /\ local \in RequestStates /\ local.number = 0
          /\ local.at = "answer" /\ local.kind = req[r].kind /\ local.dst = req[r].dst
          /\ local.source = req[r].source /\ local.alone = req[r].alone
      BY <1>2, <3>2 DEF RequestStates, Places
    <3> HIDE DEF local
    <3>4. KnowsWhatToDo(local)
      BY <1>2, <2>1, <3>3 DEF KnowsWhatToDo, Sourced
    <3>5. QED
      BY <3>1, <3>3, <3>4
  <2>2. CASE req[r].kind # "install"
    BY <2>2, LocalEnds DEF Swap, Ends
  <2>3. QED
    BY <2>1, <2>2
<1>4. req'[r] = local /\ \A o \in Requests : o # r => req'[o] = req[o]
  BY <1>3, RequestBecomes
<1>5. Quiet' => Quiet
  BY <1>1, <1>4 DEF Quiet, Pending
<1>6. Quiet /\ req[r].number = started => req[r].loaded = OnDisk
  <2> SUFFICES ASSUME Quiet, req[r].number = started PROVE req[r].loaded = OnDisk
    OBVIOUS
  <2>1. HasRead(req[r])
    BY <1>1 DEF SkillsInv, ScansInv
  <2>2. \A id \in Ids : req[r].loaded[id] = LastAmong(PlacesOf(id))
    <3>1. \A id \in Ids : PlacesOf(id) \ req[r].todo = PlacesOf(id)
      BY <1>1
    <3>2. QED
      BY <2>1, <3>1 DEF HasRead
  <2>3. QED
    BY <1>2, <2>2 DEF Views, OnDisk
<1>7. ShowsThen(local)
  <2> SUFFICES ASSUME local.at = "answer", local.alone, local.kind = "install", local.dst # ""
               PROVE  disk[local.dst] = Kept(local) /\ req[r].loaded = OnDisk
    BY <1>1, <1>3, DiskStays DEF ShowsThen
  <2>1. disk[local.dst] = Kept(local) /\ req[r].number = started /\ ~unseen
    BY <1>1, <1>3 DEF SkillsInv, InstallInv, Installs, Kept
  <2>2. ASSUME NEW o \in Requests PROVE ~Pending(req[o])
    <3>1. ~Active(o) \/ o = r
      BY <1>1, <1>3 DEF SkillsInv, AloneInv
    <3>2. QED
      BY <1>1, <3>1 DEF Pending
  <2>3. QED
    BY <1>6, <2>1, <2>2 DEF Quiet
<1>8. /\ started \in Nat /\ unseen \in BOOLEAN
  BY DEF SkillsInv, SkillsTyped
<1>9. /\ local.number \in 0 .. started' /\ served' \in 0 .. started' /\ skills' \in Views
      /\ unseen' \in BOOLEAN /\ started' = started
  BY <1>1, <1>2, <1>3, <1>8
<1>10. Quiet' /\ served' = started' => skills' = OnDisk
  BY <1>1, <1>5, <1>6
<1>11. UNCHANGED disk /\ Active(r) /\ local.at # "scan" /\ (local.at # "over" => local.alone = req[r].alone)
  BY <1>1, <1>3
<1>12. QED
  BY <1>3, <1>5, <1>7, <1>9, <1>10, <1>11, DiskKeptStep

--------------------------------------------------------------------------------
(* All steps *)

LEMMA OnDiskTyped ==
  ASSUME disk \in [Dirs -> {None, Bare} \cup Held]
  PROVE  OnDisk \in Views
<1> SUFFICES ASSUME NEW id \in Ids
             PROVE  LastAmong(PlacesOf(id)) \in {None} \cup [dir : Dirs, from : Held]
  BY DEF OnDisk, Views
<1>1. CASE PlacesOf(id) = {}
  BY <1>1 DEF LastAmong
<1>2. CASE PlacesOf(id) # {}
  <2>1. PlacesOf(id) \in SUBSET (1 .. Len(Names)) /\ Len(Names) \in Nat
    BY PlaceTypes DEF PlacesOf
  <2>2. PICK k \in PlacesOf(id) : Max(PlacesOf(id)) = k
    BY <1>2, <2>1, LastOf
  <2>3. Names[k] \in Dirs /\ Parsed(disk[Names[k]])
    BY PlaceTypes DEF PlacesOf
  <2>4. disk[Names[k]] \in Held
    BY <2>3, HeldParses
  <2>5. QED
    BY <1>2, <2>2, <2>3, <2>4 DEF LastAmong, Skill
<1>3. QED
  BY <1>1, <1>2

LEMMA SkillsInitially == SkillsInit => SkillsInv
<1> SUFFICES ASSUME SkillsInit PROVE SkillsInv
  OBVIOUS
<1>1. /\ disk \in [Dirs -> {None, Bare} \cup Held] /\ skills = OnDisk
      /\ req = [r \in Requests |-> Idle] /\ started = 0 /\ served = 0 /\ unseen = FALSE
  BY DEF SkillsInit, Held
<1>2. \A r \in Requests : req[r] = Idle
  BY <1>1
<1>3. KnowsWhatToDo(Idle)
  BY IdleTyped DEF KnowsWhatToDo
<1>4. SkillsTyped
  <2>1. req \in [Requests -> RequestStates]
    BY <1>1, IdleTyped
  <2>2. \A r \in Requests : req[r].number \in 0 .. started /\ KnowsWhatToDo(req[r])
    BY <1>1, <1>2, <1>3, IdleTyped
  <2>3. skills \in Views
    BY <1>1, OnDiskTyped
  <2>4. started \in Nat /\ served \in 0 .. started /\ unseen \in BOOLEAN
    <3>1. unseen \in BOOLEAN
      BY <1>1
    <3>2. started = 0 /\ served = 0
      BY <1>1
    <3>3. started \in Nat /\ served \in 0 .. started
      BY <3>2
    <3>4. QED
      BY <3>1, <3>3
  <2>5. disk \in [Dirs -> {None, Bare} \cup Held]
    BY <1>1
  <2>6. QED
    BY <2>1, <2>2, <2>3, <2>4, <2>5 DEF SkillsTyped
<1>5. \A r \in Requests : req[r].at = "idle"
  BY <1>2, IdleTyped
<1>6. ScansInv /\ ViewInv
  BY <1>1, <1>5 DEF ScansInv, ViewInv
<1>7. AloneInv /\ InstallInv
  BY <1>5 DEF AloneInv, InstallInv
<1>8. QED
  BY <1>4, <1>6, <1>7 DEF SkillsInv

LEMMA SkillsInductive == SkillsInv /\ [SkillsNext]_skillsVars => SkillsInv'
<1> SUFFICES ASSUME SkillsInv, [SkillsNext]_skillsVars PROVE SkillsInv'
  OBVIOUS
<1>1. CASE SkillsNext
  <2>1. PICK r \in Requests : Step(r)
    BY <1>1 DEF SkillsNext
  <2>2. CASE \E source \in Sources, id \in Ids \cup {None} : Install(r, source, id)
    BY <2>2, InstallStep
  <2>3. CASE \E id \in Ids : Uninstall(r, id)
    BY <2>3, UninstallStep
  <2>4. CASE Reload(r)
    BY <2>4, ReloadStep
  <2>5. CASE MakeDir(r)
    BY <2>5, MakeDirStep
  <2>6. CASE CreateFile(r)
    BY <2>6, CreateFileStep
  <2>7. CASE WriteFile(r)
    BY <2>7, WriteFileStep
  <2>8. CASE RemoveDir(r)
    BY <2>8, RemoveDirStep
  <2>9. CASE ListDirs(r)
    BY <2>9, ListDirsStep
  <2>10. CASE ReadNext(r)
    BY <2>10, ReadNextStep
  <2>11. CASE Swap(r)
    BY <2>11, SwapStep
  <2>12. CASE Answer(r)
    BY <2>12, AnswerStep
  <2>13. CASE Fail(r)
    BY <2>13, FailStep
  <2>14. CASE ReadFile(r)
    BY <2>14, ReadFileStep
  <2>15. QED
    BY <2>1, <2>2, <2>3, <2>4, <2>5, <2>6, <2>7, <2>8, <2>9, <2>10, <2>11, <2>12, <2>13, <2>14
    DEF Step
<1>2. CASE UNCHANGED skillsVars
  <2>1. /\ disk' = disk /\ skills' = skills /\ req' = req /\ started' = started
        /\ served' = served /\ unseen' = unseen
    BY <1>2 DEF skillsVars
  <2>2. SkillsTyped'
    BY <2>1 DEF SkillsInv, SkillsTyped
  <2>3. OnDisk' = OnDisk
    BY <2>1, DiskStays
  <2>4. Quiet' = Quiet
    BY <2>1 DEF Quiet
  <2>5. ScansInv' /\ ViewInv'
    <3>1. ViewInv'
      BY <2>1, <2>3, <2>4 DEF SkillsInv, ViewInv
    <3>2. ASSUME Quiet', NEW o \in Requests, req'[o].at = "scan", req'[o].number = started'
          PROVE  HasRead(req[o])'
      <4>1. HasRead(req[o])
        BY <2>1, <2>4, <3>2 DEF SkillsInv, ScansInv
      <4>2. QED
        BY <2>1, <4>1 DEF HasRead, PlacesOf, LastAmong, Parsed
    <3>3. QED
      BY <3>1, <3>2 DEF ScansInv
  <2>6. AloneInv'
    BY <2>1 DEF SkillsInv, AloneInv
  <2>7. InstallInv'
    BY <2>1, <2>3 DEF SkillsInv, InstallInv, Installs, Kept
  <2>8. QED
    BY <2>2, <2>5, <2>6, <2>7 DEF SkillsInv
<1>3. QED
  BY <1>1, <1>2

(* The invariant of the skills holds, for any directories and packages and *)
(* however many requests overlap.                                          *)
THEOREM SkillsHold == SkillsSpec => []SkillsInv
BY SkillsInitially, SkillsInductive, PTL DEF SkillsSpec

(* When no request is under way, the skills in memory are those on the     *)
(* disk, unless an older scan came in last or a request failed half way    *)
(* (SkillService.Reload, Install and Uninstall).                           *)
THEOREM ViewIsAlwaysFresh == SkillsSpec => []ViewIsFresh
<1>1. SkillsInv => ViewIsFresh
  <2> SUFFICES ASSUME SkillsInv PROVE ViewIsFresh
    OBVIOUS
  <2>1. SkillsTypeOK
    <3>1. \A r \in Requests : DOMAIN req[r] = DOMAIN Idle
      <4>1. \A q \in RequestStates :
              DOMAIN q = {"kind", "at", "dst", "source", "text", "todo", "loaded", "number", "alone"}
        BY DEF RequestStates
      <4>2. QED
        BY <4>1, RequestTypes, IdleTyped
    <3>2. \A r \in Requests : req[r].loaded \in Views /\ req[r].number \in 0 .. started
      BY RequestTypes
    <3>3. QED
      BY <3>1, <3>2 DEF SkillsInv, SkillsTyped, SkillsTypeOK, Views, Held
  <2>2. ASSUME \A r \in Requests : ~Active(r), served = started, ~unseen
        PROVE  skills = OnDisk
    <3>1. Quiet
      BY <2>2 DEF Quiet, Pending
    <3>2. QED
      BY <2>2, <3>1 DEF SkillsInv, ViewInv
  <2>3. QED
    BY <2>1, <2>2 DEF ViewIsFresh
<1>2. QED
  BY <1>1, SkillsHold, PTL

LEMMA OnlyPlace ==
  ASSUME NEW id \in Ids, NEW k \in DOMAIN Names, PlacesOf(id) = {k}
  PROVE  OnDisk[id] = Skill(Names[k], disk[Names[k]])
<1>1. Max({k}) = k
  BY PlaceTypes, LastIs
<1>2. QED
  BY <1>1 DEF OnDisk, LastAmong

(* An install no other request meets answers with what it was given, or    *)
(* emptied it if that was the directory it installs into; unless another   *)
(* directory has the id asked for or the one that is given, or nothing is  *)
(* left of the id asked for (SkillService.Install, copyDir and copyFile).  *)
THEOREM InstallsAnswerTruly == SkillsSpec => []InstallAnswersTruly
<1>1. SkillsInv => InstallAnswersTruly
  <2> SUFFICES ASSUME SkillsInv, NEW r \in Requests, req[r].at = "answer", req[r].alone,
                      Into(r) # ""
               PROVE  LET held == IF From(r) = Into(r) THEN Blank ELSE req[r].source.package
                      IN (\A d \in Dirs \ {Into(r)} : Parsed(disk[d]) =>
                            IdOf(d, disk[d]) \notin {Into(r), IdOf(Into(r), held)})
                         => Found(r) = Skill(Into(r), held)
    BY DEF InstallAnswersTruly
  <2> DEFINE dst == Into(r)
             held == IF From(r) = Into(r) THEN Blank ELSE req[r].source.package
             own == IdOf(dst, held)
  <2> SUFFICES ASSUME \A d \in Dirs \ {dst} : Parsed(disk[d]) => IdOf(d, disk[d]) \notin {dst, own}
               PROVE  Found(r) = Skill(dst, held)
    OBVIOUS
  <2>1. /\ req[r].kind = "install" /\ dst \in Dirs /\ dst = req[r].dst /\ Sourced(req[r])
        /\ held = Kept(req[r]) /\ held \in Held
    BY RequestTypes, IntoIs, ZenonT(40) DEF KnowsWhatToDo, Kept, Held
  <2>2. disk[dst] = held /\ skills = OnDisk
    BY <2>1 DEF SkillsInv, InstallInv, Installs, Kept
  <2>3. PICK k \in DOMAIN Names : Names[k] = dst
    BY <2>1 DEF Dirs, ToSet
  <2>4. dst \in Ids /\ own \in Ids /\ Parsed(held)
    BY <2>1, HeldParses, SkillsAssumption DEF IdOf, Ids
  <2>5. own # dst => req[r].source.own = own
    <3>1. own # dst => held \in Packages /\ held.id # None /\ own = held.id
      BY DEF IdOf
    <3>2. held \in Packages => held = req[r].source.package
      BY SkillsAssumption
    <3>3. QED
      BY <2>1, <3>1, <3>2 DEF Sourced, SourceStates
  <2> HIDE DEF held, own
  <2>6. ASSUME NEW id \in {dst, own}, NEW j \in PlacesOf(id)
        PROVE  j = k
    <3>1. j \in DOMAIN Names /\ Parsed(disk[Names[j]]) /\ IdOf(Names[j], disk[Names[j]]) = id
          /\ Names[j] \in Dirs
      BY PlaceTypes DEF PlacesOf
    <3>2. Names[j] = dst
      BY <3>1
    <3>3. QED
      BY <2>3, <3>1, <3>2, SkillsAssumption DEF IsInjective
  <2>7. Skill(dst, held) # None
    <3>1. Skill(dst, held) \in [dir : Dirs, from : {Blank} \cup Packages]
      BY <2>1 DEF Skill, Held
    <3>2. QED
      BY <3>1, SkillsAssumption
  <2>8. OnDisk[own] = Skill(dst, held)
    <3>1. k \in PlacesOf(own)
      BY <2>2, <2>3, <2>4 DEF PlacesOf, own
    <3>2. PlacesOf(own) = {k}
      BY <2>6, <3>1
    <3>3. QED
      BY <2>2, <2>3, <2>4, <3>2, OnlyPlace, ZenonT(40)
  <2>9. CASE own = dst
    BY <2>2, <2>7, <2>8, <2>9 DEF Found
  <2>10. CASE own # dst
    <3>1. k \notin PlacesOf(dst)
      BY <2>2, <2>3, <2>10 DEF PlacesOf, own
    <3>2. PlacesOf(dst) = {}
      BY <2>6, <3>1
    <3>3. OnDisk[dst] = None
      BY <2>4, <3>2 DEF OnDisk, LastAmong
    <3>4. QED
      BY <2>2, <2>5, <2>8, <2>10, <3>3 DEF Found
  <2>11. QED
    BY <2>9, <2>10
<1>2. QED
  BY <1>1, SkillsHold, PTL

--------------------------------------------------------------------------------
(* The walk that chooses a skill *)

Picks(known) == [best : known \cup {None}, top : Nat, said : BOOLEAN]

NoPick == [best |-> None, top |-> 0, said |-> FALSE]

(* What the walk holds after it looked at one more skill. *)
Looked(mentioned, score, acc, id) ==
  IF acc.said THEN acc
  ELSE IF id \in mentioned THEN [best |-> id, top |-> 0, said |-> TRUE]
  ELSE IF score[id] > acc.top THEN [acc EXCEPT !.best = id, !.top = score[id]]
  ELSE acc

(* The walk over some of the places of an order, as the fold defines it. *)
Folds(order, mentioned, score, g) ==
  g = [s \in SUBSET DOMAIN order |->
        IF s = {} THEN NoPick
        ELSE Looked(mentioned, score, g[s \ {Max(s)}], order[Max(s)])]

LEMMA LookedTyped ==
  ASSUME NEW known, NEW mentioned, NEW score \in [known -> Nat],
         NEW acc \in Picks(known), NEW id \in known
  PROVE  Looked(mentioned, score, acc, id) \in Picks(known)
  BY DEF Looked, Picks

(* What holds at the start, and after each step if before it, holds at the end. *)
LEMMA UpTo ==
  ASSUME NEW n \in Nat, NEW S, 0 \in S, \A i \in 1 .. n : i - 1 \in S => i \in S
  PROVE  n \in S /\ \A i \in 0 .. n : i \in S
<1> DEFINE T == {i \in 0 .. n : i \notin S}
<1>1. T = {}
  <2> SUFFICES ASSUME T # {} PROVE FALSE
    OBVIOUS
  <2>1. T \in SUBSET Nat
    OBVIOUS
  <2>2. PICK m \in T : \A k \in T : m <= k
    <3> HIDE DEF T
    <3> QED BY <2>1, LeastOf
  <2>3. m \in 1 .. n
    OBVIOUS
  <2>4. m - 1 \in S
    <3>1. m - 1 \in 0 .. n /\ ~(m <= m - 1)
      BY <2>3
    <3> QED BY <2>2, <3>1
  <2>5. QED
    BY <2>3, <2>4
<1>2. QED
  BY <1>1

(* A walk there is, for every order. *)
LEMMA WalkExists ==
  ASSUME NEW n \in Nat, NEW known, NEW order \in [1 .. n -> known],
         NEW mentioned, NEW score \in [known -> Nat]
  PROVE  \E g \in [SUBSET (1 .. n) -> Picks(known)] : Folds(order, mentioned, score, g)
<1> DEFINE
     Next(g, s) == Looked(mentioned, score, g[s \ {Max(s)}], order[Max(s)])
     Walks(k, g) == \A s \in SUBSET (1 .. k) : g[s] = IF s = {} THEN NoPick ELSE Next(g, s)
<1>1. \E g \in [SUBSET (1 .. 0) -> Picks(known)] : Walks(0, g)
  <2>1. [s \in SUBSET (1 .. 0) |-> NoPick] \in [SUBSET (1 .. 0) -> Picks(known)]
    BY DEF NoPick, Picks
  <2>2. \A s \in SUBSET (1 .. 0) : s = {}
    OBVIOUS
  <2>3. Walks(0, [s \in SUBSET (1 .. 0) |-> NoPick])
    BY <2>2
  <2>4. QED
    BY <2>1, <2>3
<1>2. ASSUME NEW k \in 0 .. n - 1, NEW f \in [SUBSET (1 .. k) -> Picks(known)], Walks(k, f)
      PROVE  \E g \in [SUBSET (1 .. k + 1) -> Picks(known)] : Walks(k + 1, g)
  <2> DEFINE g == [s \in SUBSET (1 .. k + 1) |->
                     IF k + 1 \in s
                     THEN Looked(mentioned, score, f[s \ {k + 1}], order[k + 1])
                     ELSE f[s]]
  <2>1. ASSUME NEW s \in SUBSET (1 .. k + 1)
        PROVE  s \ {k + 1} \in SUBSET (1 .. k) /\ (k + 1 \notin s => s \in SUBSET (1 .. k))
    OBVIOUS
  <2>2. order[k + 1] \in known
    OBVIOUS
  <2>3. g \in [SUBSET (1 .. k + 1) -> Picks(known)]
    <3> SUFFICES ASSUME NEW s \in SUBSET (1 .. k + 1)
                 PROVE  (IF k + 1 \in s
                         THEN Looked(mentioned, score, f[s \ {k + 1}], order[k + 1])
                         ELSE f[s]) \in Picks(known)
      OBVIOUS
    <3>1. f[s \ {k + 1}] \in Picks(known) /\ (k + 1 \notin s => f[s] \in Picks(known))
      BY <2>1
    <3>2. Looked(mentioned, score, f[s \ {k + 1}], order[k + 1]) \in Picks(known)
      BY <2>2, <3>1, LookedTyped
    <3>3. QED
      BY <3>1, <3>2
  <2>4. ASSUME NEW s \in SUBSET (1 .. k), s # {}
        PROVE  s \ {Max(s)} \in SUBSET (1 .. k)
    OBVIOUS
  <2>5. ASSUME NEW s \in SUBSET (1 .. k)
        PROVE  g[s] = f[s]
    OBVIOUS
  <2>6. ASSUME NEW s \in SUBSET (1 .. k + 1)
        PROVE  g[s] = IF s = {} THEN NoPick ELSE Next(g, s)
    <3>1. CASE k + 1 \in s
      <4>1. Max(s) = k + 1
        BY <3>1, LastIs
      <4>2. g[s \ {k + 1}] = f[s \ {k + 1}]
        BY <2>1, <2>5
      <4>3. g[s] = Looked(mentioned, score, f[s \ {k + 1}], order[k + 1])
        BY <3>1
      <4>4. QED
        BY <3>1, <4>1, <4>2, <4>3
    <3>2. CASE k + 1 \notin s
      <4>1. s \in SUBSET (1 .. k)
        BY <2>1, <3>2
      <4>2. g[s] = f[s] /\ (s # {} => g[s \ {Max(s)}] = f[s \ {Max(s)}])
        BY <2>4, <2>5, <4>1
      <4>3. f[s] = IF s = {} THEN NoPick ELSE Next(f, s)
        BY <1>2, <4>1
      <4>4. QED
        BY <4>2, <4>3
    <3>3. QED
      BY <3>1, <3>2
  <2>7. QED
    BY <2>3, <2>6
<1> DEFINE Reached == {k \in 0 .. n : \E g \in [SUBSET (1 .. k) -> Picks(known)] : Walks(k, g)}
<1>3. n \in Reached
  <2>1. 0 \in Reached
    <3>1. 0 \in 0 .. n
      OBVIOUS
    <3> HIDE DEF Walks
    <3>2. QED
      BY <1>1, <3>1, Zenon
  <2>2. ASSUME NEW i \in 1 .. n, i - 1 \in Reached
        PROVE  i \in Reached
    <3>1. i - 1 \in 0 .. n - 1 /\ i - 1 + 1 = i /\ i \in 0 .. n
      OBVIOUS
    <3>2. PICK f \in [SUBSET (1 .. i - 1) -> Picks(known)] : Walks(i - 1, f)
      BY <2>2
    <3> HIDE DEF Walks
    <3>3. \E g \in [SUBSET (1 .. i - 1 + 1) -> Picks(known)] : Walks(i - 1 + 1, g)
      BY <1>2, <3>1, <3>2
    <3>4. QED
      BY <3>1, <3>3
  <2> HIDE DEF Reached
  <2>3. QED
    BY <2>1, <2>2, UpTo
<1>4. PICK g \in [SUBSET (1 .. n) -> Picks(known)] : Walks(n, g)
  BY <1>3
<1>5. g = [s \in SUBSET (1 .. n) |-> g[s]]
  OBVIOUS
<1>6. g = [s \in SUBSET (1 .. n) |-> IF s = {} THEN NoPick ELSE Next(g, s)]
  BY <1>4, <1>5
<1>7. QED
  BY <1>6 DEF Folds

IsWalk(known, n, order, mentioned, score, walk) ==
  /\ walk \in [0 .. n -> Picks(known)]
  /\ walk[0] = NoPick
  /\ \A i \in 1 .. n : walk[i] = Looked(mentioned, score, walk[i - 1], order[i])
  /\ Match(order, mentioned, score)
       = IF walk[n].said \/ walk[n].top >= Threshold THEN walk[n].best ELSE None

(* The choice is what a walk from the first skill to the last ends with.   *)
LEMMA MatchWalks ==
  ASSUME NEW n \in Nat, NEW known, NEW order \in [1 .. n -> known],
         NEW mentioned, NEW score \in [known -> Nat]
  PROVE  \E walk : IsWalk(known, n, order, mentioned, score, walk)
<1> DEFINE
     Look(acc, id) ==
       IF acc.said THEN acc
       ELSE IF id \in mentioned THEN [best |-> id, top |-> 0, said |-> TRUE]
       ELSE IF score[id] > acc.top THEN [acc EXCEPT !.best = id, !.top = score[id]]
       ELSE acc
     found == FoldLeft(Look, NoPick, order)
     Rec(g) == g = [s \in SUBSET DOMAIN order |->
                     IF s = {} THEN NoPick ELSE Look(g[s \ {Max(s)}], order[Max(s)])]
<1>1. found = (CHOOSE g : Rec(g))[DOMAIN order]
  BY DEF FoldLeft, MapThenFoldSet
<1>2. \A g : Rec(g) <=> Folds(order, mentioned, score, g)
  BY DEF Folds, Looked
<1>3. PICK g : Rec(g) /\ found = g[1 .. n]
  <2>1. \E g : Folds(order, mentioned, score, g)
    BY WalkExists
  <2>2. DOMAIN order = 1 .. n
    OBVIOUS
  <2> HIDE DEF Rec, found
  <2>3. QED
    BY <1>1, <1>2, <2>1, <2>2
<1>4. Folds(order, mentioned, score, g)
  <2> HIDE DEF Rec
  <2> QED BY <1>2, <1>3
<1> DEFINE walk == [i \in 0 .. n |-> g[1 .. i]]
<1>5. walk[0] = NoPick
  <2>1. 1 .. 0 = {} /\ {} \in SUBSET DOMAIN order
    OBVIOUS
  <2>2. QED
    BY <1>4, <2>1 DEF Folds
<1>6. ASSUME NEW i \in 1 .. n
      PROVE  walk[i] = Looked(mentioned, score, walk[i - 1], order[i])
  <2>1. 1 .. i \in SUBSET DOMAIN order /\ i \in 1 .. i /\ i - 1 \in 0 .. n
    OBVIOUS
  <2>2. Max(1 .. i) = i
    <3>1. 1 .. i \in SUBSET Nat /\ \A y \in 1 .. i : y <= i
      OBVIOUS
    <3>2. QED
      BY <2>1, <3>1, LastIs
  <2>3. (1 .. i) \ {i} = 1 .. i - 1
    OBVIOUS
  <2>4. g[1 .. i] = Looked(mentioned, score, g[(1 .. i) \ {Max(1 .. i)}], order[Max(1 .. i)])
    BY <1>4, <2>1 DEF Folds
  <2>5. walk[i] = g[1 .. i] /\ walk[i - 1] = g[1 .. i - 1]
    BY <2>1
  <2>6. QED
    <3> HIDE DEF walk
    <3> QED BY <2>2, <2>3, <2>4, <2>5
<1>7. walk \in [0 .. n -> Picks(known)]
  <2> DEFINE S == {i \in 0 .. n : walk[i] \in Picks(known)}
  <2>1. 0 \in S
    <3> HIDE DEF walk
    <3>1. 0 \in 0 .. n /\ NoPick \in Picks(known)
      BY DEF NoPick, Picks
    <3>2. QED
      BY <1>5, <3>1
  <2>2. ASSUME NEW i \in 1 .. n, i - 1 \in S
        PROVE  i \in S
    <3> HIDE DEF walk
    <3>1. walk[i - 1] \in Picks(known) /\ order[i] \in known
      BY <2>2
    <3>2. QED
      BY <1>6, <3>1, LookedTyped
  <2>3. \A i \in 0 .. n : i \in S
    <3> HIDE DEF S
    <3> QED BY <2>1, <2>2, UpTo
  <2>4. QED
    BY <2>3
<1>8. Match(order, mentioned, score)
        = IF walk[n].said \/ walk[n].top >= Threshold THEN walk[n].best ELSE None
  <2>1. Match(order, mentioned, score)
          = IF found.said \/ found.top >= Threshold THEN found.best ELSE None
    BY DEF Match, NoPick
  <2>2. found = walk[n]
    <3>1. walk[n] = g[1 .. n]
      OBVIOUS
    <3> HIDE DEF found, walk, Rec
    <3>2. QED
      BY <1>3, <3>1
  <2> HIDE DEF found, walk
  <2>3. QED
    BY <2>1, <2>2
<1>9. QED
  <2> HIDE DEF walk
  <2> QED BY <1>5, <1>6, <1>7, <1>8 DEF IsWalk

Seen(order, i) == {order[k] : k \in 1 .. i}

(* What the walk holds after i skills: one the input mentions, or a best score. *)
ChoseBest(order, mentioned, score, i, held) ==
  IF mentioned \cap Seen(order, i) # {} THEN held.said /\ held.best \in mentioned
  ELSE /\ ~held.said
       /\ \A id \in Seen(order, i) : score[id] <= held.top
       /\ held.top > 0 => held.best \in Seen(order, i) /\ score[held.best] = held.top

LEMMA LookedKeepsBest ==
  ASSUME NEW known, NEW n \in Nat, NEW order \in [1 .. n -> known], NEW i \in 1 .. n,
         NEW mentioned, NEW score \in [known -> Nat], NEW acc \in Picks(known),
         ChoseBest(order, mentioned, score, i - 1, acc)
  PROVE  ChoseBest(order, mentioned, score, i, Looked(mentioned, score, acc, order[i]))
<1> DEFINE id == order[i]
           held == Looked(mentioned, score, acc, id)
<1>1. Seen(order, i) = Seen(order, i - 1) \cup {id}
  <2>1. 1 .. i = (1 .. i - 1) \cup {i}
    OBVIOUS
  <2>2. QED
    BY <2>1 DEF Seen
<1>2. id \in known /\ Seen(order, i - 1) \subseteq known
  BY DEF Seen
<1>3. CASE mentioned \cap Seen(order, i - 1) # {}
  <2>1. acc.said /\ acc.best \in mentioned
    BY <1>3 DEF ChoseBest
  <2>2. held = acc
    BY <2>1 DEF Looked
  <2>3. mentioned \cap Seen(order, i) # {}
    BY <1>1, <1>3
  <2>4. QED
    BY <2>1, <2>2, <2>3 DEF ChoseBest
<1>4. CASE mentioned \cap Seen(order, i - 1) = {} /\ id \in mentioned
  <2>1. ~acc.said
    BY <1>4 DEF ChoseBest
  <2>2. held = [best |-> id, top |-> 0, said |-> TRUE]
    BY <1>4, <2>1 DEF Looked
  <2>3. mentioned \cap Seen(order, i) # {}
    BY <1>1, <1>4
  <2>4. QED
    BY <1>4, <2>2, <2>3 DEF ChoseBest
<1>5. CASE mentioned \cap Seen(order, i - 1) = {} /\ id \notin mentioned
  <2>1. /\ ~acc.said
        /\ \A x \in Seen(order, i - 1) : score[x] <= acc.top
        /\ acc.top > 0 => acc.best \in Seen(order, i - 1) /\ score[acc.best] = acc.top
    BY <1>5 DEF ChoseBest
  <2>2. mentioned \cap Seen(order, i) = {}
    BY <1>1, <1>5
  <2>3. acc.top \in Nat /\ score[id] \in Nat /\ \A x \in Seen(order, i - 1) : score[x] \in Nat
    BY <1>2 DEF Picks
  <2>4. CASE score[id] > acc.top
    <3>1. held = [acc EXCEPT !.best = id, !.top = score[id]]
      BY <1>5, <2>1, <2>4 DEF Looked
    <3>2. held.best = id /\ held.top = score[id] /\ ~held.said
      BY <2>1, <3>1 DEF Picks
    <3>3. \A x \in Seen(order, i) : score[x] <= score[id]
      BY <1>1, <2>1, <2>3, <2>4
    <3>4. ChoseBest(order, mentioned, score, i, held)
      <4> HIDE DEF held
      <4> QED BY <1>1, <2>2, <3>2, <3>3 DEF ChoseBest
    <3>5. QED
      BY <3>4
  <2>5. CASE ~(score[id] > acc.top)
    <3>1. held = acc
      BY <1>5, <2>1, <2>5 DEF Looked
    <3>2. \A x \in Seen(order, i) : score[x] <= acc.top
      BY <1>1, <2>1, <2>3, <2>5
    <3>3. ChoseBest(order, mentioned, score, i, held)
      <4> HIDE DEF held
      <4> QED BY <1>1, <2>1, <2>2, <3>1, <3>2 DEF ChoseBest
    <3>4. QED
      BY <3>3
  <2>6. QED
    BY <2>4, <2>5
<1>6. QED
  BY <1>3, <1>4, <1>5

(* One the input mentions if there is one, else one of the best score, else none. *)
PicksBest(known, mentioned, score, best) ==
  LET good == {id \in known : score[id] >= Threshold}
  IN IF mentioned # {} THEN best \in mentioned
     ELSE IF good = {} THEN best = None
     ELSE best \in good /\ \A id \in good : score[id] <= score[best]

(* What is chosen of the skills in some order. *)
LEMMA MatchIsBest ==
  ASSUME NEW n \in Nat, NEW known, NEW order \in [1 .. n -> known], Seen(order, n) = known,
         NEW mentioned \in SUBSET known, NEW score \in [known -> Nat]
  PROVE  PicksBest(known, mentioned, score, Match(order, mentioned, score))
<1> DEFINE best == Match(order, mentioned, score)
           good == {id \in known : score[id] >= Threshold}
<1>0. PICK walk : IsWalk(known, n, order, mentioned, score, walk)
  BY MatchWalks
<1>1. /\ walk \in [0 .. n -> Picks(known)]
      /\ walk[0] = NoPick
      /\ \A i \in 1 .. n : walk[i] = Looked(mentioned, score, walk[i - 1], order[i])
      /\ Match(order, mentioned, score)
           = IF walk[n].said \/ walk[n].top >= Threshold THEN walk[n].best ELSE None
  BY <1>0 DEF IsWalk
<1>2. ChoseBest(order, mentioned, score, n, walk[n])
  <2> DEFINE S == {i \in 0 .. n : ChoseBest(order, mentioned, score, i, walk[i])}
  <2>1. 0 \in S
    <3>1. 0 \in 0 .. n /\ Seen(order, 0) = {}
      BY DEF Seen
    <3>2. ChoseBest(order, mentioned, score, 0, NoPick)
      BY <3>1 DEF ChoseBest, NoPick
    <3>3. QED
      BY <1>1, <3>1, <3>2
  <2>2. ASSUME NEW i \in 1 .. n, i - 1 \in S
        PROVE  i \in S
    <3>1. walk[i - 1] \in Picks(known) /\ ChoseBest(order, mentioned, score, i - 1, walk[i - 1])
      BY <1>1, <2>2
    <3>2. i \in 0 .. n /\ walk[i] = Looked(mentioned, score, walk[i - 1], order[i])
      BY <1>1
    <3>3. ChoseBest(order, mentioned, score, i, Looked(mentioned, score, walk[i - 1], order[i]))
      BY <3>1, LookedKeepsBest
    <3>4. QED
      BY <3>2, <3>3
  <2>3. n \in S
    <3> HIDE DEF S
    <3> QED BY <2>1, <2>2, UpTo
  <2>4. QED
    BY <2>3
<1>3. walk[n].top \in Nat /\ Threshold \in Nat /\ Threshold > 0
  <2>1. walk[n] \in Picks(known)
    BY <1>1
  <2>2. walk[n].top \in Nat
    BY <2>1 DEF Picks
  <2>3. Threshold \in Nat \ {0}
    BY SkillsAssumption
  <2>4. QED
    BY <2>2, <2>3
<1>4. CASE mentioned # {}
  <2>1. walk[n].said /\ walk[n].best \in mentioned
    BY <1>2, <1>4 DEF ChoseBest
  <2>2. QED
    BY <1>1, <1>4, <2>1 DEF PicksBest
<1>5. CASE mentioned = {}
  <2>1. /\ ~walk[n].said
        /\ \A id \in known : score[id] <= walk[n].top
        /\ walk[n].top > 0 => walk[n].best \in known /\ score[walk[n].best] = walk[n].top
    BY <1>2, <1>5 DEF ChoseBest
  <2>2. CASE walk[n].top >= Threshold
    <3>1. best = walk[n].best
      BY <1>1, <2>2
    <3>2. best \in known /\ score[best] = walk[n].top
      BY <1>3, <2>1, <2>2, <3>1
    <3>3. best \in good
      BY <2>2, <3>2
    <3>4. QED
      BY <1>5, <2>1, <3>2, <3>3 DEF PicksBest
  <2>3. CASE ~(walk[n].top >= Threshold)
    <3>1. best = None
      BY <1>1, <2>1, <2>3
    <3>2. ASSUME NEW id \in known
          PROVE  ~(score[id] >= Threshold)
      <4>1. score[id] \in Nat /\ score[id] <= walk[n].top
        BY <2>1
      <4>2. QED
        BY <1>3, <2>3, <4>1
    <3>3. good = {}
      BY <3>2
    <3>4. QED
      BY <1>5, <3>1, <3>3 DEF PicksBest
  <2>4. QED
    BY <2>2, <2>3
<1>6. QED
  BY <1>4, <1>5

(* An order of a set of skills passes each of them. *)
LEMMA OrderIsWhole ==
  ASSUME NEW known, IsFiniteSet(known), NEW order \in SetToSeqs(known)
  PROVE  \E n \in Nat : order \in [1 .. n -> known] /\ Seen(order, n) = known
<1> DEFINE n == Cardinality(known)
<1>1. n \in Nat
  BY FS_CardinalityType
<1>2. /\ order \in [1 .. n -> known]
      /\ \A i, j \in 1 .. n : i # j => order[i] # order[j]
  BY DEF SetToSeqs
<1> HIDE DEF n
<1>3. ASSUME NEW id \in known, id \notin Seen(order, n)
      PROVE  FALSE
  <2>1. order \in [1 .. n -> known \ {id}]
    BY <1>2, <1>3 DEF Seen
  <2>2. IsFiniteSet(known \ {id}) /\ Cardinality(known \ {id}) = n - 1
    BY FS_RemoveElement DEF n
  <2>3. IsFiniteSet(1 .. n) /\ Cardinality(1 .. n) = n
    <3>1. 1 \in Int /\ n \in Int
      BY <1>1
    <3>2. /\ IsFiniteSet(1 .. n)
          /\ Cardinality(1 .. n) = IF 1 > n THEN 0 ELSE n - 1 + 1
      BY <3>1, FS_Interval
    <3>3. QED
      BY <1>1, <3>2
  <2>4. Cardinality(known \ {id}) < Cardinality(1 .. n)
    BY <1>1, <2>2, <2>3
  <2>5. \E i, j \in 1 .. n : i # j /\ order[i] = order[j]
    BY <2>1, <2>2, <2>3, <2>4, FS_PigeonHole
  <2>6. QED
    BY <1>2, <2>5
<1>4. Seen(order, n) \subseteq known
  BY <1>2 DEF Seen
<1>5. QED
  BY <1>1, <1>2, <1>3, <1>4

LEMMA IdsAreFinite == IsFiniteSet(Ids)
<1>1. Names \in Seq(Dirs) /\ Dirs = {Names[i] : i \in DOMAIN Names}
  BY SkillsAssumption DEF Dirs, ToSet
<1>2. Len(Names) \in Nat /\ DOMAIN Names = 1 .. Len(Names) /\ Names \in [1 .. Len(Names) -> Dirs]
  BY <1>1
<1>3. Names \in Surjection(1 .. Len(Names), Dirs)
  BY <1>1, <1>2 DEF Surjection
<1>4. IsFiniteSet(1 .. Len(Names))
  BY <1>2, FS_Interval
<1>5. IsFiniteSet(Dirs)
  BY <1>3, <1>4, FS_Surjection
<1>6. QED
  BY <1>5, FS_AddElement DEF Ids

(* The skill of a chat is one the input mentions, or one of the best score *)
(* that reaches the threshold, whatever the order of the map; and it leaves *)
(* the chat the registered tools it names, never none.                     *)
LEMMA MatchPicks == MatchPicksBest
<1> DEFINE known == {id \in Ids : skills[id] # None}
<1>1. IsFiniteSet(known)
  BY IdsAreFinite, FS_Subset
<1>2. SUFFICES ASSUME NEW order \in SetToSeqs(known), NEW mentioned \in SUBSET known,
                      NEW score \in [known -> Scores]
      PROVE  LET best == Match(order, mentioned, score)
                 good == {id \in known : score[id] >= Threshold}
             IN /\ IF mentioned # {} THEN best \in mentioned
                   ELSE IF good = {} THEN best = None
                   ELSE best \in good /\ \A id \in good : score[id] <= score[best]
                /\ best # None => \A all \in SUBSET Tools :
                     LET offered == FilterTools(skills[best], all)
                     IN ToolsOf(skills[best]) \cap all \subseteq offered /\ (all # {} => offered # {})
  BY DEF MatchPicksBest
<1> HIDE DEF known
<1>3. PICK n \in Nat : order \in [1 .. n -> known] /\ Seen(order, n) = known
  BY <1>1, <1>2, OrderIsWhole
<1>4. score \in [known -> Nat]
  BY <1>2, SkillsAssumption
<1>5. PicksBest(known, mentioned, score, Match(order, mentioned, score))
  BY <1>3, <1>4, MatchIsBest
<1>6. \A skill : \A all \in SUBSET Tools :
        LET offered == FilterTools(skill, all)
        IN ToolsOf(skill) \cap all \subseteq offered /\ (all # {} => offered # {})
  BY DEF FilterTools
<1>7. QED
  BY <1>5, <1>6 DEF PicksBest

THEOREM MatchAlwaysPicksBest == SkillsSpec => []MatchPicksBest
<1>1. MatchPicksBest
  BY MatchPicks
<1>2. QED
  BY <1>1, PTL
================================================================================
