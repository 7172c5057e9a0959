--------------------------------- MODULE Skills ---------------------------------
(***************************************************************************)
(* The skills of domain/skill: directories with a SKILL.md, installed,     *)
(* removed and read by requests that hold no lock while they touch the     *)
(* disk, and the map of skills that a reload puts in place at its end.     *)
(*                                                                         *)
(* A file step is one step.  A package is a skill outside the root: the    *)
(* name of its directory, the id its frontmatter gives and the tools it    *)
(* names.  A directory of the root can be installed too, as any other.     *)
(* Ids are names too; "" is what sanitizeID leaves of an id without a      *)
(* letter it knows.  Bare is a directory without SKILL.md; Blank is one    *)
(* whose SKILL.md is created and still empty, which parses.                *)
(***************************************************************************)
EXTENDS Naturals, Sequences, SequencesExt, FiniteSets

CONSTANTS
  Names,        \* names of skill directories, in the order a directory lists
  Packages,     \* what can be installed from outside: [base, id, tools]
  Requests,     \* HTTP requests, each for one operation
  Tools,        \* names of registered tools
  Scores,       \* scores of a skill for an input (MatchScore)
  Threshold,    \* score below which no skill is active (15 in the code)
  None, Bare, Blank

Dirs == ToSet(Names)
Ids == Dirs \cup {""}

ASSUME SkillsAssumption ==
  /\ Names \in Seq(Dirs) /\ IsInjective(Names) /\ "" \notin Dirs /\ None \notin Ids
  /\ \A p \in Packages :
       p.base \in Ids /\ p.id \in Ids \cup {None} /\ p.tools \subseteq Tools
  /\ Bare # None /\ Blank \notin {None, Bare} /\ {None, Bare, Blank} \cap Packages = {}
  /\ None \notin [dir : Dirs, from : {Blank} \cup Packages]
  /\ Scores \subseteq Nat /\ Threshold \in Nat \ {0}

VARIABLES
  disk,      \* what each directory of the root holds
  skills,    \* the map in memory: the skill of each id, or None
  req,       \* each request
  started,   \* scans of the disk begun so far
  served,    \* history: the scan whose result is in memory
  unseen     \* history: a request failed, and no scan has begun since

skillsVars == <<disk, skills, req, started, served, unseen>>

--------------------------------------------------------------------------------
(* Reading a directory *)

Parsed(content) == content \notin {None, Bare}

(* The id of the skill in directory d: of its frontmatter, or its name.    *)
IdOf(d, content) ==
  IF content \in Packages /\ content.id # None THEN content.id ELSE d

Skill(d, content) == [dir |-> d, from |-> content]
NoSkills == [id \in Ids |-> None]

ToolsOf(skill) == IF skill.from = Blank THEN {} ELSE skill.from.tools

Put(loaded, d) ==
  IF Parsed(disk[d]) THEN [loaded EXCEPT ![IdOf(d, disk[d])] = Skill(d, disk[d])]
  ELSE loaded

(* The directories of an id, by their places in Names, and the skill a     *)
(* reload finds of it if nobody disturbs it: the last of them.             *)
PlacesOf(id) ==
  {i \in DOMAIN Names : Parsed(disk[Names[i]]) /\ IdOf(Names[i], disk[Names[i]]) = id}

LastAmong(places) ==
  IF places = {} THEN None
  ELSE LET d == Names[Max(places)] IN Skill(d, disk[d])

OnDisk == [id \in Ids |-> LastAmong(PlacesOf(id))]

--------------------------------------------------------------------------------
(* Choosing the skill of a chat: one walk over the map, in any order *)

Match_MentionAddsUp(order, mentioned, score) ==
  LET Weight(id) == score[id] + (IF id \in mentioned THEN Threshold ELSE 0)
      Look(acc, id) ==
        IF Weight(id) > acc.top THEN [best |-> id, top |-> Weight(id)] ELSE acc
      found == FoldLeft(Look, [best |-> None, top |-> 0], order)
  IN IF found.top >= Threshold THEN found.best ELSE None

(* A skill the input mentions ends the walk; else the best score counts.   *)
Match(order, mentioned, score) ==
  LET Look(acc, id) ==
        IF acc.said THEN acc
        ELSE IF id \in mentioned THEN [best |-> id, top |-> 0, said |-> TRUE]
        ELSE IF score[id] > acc.top THEN [acc EXCEPT !.best = id, !.top = score[id]]
        ELSE acc
      found == FoldLeft(Look, [best |-> None, top |-> 0, said |-> FALSE], order)
  IN IF found.said \/ found.top >= Threshold THEN found.best ELSE None

(* The tools offered to a chat with that skill, of those registered.  Names *)
(* that contain each other are the same tool here.                         *)
FilterTools(skill, all) ==
  LET kept == ToolsOf(skill) \cap all IN IF kept = {} THEN all ELSE kept

--------------------------------------------------------------------------------
(* Requests *)

Idle == [kind |-> "none", at |-> "idle", dst |-> None, source |-> None, text |-> None,
         todo |-> {}, loaded |-> NoSkills, number |-> 0, alone |-> TRUE]

SkillsInit ==
  /\ disk \in [Dirs -> {None} \cup Packages]
  /\ skills = OnDisk                        \* NewSkillService reloads
  /\ req = [r \in Requests |-> Idle]
  /\ started = 0 /\ served = 0 /\ unseen = FALSE

Active(r) == req[r].at \notin {"idle", "over"}
At(r, where) == req[r].at = where
Becomes(r, local) == req' = [req EXCEPT ![r] = local]
Moves(r, where) == Becomes(r, [req[r] EXCEPT !.at = where])
Ends(r) == Becomes(r, [Idle EXCEPT !.at = "over"])

(* history: a request that meets another one is not alone.                 *)
Begins(r, local) ==
  LET others == {o \in Requests \ {r} : Active(o)}
  IN /\ req' = [o \in Requests |->
          IF o = r THEN [local EXCEPT !.alone = others = {}]
          ELSE IF o \in others THEN [req[o] EXCEPT !.alone = FALSE] ELSE req[o]]
     /\ UNCHANGED <<disk, skills, started, served, unseen>>

(* What is installed, as it is parsed first, and the id that gives it: a   *)
(* package, or what directory src of the root holds.                       *)
Sources ==
  {[src |-> None, package |-> p, own |-> IdOf(p.base, p)] : p \in Packages} \cup
  {[src |-> d, package |-> disk[d], own |-> IdOf(d, disk[d])] : d \in {e \in Dirs : Parsed(disk[e])}}

(* It is copied to the directory of the id asked for, or of its own; an id *)
(* nothing is left of names the root itself.                               *)
Install(r, source, id) ==
  /\ At(r, "idle") /\ source \in Sources
  /\ Begins(r, [Idle EXCEPT !.kind = "install", !.at = "mkdir", !.source = source,
                !.dst = IF id # None THEN id ELSE source.own])

(* An id that names no directory there is (or nothing) is refused.         *)
Uninstall(r, id) ==
  /\ At(r, "idle")
  /\ Begins(r, IF id \in {d \in Dirs : disk[d] # None}
               THEN [Idle EXCEPT !.kind = "uninstall", !.at = "remove", !.dst = id]
               ELSE [Idle EXCEPT !.at = "over"])

Reload(r) ==
  /\ At(r, "idle")
  /\ Begins(r, [Idle EXCEPT !.kind = "reload", !.at = "reload"])

Into(r) == req[r].dst
From(r) == req[r].source.src

(* copyDir: the directory is made unless it is there ...                   *)
MakeDir(r) ==
  /\ At(r, "mkdir")
  /\ disk' = IF Into(r) \in Dirs /\ disk[Into(r)] = None
             THEN [disk EXCEPT ![Into(r)] = Bare] ELSE disk
  /\ Moves(r, "create")
  /\ UNCHANGED <<skills, started, served, unseen>>

Emptied(d) == IF d \in Dirs THEN [disk EXCEPT ![d] = Blank] ELSE disk

CreateFile_KeepsOld(r) ==
  LET kept == Into(r) \in {d \in Dirs : Parsed(disk[d])}
  IN /\ At(r, "create") /\ From(r) = None
     /\ disk' = IF kept THEN disk ELSE Emptied(Into(r))
     /\ Becomes(r, [req[r] EXCEPT !.at = IF kept THEN "reload" ELSE "write",
                                   !.text = IF kept THEN None ELSE req[r].source.package])
     /\ UNCHANGED <<skills, started, served, unseen>>

(* ... its SKILL.md is emptied or made, with its directory if that is      *)
(* gone, once the file to copy is open: which may be the one it empties.   *)
(* A directory that has lost its file leaves nothing to copy.              *)
CreateFile(r) ==
  LET file == IF From(r) = None THEN req[r].source.package ELSE disk[From(r)]
  IN /\ At(r, "create") /\ file # None
     /\ IF Parsed(file)
        THEN /\ disk' = Emptied(Into(r))
             /\ Becomes(r, [req[r] EXCEPT !.at = IF From(r) = None THEN "write" ELSE "read",
                                           !.text = IF From(r) = Into(r) THEN Blank ELSE file])
        ELSE Moves(r, "reload") /\ UNCHANGED disk
     /\ UNCHANGED <<skills, started, served, unseen>>

(* What is read of an open file of the root is what it held, or what was   *)
(* written to it since ...                                                 *)
ReadFile(r) ==
  /\ At(r, "read")
  /\ \E text \in {req[r].text} \cup {c \in {disk[From(r)]} : Parsed(c)} :
       Becomes(r, [req[r] EXCEPT !.at = "write", !.text = text])
  /\ UNCHANGED <<disk, skills, started, served, unseen>>

(* ... and is put into the new one, unless that was removed meanwhile.  Of *)
(* two installs into one directory the later write stands; one of nothing  *)
(* leaves the file as it is.                                               *)
WriteFile(r) ==
  /\ At(r, "write")
  /\ disk' = IF Into(r) \in Dirs /\ Parsed(disk[Into(r)]) /\ req[r].text # Blank
             THEN [disk EXCEPT ![Into(r)] = req[r].text] ELSE disk
  /\ Becomes(r, [req[r] EXCEPT !.at = "reload", !.text = None])
  /\ UNCHANGED <<skills, started, served, unseen>>

RemoveDir_Enough(r) ==
  /\ At(r, "remove")
  /\ disk' = [disk EXCEPT ![Into(r)] = IF Parsed(@) THEN Bare ELSE None]
  /\ IF Parsed(disk[Into(r)]) THEN Moves(r, "remove") ELSE Ends(r)
  /\ UNCHANGED <<skills, started, served, unseen>>

(* RemoveAll: the file, then the directory, again if something came back.  *)
RemoveDir(r) ==
  /\ At(r, "remove")
  /\ disk' = [disk EXCEPT ![Into(r)] = IF Parsed(@) THEN Bare ELSE None]
  /\ Moves(r, IF Parsed(disk[Into(r)]) THEN "remove" ELSE "reload")
  /\ UNCHANGED <<skills, started, served, unseen>>

(* The directories are listed ...                                          *)
ListDirs(r) ==
  LET there == {i \in DOMAIN Names : disk[Names[i]] # None}
  IN /\ At(r, "reload")
     /\ started' = started + 1 /\ unseen' = FALSE
     /\ Becomes(r, [req[r] EXCEPT !.at = "scan", !.todo = there, !.number = started + 1])
     /\ UNCHANGED <<disk, skills, served>>

(* ... read one after the other, the later of one id counting ...          *)
ReadNext(r) ==
  /\ At(r, "scan")
  /\ \E i \in req[r].todo :
       /\ \A j \in req[r].todo : i <= j
       /\ Becomes(r, [req[r] EXCEPT !.todo = @ \ {i}, !.loaded = Put(@, Names[i])])
  /\ UNCHANGED <<disk, skills, started, served, unseen>>

(* ... and put in place.                                                   *)
Swap(r) ==
  /\ At(r, "scan") /\ req[r].todo = {}
  /\ skills' = req[r].loaded /\ served' = req[r].number
  /\ IF req[r].kind = "install"
     THEN Becomes(r, [req[r] EXCEPT !.at = "answer", !.loaded = NoSkills, !.number = 0])
     ELSE Ends(r)
  /\ UNCHANGED <<disk, started, unseen>>

(* An install answers with the skill of the id asked for, or of the        *)
(* package's own, or with an error when there is neither.                  *)
Found(r) ==
  IF skills[Into(r)] # None THEN skills[Into(r)]
  ELSE skills[req[r].source.own]

Answer(r) ==
  /\ At(r, "answer")
  /\ Ends(r)
  /\ UNCHANGED <<disk, skills, started, served, unseen>>

(* A file step fails: the request ends there, without a reload.            *)
Fail(r) ==
  /\ req[r].at \in {"mkdir", "create", "read", "write", "remove", "reload"}
  /\ Ends(r)
  /\ unseen' = TRUE
  /\ UNCHANGED <<disk, skills, started, served>>

Step(r) ==
  \/ \E source \in Sources, id \in Ids \cup {None} : Install(r, source, id)
  \/ \E id \in Ids : Uninstall(r, id)
  \/ Reload(r)
  \/ MakeDir(r) \/ CreateFile(r) \/ ReadFile(r) \/ WriteFile(r) \/ RemoveDir(r)
  \/ ListDirs(r) \/ ReadNext(r) \/ Swap(r) \/ Answer(r) \/ Fail(r)

SkillsNext == \E r \in Requests : Step(r)

SkillsSpec == SkillsInit /\ [][SkillsNext]_skillsVars

--------------------------------------------------------------------------------
(* Properties *)

SkillsTypeOK ==
  LET Held == {Blank} \cup Packages
      View == [Ids -> {None} \cup [dir : Dirs, from : Held]]
  IN /\ disk \in [Dirs -> {None, Bare} \cup Held]
     /\ skills \in View
     /\ started \in Nat /\ served \in 0 .. started /\ unseen \in BOOLEAN
     /\ \A r \in Requests :
          /\ DOMAIN req[r] = DOMAIN Idle
          /\ req[r].loaded \in View /\ req[r].number \in 0 .. started

(* When no request is under way, the skills in memory are those on the     *)
(* disk, however requests overlapped, unless an older scan came in last    *)
(* (reload holds no lock) or a request failed half way and reloads not.    *)
ViewIsFresh ==
  /\ SkillsTypeOK
  /\ (\A r \in Requests : ~Active(r)) /\ served = started /\ ~unseen => skills = OnDisk

(* An install no other request meets answers with the skill it was given,  *)
(* in its new directory; unless the id asked for, or that skill's, belongs *)
(* to another directory too, or nothing is left of the id asked for.  But  *)
(* one that is installed from its own directory, although it is meant to   *)
(* come from outside (skill_service.go:118), is answered emptied: the file *)
(* is truncated before it is read.                                         *)
InstallAnswersTruly ==
  \A r \in Requests : At(r, "answer") /\ req[r].alone /\ Into(r) # "" =>
    LET held == IF From(r) = Into(r) THEN Blank ELSE req[r].source.package
    IN \/ Found(r) = Skill(Into(r), held)
       \/ \E d \in Dirs \ {Into(r)} :
            Parsed(disk[d]) /\ IdOf(d, disk[d]) \in {Into(r), IdOf(Into(r), held)}

(* Whatever the order of the walk over the map, a chat gets a skill its    *)
(* input mentions if there is one, else one of the best score, else none,  *)
(* and the skill leaves it the registered tools it names, never no tools.  *)
(* (Checked in the maps the process may start with.)                       *)
MatchPicksBest ==
  LET known == {id \in Ids : skills[id] # None}
  IN (\A r \in Requests : At(r, "idle")) =>
       \A order \in SetToSeqs(known), mentioned \in SUBSET known, score \in [known -> Scores] :
         LET best == Match(order, mentioned, score)
             good == {id \in known : score[id] >= Threshold}
         IN /\ IF mentioned # {} THEN best \in mentioned
               ELSE IF good = {} THEN best = None
               ELSE best \in good /\ \A id \in good : score[id] <= score[best]
            /\ best # None => \A all \in SUBSET Tools :
                 LET offered == FilterTools(skills[best], all)
                 IN ToolsOf(skills[best]) \cap all \subseteq offered /\ (all # {} => offered # {})
================================================================================
