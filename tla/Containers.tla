----------------------------- MODULE Containers -----------------------------
(***************************************************************************)
(* What an item needs before it can be written, and the fields that refer  *)
(* to it: the group, the project, labels and milestones.  EnsureRepo,      *)
(* EnsureLabels, the cache of milestones and the fields Create and Update  *)
(* write, in forge/gitlab/gitlab.go and forge/github/target.go, one action *)
(* per call of the API, with several runs and people at it at once.        *)
(*                                                                         *)
(* Runs in flight at once take different items here: what becomes of two   *)
(* that take the same one is in Mirror.                                    *)
(***************************************************************************)
EXTENDS Integers, Sequences, FiniteSets

CONSTANTS
    Runs,     \* runs that may be in flight at once
    Targets,  \* the forges looked at, of "gitlab" and "github"
    Items,
    Labels,
    Titles,   \* titles of milestones
    NoTitle,  \* the empty one
    MaxActs   \* bound: changes made by people

ASSUME ContainersAssumption ==
    /\ Targets \subseteq {"gitlab", "github"}
    /\ Items \subseteq Nat \ {0}
    /\ NoTitle \notin Titles
    /\ MaxActs \in Nat

VARIABLES
    target,      \* the forge written to
    acts,        \* changes made by people so far
    source,      \* source[i]: the labels of item i and its milestone's title
    touched,     \* items changed since a run last listed them
    renamed,     \* renamed[i]: milestones that lost the title item i has, since a run listed it
    without,     \* items written without theirs, refused as existing and then not there
    group,       \* is the group there
    project,     \* is the project, or the repository, there
    labels,      \* the labels it knows
    milestones,  \* the titles of its milestones, by id
    copies,      \* copies[i]: the labels of the copy of i and its milestone's id
    pc,          \* pc[p]: where run p is
    run          \* run[p]: what it keeps

containers == <<group, project, labels, milestones>>
vars == <<target, acts, source, touched, renamed, without, containers, copies, pc, run>>

NoFields == [labels |-> {}, title |-> NoTitle]
NoItem == [n |-> 0, labels |-> {}, title |-> NoTitle]
NoMilestones == [t \in Titles |-> 0]
NoRun == [listed |-> {}, batch |-> {}, want |-> {}, item |-> NoItem,
          asked |-> FALSE, ids |-> NoMilestones, id |-> 0]

Init ==
    /\ target \in Targets
    /\ acts = 0
    /\ source = [i \in Items |-> NoFields]
    /\ touched = {} /\ without = {}
    /\ renamed = [i \in Items |-> {}]
    /\ group = FALSE /\ project = FALSE
    /\ labels = {} /\ milestones = <<>>
    /\ copies = [i \in Items |-> [labels |-> {}, id |-> 0]]
    /\ pc = [p \in Runs |-> "idle"]
    /\ run = [p \in Runs |-> NoRun]

-----------------------------------------------------------------------------
(* People. *)

Act ==
    /\ acts < MaxActs
    /\ acts' = acts + 1
    /\ UNCHANGED <<target, without, copies, pc, run>>

Edit(i, fields) ==
    /\ Act
    /\ source' = [source EXCEPT ![i] = fields]
    /\ touched' = touched \cup {i}
    /\ UNCHANGED <<renamed, containers>>

Label(i) == \E ls \in SUBSET Labels \ {source[i].labels} :
    Edit(i, [source[i] EXCEPT !.labels = ls])

Plan(i) == \E t \in (Titles \cup {NoTitle}) \ {source[i].title} :
    Edit(i, [source[i] EXCEPT !.title = t])

Taken(t) == \E id \in DOMAIN milestones : milestones[id] = t

NewMilestone(t) ==
    /\ Act
    /\ project /\ ~Taken(t)
    /\ milestones' = Append(milestones, t)
    /\ UNCHANGED <<source, touched, renamed, group, project, labels>>

(* Who renames one decides what the copies that have it show from then on, and may
   come between the calls of a run. *)
Rename(id) == \E t \in Titles :
    /\ Act
    /\ ~Taken(t)
    /\ milestones' = [milestones EXCEPT ![id] = t]
    /\ renamed' = [i \in Items |->
           IF source[i].title = milestones[id] THEN renamed[i] \cup {id} ELSE renamed[i]]
    /\ UNCHANGED <<source, touched, group, project, labels>>

-----------------------------------------------------------------------------
(* A run, and the repository it needs. *)

Going(p) == pc[p] # "idle"

(* Runs at once take different items. *)
Free == touched \ UNION {run[q].listed : q \in {q \in Runs : Going(q)}}

(* Mutant: the labels of one of the items. *)
labelsOfOne(batch) == IF batch = {} THEN {} ELSE (CHOOSE b \in batch : TRUE).labels

labelsOf(batch) == UNION {b.labels : b \in batch}

StartRun(p) ==
    LET batch == {[n |-> i, labels |-> source[i].labels, title |-> source[i].title] : i \in Free}
    IN  /\ ~Going(p)
        /\ Free # {}
        /\ run' = [run EXCEPT ![p].listed = Free, ![p].batch = batch,
                              ![p].want = labelsOf(batch)]
        /\ pc' = [pc EXCEPT ![p] = "repo"]
        /\ touched' = touched \ Free
        /\ renamed' = [i \in Items |-> IF i \in Free THEN {} ELSE renamed[i]]
        /\ without' = without \ Free
        /\ UNCHANGED <<target, acts, source, containers, copies>>

Goto(p, next) == pc' = [pc EXCEPT ![p] = next]

same == <<target, acts, source, touched, renamed, without, copies, run>>

(* GitLab: a project that is not there needs the group's id. *)
FindProject(p) ==
    /\ target = "gitlab" /\ pc[p] = "repo"
    /\ Goto(p, IF project THEN "labels" ELSE "group")
    /\ UNCHANGED <<same, containers>>

FindGroup(p) ==
    /\ pc[p] = "group"
    /\ Goto(p, IF group THEN "project" ELSE "new group")
    /\ UNCHANGED <<same, containers>>

MakeGroup(p) ==
    /\ pc[p] = "new group"
    /\ Goto(p, IF group THEN "group again" ELSE "project")
    /\ group' = TRUE
    /\ UNCHANGED <<same, project, labels, milestones>>

FindGroupAgain(p) ==
    /\ pc[p] = "group again"
    /\ Goto(p, IF group THEN "project" ELSE "failed")
    /\ UNCHANGED <<same, containers>>

(* Mutant: a project that is there by now is an error. *)
MakeProjectOrFail(p) ==
    /\ pc[p] = "project"
    /\ Goto(p, IF project THEN "failed" ELSE "labels")
    /\ project' = TRUE
    /\ UNCHANGED <<same, group, labels, milestones>>

MakeProject(p) ==
    /\ pc[p] = "project"
    /\ Goto(p, IF project THEN "project again" ELSE "labels")
    /\ project' = TRUE
    /\ UNCHANGED <<same, group, labels, milestones>>

FindProjectAgain(p) ==
    /\ pc[p] = "project again"
    /\ Goto(p, IF project THEN "labels" ELSE "failed")
    /\ UNCHANGED <<same, containers>>

(* GitHub: whoever owns it is there, and a lost race is an error. *)
FindRepository(p) ==
    /\ target = "github" /\ pc[p] = "repo"
    /\ Goto(p, IF project THEN "labels" ELSE "repository")
    /\ UNCHANGED <<same, containers>>

MakeRepository(p) ==
    /\ pc[p] = "repository"
    /\ Goto(p, IF project THEN "failed" ELSE "labels")
    /\ project' = TRUE
    /\ UNCHANGED <<same, group, labels, milestones>>

-----------------------------------------------------------------------------
(* Labels and milestones. *)

(* Mutant: a label that exists is an error. *)
MakeLabelOnce(p) == \E l \in run[p].want :
    /\ pc[p] = "labels"
    /\ labels' = labels \cup {l}
    /\ run' = [run EXCEPT ![p].want = @ \ {l}]
    /\ pc' = IF l \in labels THEN [pc EXCEPT ![p] = "failed"] ELSE pc
    /\ UNCHANGED <<target, acts, source, touched, renamed, without, copies, group, project, milestones>>

(* One after the other; that one is there already is the usual answer. *)
MakeLabel(p) == \E l \in run[p].want :
    /\ pc[p] = "labels"
    /\ labels' = labels \cup {l}
    /\ run' = [run EXCEPT ![p].want = @ \ {l}]
    /\ UNCHANGED <<target, acts, source, touched, renamed, without, copies, group, project, milestones, pc>>

LabelsDone(p) ==
    /\ pc[p] = "labels" /\ run[p].want = {}
    /\ Goto(p, "next")
    /\ UNCHANGED <<same, containers>>

Keep(p, r, next) ==
    /\ run' = [run EXCEPT ![p] = r]
    /\ Goto(p, next)
    /\ UNCHANGED <<target, acts, source, touched, renamed, copies>>

(* What the cache has for the item in hand, once the repository was asked. *)
Lookup(p, r) == IF r.ids[r.item.title] = 0
                THEN Keep(p, r, "new milestone")
                ELSE Keep(p, [r EXCEPT !.id = r.ids[r.item.title]], "write")

(* No title needs no milestone. *)
TakeItem(p) == \E b \in run[p].batch :
    LET r == [run[p] EXCEPT !.batch = @ \ {b}, !.item = b]
    IN  /\ pc[p] = "next"
        /\ \/ b.title = NoTitle /\ Keep(p, r, "write")
           \/ b.title # NoTitle /\ ~r.asked /\ Keep(p, r, "milestones")
           \/ b.title # NoTitle /\ r.asked /\ Lookup(p, r)
        /\ UNCHANGED <<without, containers>>

(* The ids by title. *)
Listing == [t \in Titles |-> IF Taken(t) THEN CHOOSE id \in DOMAIN milestones : milestones[id] = t
                                         ELSE 0]

ListMilestones(p) ==
    /\ pc[p] = "milestones"
    /\ Lookup(p, [run[p] EXCEPT !.asked = TRUE, !.ids = Listing])
    /\ UNCHANGED <<without, containers>>

(* Mutant: the answer is taken for a new milestone whatever it was. *)
MakeMilestoneBlindly(p) == LET t == run[p].item.title   id == Len(milestones) + 1 IN
    /\ pc[p] = "new milestone"
    /\ milestones' = IF Taken(t) THEN milestones ELSE Append(milestones, t)
    /\ Keep(p, [run[p] EXCEPT !.ids[t] = id, !.id = id], "write")
    /\ UNCHANGED <<without, group, project, labels>>

(* Made, or made by somebody since the listing. *)
MakeMilestone(p) == LET t == run[p].item.title   id == Len(milestones) + 1 IN
    /\ pc[p] = "new milestone"
    /\ \/ /\ ~Taken(t)
          /\ milestones' = Append(milestones, t)
          /\ Keep(p, [run[p] EXCEPT !.ids[t] = id, !.id = id], "write")
       \/ /\ Taken(t)
          /\ Keep(p, run[p], "milestones again")
          /\ UNCHANGED milestones
    /\ UNCHANGED <<without, group, project, labels>>

(* Refused as existing and then not there: the item goes without. *)
ListAgain(p) == LET id == Listing[run[p].item.title] IN
    /\ pc[p] = "milestones again"
    /\ Keep(p, [run[p] EXCEPT !.ids = Listing, !.id = id], "write")
    /\ without' = IF id = 0 THEN without \cup {run[p].item.n} ELSE without
    /\ UNCHANGED containers

-----------------------------------------------------------------------------
(* The fields of Create and Update. *)

Written(p, ls) ==
    /\ copies' = [copies EXCEPT ![run[p].item.n] =
                     [labels |-> ls, id |-> IF run[p].id = 0 THEN @.id ELSE run[p].id]]
    /\ run' = [run EXCEPT ![p].item = NoItem, ![p].id = 0]
    /\ Goto(p, "next")
    /\ UNCHANGED <<target, acts, source, touched, renamed, without, containers>>

(* No labels are not sent, and neither is no milestone. *)
WriteGitLab(p) == LET ls == run[p].item.labels IN
    /\ target = "gitlab" /\ pc[p] = "write"
    /\ Written(p, IF ls = {} THEN copies[run[p].item.n].labels ELSE ls)

(* No labels leave those that are there alone, or replace them, as the client sends
   a slice that is empty and not nil. *)
WriteGitHub(p) == LET ls == run[p].item.labels IN
    /\ target = "github" /\ pc[p] = "write"
    /\ \/ ls = {} /\ Written(p, copies[run[p].item.n].labels)
       \/ Written(p, ls)

(* Mutant: the milestones it asked for are kept for the next run. *)
FinishKept(p) ==
    /\ pc[p] = "next" /\ run[p].batch = {}
    /\ Goto(p, "idle")
    /\ run' = [run EXCEPT ![p] = [NoRun EXCEPT !.asked = run[p].asked, !.ids = run[p].ids]]
    /\ UNCHANGED <<target, acts, source, touched, renamed, without, containers, copies>>

(* The program exits, and what it knew goes with it. *)
FinishRun(p) ==
    /\ pc[p] = "next" /\ run[p].batch = {}
    /\ Goto(p, "idle")
    /\ run' = [run EXCEPT ![p] = NoRun]
    /\ UNCHANGED <<target, acts, source, touched, renamed, without, containers, copies>>

(* What it listed is left to the next run. *)
Relist(p) ==
    /\ touched' = touched \cup run[p].listed
    /\ run' = [run EXCEPT ![p] = NoRun]
    /\ Goto(p, "idle")
    /\ UNCHANGED <<target, acts, source, renamed, without, containers, copies>>

GiveUp(p) == pc[p] = "failed" /\ Relist(p)

(* It is killed, or a call fails. *)
Crash(p) == Going(p) /\ pc[p] # "failed" /\ Relist(p)

-----------------------------------------------------------------------------

People ==
    \/ \E i \in Items : Label(i) \/ Plan(i)
    \/ \E t \in Titles : NewMilestone(t)
    \/ \E id \in DOMAIN milestones : Rename(id)

Ensure(p) ==
    \/ FindProject(p) \/ FindGroup(p) \/ MakeGroup(p) \/ FindGroupAgain(p)
    \/ MakeProject(p) \/ FindProjectAgain(p) \/ FindRepository(p) \/ MakeRepository(p)
    \/ MakeLabel(p) \/ LabelsDone(p)

Write(p) ==
    \/ TakeItem(p) \/ ListMilestones(p) \/ MakeMilestone(p) \/ ListAgain(p)
    \/ WriteGitLab(p) \/ WriteGitHub(p)

Step(p) == Ensure(p) \/ Write(p) \/ FinishRun(p) \/ GiveUp(p)

Next == People \/ \E p \in Runs : StartRun(p) \/ Step(p) \/ Crash(p)

(* The job is started again and again, and a started run goes on. *)
Fairness == \A p \in Runs : WF_vars(Step(p)) /\ WF_vars(StartRun(p))

Spec == Init /\ [][Next]_vars

FairSpec == Spec /\ Fairness

-----------------------------------------------------------------------------
(* Properties. *)

Places == {"idle", "repo", "group", "new group", "group again", "project", "project again",
           "repository", "labels", "next", "milestones", "new milestone", "milestones again",
           "write", "failed"}

(* Every variable has the shape the code gives it, and no copy or run refers to a
   milestone that is not there. *)
TypeOK ==
    /\ acts \in 0..MaxActs
    /\ source \in [Items -> [labels : SUBSET Labels, title : Titles \cup {NoTitle}]]
    /\ touched \subseteq Items /\ without \subseteq Items
    /\ renamed \in [Items -> SUBSET DOMAIN milestones]
    /\ group \in BOOLEAN /\ project \in BOOLEAN /\ labels \subseteq Labels
    /\ milestones \in Seq(Titles)
    /\ pc \in [Runs -> Places]
    /\ copies \in [Items -> [labels : SUBSET Labels, id : 0..Len(milestones)]]
    /\ \A p \in Runs :
        /\ run[p].id \in 0..Len(milestones)
        /\ run[p].ids \in [Titles -> 0..Len(milestones)]
        /\ run[p].listed \subseteq Items

(* Runs that overlap do not fail each other: on GitLab the one that loses the race for
   the group or the project goes on with what the winner made (gitlab.go:53-55). *)
NoRaceLost == \A p \in Runs : pc[p] = "failed" => target = "github"

(* No item is written with a label the project does not know, which GitLab rejects
   (gitlab.go:502). *)
LabelsKnown == \A p \in Runs : pc[p] = "write" => project /\ run[p].item.labels \subseteq labels

Listed == UNION {run[p].listed : p \in Runs}

(* Once it was written, a copy has its original's labels and a milestone that bears its
   title, or bore it at some time since the item was listed and was then renamed: never
   one that lost the title before (gitlab.go:404-450).  It goes without only if the one
   it was refused for was renamed before it was looked for again.  What the original lost
   is not taken from the copy, which is how the code has it (target.go:164-167,
   gitlab.go:564-567). *)
FieldsFollow == \A i \in Items \ (touched \cup Listed) :
    /\ source[i].labels # {} => copies[i].labels = source[i].labels
    /\ source[i].title # NoTitle =>
        \/ i \in without /\ renamed[i] # {}
        \/ /\ copies[i].id # 0
           /\ milestones[copies[i].id] = source[i].title \/ copies[i].id \in renamed[i]

(* When people stop and calls succeed, everything people changed is written, whoever
   loses which race. *)
AllWritten == <>[][\A p \in Runs : ~Crash(p)]_vars => <>[](touched = {} /\ Listed = {})

=============================================================================
