-------------------------- MODULE ContainersProofs --------------------------
(***************************************************************************)
(* Proofs about Containers, for any runs, items, labels and titles.        *)
(***************************************************************************)
EXTENDS Containers, TLAPS

-----------------------------------------------------------------------------
(* The invariant. *)

Snapshot == [n : Items, labels : SUBSET Labels, title : Titles \cup {NoTitle}]

Kept == [listed : SUBSET Items, batch : SUBSET Snapshot, want : SUBSET Labels,
         item : Snapshot \cup {NoItem}, asked : BOOLEAN, ids : [Titles -> Nat], id : Nat]

Ids == 0..Len(milestones)

(* A run has an item in hand, or is between items. *)
HasItem(p) == pc[p] \in {"milestones", "new milestone", "milestones again", "write"}
AtItems(p) == HasItem(p) \/ pc[p] = "next"

Typed ==
    /\ source \in [Items -> [labels : SUBSET Labels, title : Titles \cup {NoTitle}]]
    /\ touched \subseteq Items /\ without \subseteq Items
    /\ renamed \in [Items -> SUBSET (Ids \ {0})]
    /\ group \in BOOLEAN /\ project \in BOOLEAN /\ labels \subseteq Labels
    /\ milestones \in Seq(Titles)
    /\ copies \in [Items -> [labels : SUBSET Labels, id : Ids]]
    /\ pc \in [Runs -> Places]
    /\ run \in [Runs -> Kept]

(* What a run found or made stays, so the second look does not fail; and what it
   refers to is there. *)
Way(p) ==
    /\ pc[p] = "idle" => run[p] = NoRun
    /\ pc[p] \in {"group", "new group", "group again", "project", "project again"} => target = "gitlab"
    /\ pc[p] \in {"repository", "failed"} => target = "github"
    /\ pc[p] = "group again" => group
    /\ pc[p] \in {"project again", "labels"} \/ AtItems(p) => project
    /\ run[p].id \in Ids /\ run[p].ids \in [Titles -> Ids]
    /\ HasItem(p) => run[p].item \in Snapshot
    /\ HasItem(p) /\ pc[p] # "write" => run[p].item.title # NoTitle

Labelled(p) ==
    /\ \A b \in run[p].batch : b.labels \subseteq labels \cup run[p].want
    /\ AtItems(p) => run[p].want = {}
    /\ HasItem(p) => run[p].item.labels \subseteq labels

(* A snapshot is of something the run listed, and true unless that was touched. *)
Faithful(p, b) ==
    /\ b.n \in run[p].listed
    /\ b.n \notin touched => b.labels = source[b.n].labels /\ b.title = source[b.n].title

(* Milestone id has the title item i has, or lost it since a run listed the item. *)
Bears(i, id) == id # 0 /\ (milestones[id] = source[i].title \/ id \in renamed[i])

(* Item i goes without one, and the one it was refused for was renamed. *)
Without(i) == i \in without /\ renamed[i] # {}

(* An id the run knows for the title of an item it listed is of a milestone that bears
   it, or did. *)
Meant(r) == \A i \in r.listed \ touched :
    LET id == r.ids[source[i].title]
    IN  source[i].title # NoTitle /\ id # 0 => Bears(i, id)

Informed(p) ==
    /\ \A b \in run[p].batch : Faithful(p, b)
    /\ HasItem(p) => Faithful(p, run[p].item)
    /\ Meant(run[p])
    /\ HasItem(p) /\ run[p].item.n \notin touched /\ run[p].item.title # NoTitle =>
        /\ pc[p] = "milestones again" => Taken(run[p].item.title) \/ renamed[run[p].item.n] # {}
        /\ pc[p] = "write" => Bears(run[p].item.n, run[p].id) \/ Without(run[p].item.n)

(* The copy of item i has what FieldsFollow asks of it. *)
Followed(i) ==
    /\ source[i].labels # {} => copies[i].labels = source[i].labels
    /\ source[i].title # NoTitle => Without(i) \/ Bears(i, copies[i].id)

(* What a run listed and nobody touched is written, or still to be written. *)
Tracked(p) == \A i \in run[p].listed \ touched :
    \/ Followed(i)
    \/ \E b \in run[p].batch : b.n = i
    \/ HasItem(p) /\ run[p].item.n = i

RunOK(p) == Way(p) /\ Labelled(p) /\ Informed(p) /\ Tracked(p)

(* Runs take different items. *)
Apart == \A p, q \in Runs : p # q => run[p].listed \cap run[q].listed = {}

Inv ==
    /\ acts \in 0..MaxActs
    /\ Typed
    /\ Apart
    /\ \A p \in Runs : RunOK(p)
    /\ FieldsFollow

-----------------------------------------------------------------------------
(* Facts about the definitions. *)

(* The records a run starts with have their types, and nothing is in them. *)
LEMMA Blank ==
    /\ NoRun \in Kept
    /\ NoRun.listed = {} /\ NoRun.batch = {} /\ NoRun.want = {} /\ NoRun.id = 0
    /\ NoRun.ids \in [Titles -> {0}]
BY DEF NoRun, Kept, NoMilestones

(* The fields of what a run keeps. *)
LEMMA Fields ==
    ASSUME NEW r \in Kept
    PROVE  /\ r.listed \subseteq Items /\ r.batch \subseteq Snapshot /\ r.want \subseteq Labels
           /\ r.ids \in [Titles -> Nat] /\ r.id \in Nat
           /\ \A b \in r.batch : b.n \in Items /\ b.labels \subseteq Labels /\ b.title \in Titles \cup {NoTitle}
BY DEF Kept, Snapshot

LEMMA Initial == Init => Inv
<1> SUFFICES ASSUME Init PROVE Inv
    OBVIOUS
<1> USE Blank DEF Init
<1>1. acts \in 0..MaxActs /\ Typed
    <2>1. 0 \in Ids
        BY DEF Ids
    <2>2. milestones \in Seq(Titles)
        OBVIOUS
    <2>3. pc \in [Runs -> Places] /\ run \in [Runs -> Kept]
        BY DEF Places
    <2>4. source \in [Items -> [labels : SUBSET Labels, title : Titles \cup {NoTitle}]]
        BY DEF NoFields
    <2>5. copies \in [Items -> [labels : SUBSET Labels, id : Ids]]
        BY <2>1
    <2>6. acts \in 0..MaxActs
        BY ContainersAssumption
    <2>7. /\ touched \subseteq Items /\ without \subseteq Items /\ labels \subseteq Labels
          /\ renamed \in [Items -> SUBSET (Ids \ {0})]
        OBVIOUS
    <2> HIDE DEF Init
    <2>8. group \in BOOLEAN /\ project \in BOOLEAN
        BY DEF Init
    <2> QED BY <2>2, <2>3, <2>4, <2>5, <2>6, <2>7, <2>8 DEF Typed
<1>2. \A p \in Runs : run[p] = NoRun /\ pc[p] = "idle"
    OBVIOUS
<1>3. Apart
    BY <1>2 DEF Apart
<1>4. \A p \in Runs : RunOK(p)
    <2> SUFFICES ASSUME NEW p \in Runs PROVE RunOK(p)
        OBVIOUS
    <2>1. Way(p)
        <3>1. run[p].id \in Ids /\ run[p].ids \in [Titles -> Ids]
            BY <1>2 DEF Ids
        <3> QED BY <1>2, <3>1 DEF Way, AtItems, HasItem
    <2> QED BY <1>2, <2>1 DEF RunOK, Labelled, Informed, Meant, Tracked, AtItems, HasItem
<1>5. FieldsFollow
    BY DEF FieldsFollow, NoFields
<1> QED BY <1>1, <1>3, <1>4, <1>5 DEF Inv

-----------------------------------------------------------------------------
(* What a step leaves alone. *)

(* The containers only grow, and milestones keep their ids. *)
Grown ==
    /\ group' \in BOOLEAN /\ (group => group')
    /\ project' \in BOOLEAN /\ (project => project')
    /\ labels' \subseteq Labels /\ labels \subseteq labels'
    /\ milestones' \in Seq(Titles) /\ Len(milestones) <= Len(milestones')

Kind == \A id \in Ids \ {0} : milestones'[id] = milestones[id]

LEMMA GrownIds ==
    ASSUME Typed, Grown
    PROVE  Ids \subseteq Ids'
<1>1. Len(milestones) \in Nat /\ Len(milestones)' \in Nat
    BY DEF Typed, Grown
<1> QED BY <1>1 DEF Ids, Grown

(* The copies of the items in S are what they were, and so is what is known of them; a
   milestone that loses the title of one counts as renamed for it. *)
Undisturbed(S) == \A i \in S :
    /\ copies'[i] = copies[i]
    /\ i \in touched => i \in touched'
    /\ i \notin touched' =>
        /\ source'[i] = source[i]
        /\ i \in without => i \in without'
        /\ renamed[i] \subseteq renamed'[i]
        /\ \A id \in Ids \ {0} : Bears(i, id) => Bears(i, id)'

LEMMA StillBears ==
    ASSUME NEW i, Undisturbed({i}), i \notin touched'
    PROVE  /\ \A id \in Ids : Bears(i, id) => Bears(i, id)'
           /\ Without(i) => Without(i)'
BY DEF Undisturbed, Bears, Without

LEMMA KindBears ==
    ASSUME NEW i, Kind, source'[i] = source[i], renamed[i] \subseteq renamed'[i]
    PROVE  \A id \in Ids : Bears(i, id) => Bears(i, id)'
BY DEF Kind, Bears

LEMMA StillFollowed ==
    ASSUME Typed, NEW i \in Items, Undisturbed({i}), i \notin touched', Followed(i)
    PROVE  Followed(i)'
<1>1. copies[i].id \in Ids
    BY DEF Typed
<1>2. source'[i] = source[i] /\ copies'[i] = copies[i]
    BY DEF Undisturbed
<1> QED BY <1>1, <1>2, StillBears DEF Followed

(* A title that is taken stays so unless its milestone is renamed. *)
LEMMA StillTaken ==
    ASSUME Typed, Grown, NEW i \in Items, Undisturbed({i}), i \notin touched',
           NEW t, t = source[i].title, Taken(t) \/ renamed[i] # {}
    PROVE  Taken(t)' \/ renamed'[i] # {}
<1>1. renamed[i] \subseteq renamed'[i] /\ source'[i] = source[i]
    BY DEF Undisturbed
<1>2. CASE Taken(t)
    <2>1. PICK id \in DOMAIN milestones : milestones[id] = t
        BY <1>2 DEF Taken
    <2>2. id \in Ids \ {0} /\ id \in DOMAIN milestones'
        BY DEF Typed, Grown, Ids
    <2>3. Bears(i, id)'
        BY <2>1, <2>2, StillBears DEF Bears
    <2> QED BY <1>1, <2>2, <2>3 DEF Bears, Taken
<1> QED BY <1>1, <1>2

(* A run that does not move is right if what it listed is left alone. *)
LEMMA Others ==
    ASSUME Typed, Grown, NEW p \in Runs, RunOK(p), run'[p] = run[p], pc'[p] = pc[p],
           target' = target, Undisturbed(run[p].listed)
    PROVE  RunOK(p)'
<1> USE DEF RunOK
<1>1. /\ run[p] \in Kept
      /\ HasItem(p)' = HasItem(p) /\ AtItems(p)' = AtItems(p)
    BY DEF Typed, HasItem, AtItems
<1>2. Ids \subseteq Ids'
    BY GrownIds
<1>3. Way(p)'
    BY <1>1, <1>2 DEF Way, Grown
<1>4. Labelled(p)'
    BY <1>1 DEF Labelled, Grown
<1>5. ASSUME NEW i \in run[p].listed, i \notin touched'
      PROVE  /\ i \in Items /\ i \notin touched /\ Undisturbed({i}) /\ source'[i] = source[i]
             /\ \A id \in Ids : Bears(i, id) => Bears(i, id)'
             /\ Without(i) => Without(i)'
    <2>1. i \in Items /\ Undisturbed({i})
        BY <1>1, <1>5, Fields DEF Undisturbed
    <2>2. i \notin touched /\ source'[i] = source[i]
        BY <1>5, <2>1 DEF Undisturbed
    <2> QED BY <1>5, <2>1, <2>2, StillBears
<1>6. ASSUME NEW b, Faithful(p, b) PROVE Faithful(p, b)'
    BY <1>6 DEF Faithful, Undisturbed
<1>7. Informed(p)'
    <2>1. HasItem(p) => run[p].item.n \in run[p].listed
        BY DEF Informed, Faithful
    <2>2. /\ \A b \in run'[p].batch : Faithful(p, b)'
          /\ HasItem(p)' => Faithful(p, run[p].item)'
        BY <1>1, <1>6 DEF Informed
    <2>3. Meant(run[p])'
        <3>1. ASSUME NEW i \in run[p].listed, i \notin touched',
                     source[i].title # NoTitle, run[p].ids[source[i].title] # 0
              PROVE  Bears(i, run[p].ids[source[i].title])'
            <4>1. i \in Items /\ i \notin touched /\ source'[i] = source[i]
                BY <1>5, <3>1
            <4>2. source[i].title \in Titles
                BY <3>1, <4>1 DEF Typed
            <4>3. run[p].ids[source[i].title] \in Ids
                BY <4>2 DEF Way
            <4>4. Bears(i, run[p].ids[source[i].title])
                BY <3>1, <4>1 DEF Informed, Meant
            <4>5. PICK id \in Ids : id = run[p].ids[source[i].title]
                BY <4>3
            <4>6. Bears(i, id)'
                BY <1>5, <3>1, <4>4, <4>5
            <4> QED BY <1>1, <4>1, <4>5, <4>6
        <3>2. \A i \in run[p].listed \ touched' : source'[i] = source[i]
            BY <1>5
        <3> QED BY <1>1, <3>1, <3>2 DEF Meant
    <2>4. ASSUME HasItem(p), run[p].item.n \notin touched', run[p].item.title # NoTitle
          PROVE  /\ pc[p] = "milestones again" =>
                        Taken(run[p].item.title)' \/ renamed'[run[p].item.n] # {}
                 /\ pc[p] = "write" =>
                        Bears(run[p].item.n, run[p].id)' \/ Without(run[p].item.n)'
        <3> PICK i : i = run[p].item.n
            OBVIOUS
        <3>1. i \in run[p].listed
            BY <2>1, <2>4
        <3>2. i \notin touched /\ i \in Items /\ Undisturbed({i}) /\ run[p].item.title = source[i].title
            BY <1>5, <2>4, <3>1 DEF Informed, Faithful
        <3>3. pc[p] = "milestones again" => Taken(run[p].item.title)' \/ renamed'[i] # {}
            BY <2>4, <3>2, StillTaken DEF Informed
        <3>4. run[p].id \in Ids
            BY DEF Way
        <3>5. pc[p] = "write" => Bears(i, run[p].id)' \/ Without(i)'
            BY <1>5, <2>4, <3>1, <3>2, <3>4 DEF Informed
        <3> QED BY <3>3, <3>5
    <2> QED BY <1>1, <2>2, <2>3, <2>4 DEF Informed
<1>8. Tracked(p)'
    <2> SUFFICES ASSUME NEW i \in run[p].listed, i \notin touched'
                 PROVE  Followed(i)' \/ (\E b \in run[p].batch : b.n = i)
                                     \/ (HasItem(p) /\ run[p].item.n = i)
        BY <1>1 DEF Tracked
    <2>1. i \in Items /\ i \notin touched /\ Undisturbed({i})
        BY <1>1, Fields DEF Undisturbed
    <2> QED BY <2>1, StillFollowed DEF Tracked
<1> QED BY <1>3, <1>4, <1>7, <1>8

(* So is every copy that is nobody's business. *)
LEMMA StillFollow ==
    ASSUME Typed, FieldsFollow,
           touched \cup Listed \subseteq touched' \cup Listed',
           Undisturbed(Items \ (touched' \cup Listed'))
    PROVE  FieldsFollow'
<1>1. \A i \in Items \ (touched \cup Listed) : Followed(i)
    BY DEF FieldsFollow, Followed, Bears, Without
<1>2. ASSUME NEW i \in Items \ (touched' \cup Listed') PROVE Followed(i)'
    <2>1. Undisturbed({i})
        BY DEF Undisturbed
    <2> QED BY <1>1, <2>1, StillFollowed
<1> QED BY <1>2 DEF FieldsFollow, Followed, Bears, Without

-----------------------------------------------------------------------------
(* What a run does before it comes to the items. *)

(* A run goes on with what it listed. *)
Goes(p, r, place) ==
    /\ r \in Kept /\ r.listed = run[p].listed
    /\ place \in Places
    /\ run' = [run EXCEPT ![p] = r]
    /\ pc' = [pc EXCEPT ![p] = place]
    /\ UNCHANGED <<target, acts, source, touched, renamed>>
    /\ without \subseteq without' /\ without' \subseteq Items
    /\ Grown /\ Kind

(* If it is right afterwards and wrote no other item, everything else is as well. *)
LEMMA GoesOn ==
    ASSUME Inv, NEW p \in Runs, NEW r, NEW place, Goes(p, r, place),
           copies' \in [Items -> [labels : SUBSET Labels, id : Ids']],
           \A i \in Items \ run[p].listed : copies'[i] = copies[i],
           RunOK(p)'
    PROVE  Inv'
<1> USE DEF Inv, Goes
<1>1. Typed'
    <2>1. renamed' \in [Items -> SUBSET (Ids' \ {0})]
        BY GrownIds DEF Typed
    <2> QED BY <2>1 DEF Typed, Grown
<1>2. \A q \in Runs : run'[q].listed = run[q].listed
    BY DEF Typed
<1>3. Apart'
    BY <1>2 DEF Apart
<1>4. ASSUME NEW q \in Runs, q # p PROVE RunOK(q)'
    <2>1. run[q].listed \cap run[p].listed = {} /\ run[q].listed \subseteq Items
        BY <1>4, Fields DEF Apart, Typed
    <2>2. Undisturbed(run[q].listed)
        BY <2>1, KindBears DEF Undisturbed
    <2>3. run'[q] = run[q] /\ pc'[q] = pc[q]
        BY <1>4 DEF Typed
    <2> QED BY <2>2, <2>3, Others
<1>5. FieldsFollow'
    <2>1. Listed' = Listed
        BY <1>2 DEF Listed
    <2>2. run[p].listed \subseteq Listed
        BY DEF Listed
    <2>3. Undisturbed(Items \ (touched' \cup Listed'))
        BY <2>1, <2>2, KindBears DEF Undisturbed
    <2> QED BY <2>1, <2>3, StillFollow
<1> QED BY <1>1, <1>3, <1>4, <1>5

(* Before it comes to the items, it only has to be on its way. *)
LEMMA OnItsWay ==
    ASSUME Inv, NEW p \in Runs, NEW place, Goes(p, run[p], place), UNCHANGED <<copies, milestones>>,
           ~AtItems(p), ~AtItems(p)', Way(p)'
    PROVE  Inv'
<1> USE DEF Goes
<1>1. run[p] \in Kept /\ run' = run /\ ~HasItem(p) /\ ~HasItem(p)'
    BY DEF Inv, Typed, AtItems
<1>2. Labelled(p) /\ Informed(p) /\ Tracked(p)
    BY DEF Inv, RunOK
<1>3. Labelled(p)'
    BY <1>1, <1>2 DEF Labelled, Grown
<1>4. Informed(p)'
    BY <1>1, <1>2 DEF Informed, Faithful, Meant, Bears
<1>5. Tracked(p)'
    BY <1>1, <1>2 DEF Tracked, Followed, Bears, Without
<1>6. copies' \in [Items -> [labels : SUBSET Labels, id : Ids']]
    BY DEF Inv, Typed, Ids
<1> QED BY <1>3, <1>4, <1>5, <1>6, GoesOn DEF RunOK

LEMMA SameContainers ==
    ASSUME Typed, UNCHANGED containers
    PROVE  Grown /\ Kind
BY DEF Typed, containers, Grown, Kind

(* Every step on the way to the repository: what was found or made is there. *)
LEMMA RepositoryStep ==
    ASSUME Inv, NEW p \in Runs,
           \/ FindProject(p) \/ FindGroup(p) \/ MakeGroup(p) \/ FindGroupAgain(p)
           \/ MakeProject(p) \/ FindProjectAgain(p) \/ FindRepository(p) \/ MakeRepository(p)
    PROVE  Inv'
<1> USE DEF Goto, same
<1>1. Typed /\ Way(p) /\ run[p] \in Kept
    BY DEF Inv, RunOK, Typed
<1>2. Grown /\ Kind /\ UNCHANGED <<copies, milestones, run, target>>
    <2>1. CASE UNCHANGED containers
        <3>1. Grown /\ Kind /\ milestones' = milestones
            BY <1>1, <2>1, SameContainers DEF containers
        <3>2. UNCHANGED same
            BY DEF FindProject, FindGroup, MakeGroup, FindGroupAgain,
                   MakeProject, FindProjectAgain, FindRepository, MakeRepository
        <3> QED BY <3>1, <3>2
    <2>2. CASE MakeGroup(p) \/ MakeProject(p) \/ MakeRepository(p)
        <3>1. UNCHANGED <<same, labels, milestones>>
            BY <2>2 DEF MakeGroup, MakeProject, MakeRepository
        <3>2. /\ group' = group \/ group' = TRUE
              /\ project' = project \/ project' = TRUE
            BY <2>2 DEF MakeGroup, MakeProject, MakeRepository
        <3>3. Kind
            BY <3>1 DEF Kind
        <3>4. /\ group' \in BOOLEAN /\ (group => group')
              /\ project' \in BOOLEAN /\ (project => project')
            <4>1. group \in BOOLEAN /\ project \in BOOLEAN
                BY <1>1 DEF Typed
            <4> QED BY <3>2, <4>1
        <3>5. /\ labels' \subseteq Labels /\ labels \subseteq labels'
              /\ milestones' \in Seq(Titles) /\ Len(milestones) <= Len(milestones')
            BY <1>1, <3>1 DEF Typed
        <3> QED BY <3>1, <3>3, <3>4, <3>5 DEF Grown
    <2>3. FindProject(p) \/ FindGroup(p) \/ FindGroupAgain(p) \/ FindProjectAgain(p) \/ FindRepository(p)
          => UNCHANGED containers
        BY DEF FindProject, FindGroup, FindGroupAgain, FindProjectAgain, FindRepository
    <2> QED BY <2>1, <2>2, <2>3
<1>3. PICK place :
        /\ pc' = [pc EXCEPT ![p] = place]
        /\ place \in Places \ {"idle", "next", "milestones", "new milestone", "milestones again", "write"}
        /\ place \in {"group", "new group", "group again", "project", "project again"} => target = "gitlab"
        /\ place \in {"repository", "failed"} => target = "github"
        /\ place = "group again" => group'
        /\ place \in {"project again", "labels"} => project'
        /\ pc[p] \notin {"idle", "next", "milestones", "new milestone", "milestones again", "write"}
    <2>1. CASE FindProject(p) \/ FindGroup(p) \/ FindGroupAgain(p)
        BY <1>1, <2>1 DEF Way, Places, containers, FindProject, FindGroup, FindGroupAgain
    <2>2. CASE MakeGroup(p) \/ MakeProject(p)
        BY <1>1, <2>2 DEF Way, Places, containers, MakeGroup, MakeProject
    <2>3. CASE FindProjectAgain(p) \/ FindRepository(p) \/ MakeRepository(p)
        BY <1>1, <2>3 DEF Way, Places, containers, FindProjectAgain, FindRepository, MakeRepository
    <2> QED BY <2>1, <2>2, <2>3
<1>4. pc'[p] = place
    BY <1>1, <1>3 DEF Typed
<1>5. ~AtItems(p) /\ ~AtItems(p)' /\ ~HasItem(p)'
    BY <1>3, <1>4 DEF AtItems, HasItem
<1>6. Way(p)'
    BY <1>1, <1>2, <1>3, <1>4, <1>5 DEF Way, Ids
<1>7. Goes(p, run[p], place)
    BY <1>1, <1>2, <1>3
         DEF Goes, Typed, FindProject, FindGroup, MakeGroup, FindGroupAgain,
             MakeProject, FindProjectAgain, FindRepository, MakeRepository
<1> QED BY <1>2, <1>5, <1>6, <1>7, OnItsWay

-----------------------------------------------------------------------------
(* Labels. *)

LEMMA MakeLabelStep ==
    ASSUME Inv, NEW p \in Runs, MakeLabel(p)
    PROVE  Inv'
<1>1. Typed /\ RunOK(p) /\ run[p] \in Kept /\ run[p].want \subseteq Labels
    BY Fields DEF Inv, Typed
<1>2. PICK l \in run[p].want :
        /\ pc[p] = "labels" /\ labels' = labels \cup {l}
        /\ run' = [run EXCEPT ![p].want = @ \ {l}]
        /\ UNCHANGED <<target, acts, source, touched, renamed, without, copies, group, project, milestones, pc>>
    BY DEF MakeLabel
<1> DEFINE r == [run[p] EXCEPT !.want = @ \ {l}]
<1>3. /\ r \in Kept /\ r.listed = run[p].listed /\ r.batch = run[p].batch
      /\ r.want = run[p].want \ {l} /\ r.ids = run[p].ids /\ r.id = run[p].id
    BY <1>1 DEF Kept
<1>4. Grown /\ Kind
    BY <1>1, <1>2 DEF Typed, Grown, Kind
<1>5. /\ run' = [run EXCEPT ![p] = r] /\ pc' = [pc EXCEPT ![p] = "labels"]
      /\ run'[p] = r /\ pc'[p] = "labels"
    BY <1>1, <1>2 DEF Typed
<1> HIDE DEF r
<1>6. ~HasItem(p) /\ ~HasItem(p)' /\ ~AtItems(p)'
    BY <1>2, <1>5 DEF HasItem, AtItems
<1>7. RunOK(p)'
    <2>1. Way(p)'
        BY <1>1, <1>2, <1>3, <1>5, <1>6 DEF RunOK, Way, Ids
    <2>2. Labelled(p)'
        BY <1>1, <1>2, <1>3, <1>5, <1>6 DEF RunOK, Labelled
    <2>3. Informed(p)'
        <3>1. \A b \in r.batch : Faithful(p, b)'
            BY <1>1, <1>2, <1>3, <1>5 DEF RunOK, Informed, Faithful
        <3>2. Meant(run[p])'
            BY <1>1, <1>2, <1>3, <1>5 DEF RunOK, Informed, Meant, Bears
        <3> QED BY <1>5, <1>6, <3>1, <3>2 DEF Informed
    <2>4. Tracked(p)'
        BY <1>1, <1>2, <1>3, <1>5, <1>6 DEF RunOK, Tracked, Followed, Bears, Without
    <2> QED BY <2>1, <2>2, <2>3, <2>4 DEF RunOK
<1>8. Goes(p, r, "labels")
    BY <1>1, <1>2, <1>3, <1>4, <1>5 DEF Goes, Places, Typed
<1>9. copies' \in [Items -> [labels : SUBSET Labels, id : Ids']]
    BY <1>1, <1>2 DEF Typed, Ids
<1> QED BY <1>2, <1>7, <1>8, <1>9, GoesOn

LEMMA LabelsDoneStep ==
    ASSUME Inv, NEW p \in Runs, LabelsDone(p)
    PROVE  Inv'
<1> USE DEF LabelsDone, Goto, same, containers
<1>1. Typed /\ RunOK(p) /\ run[p] \in Kept
    BY DEF Inv, Typed
<1>2. pc'[p] = "next" /\ ~HasItem(p) /\ ~HasItem(p)'
    BY <1>1 DEF Typed, HasItem
<1>3. RunOK(p)'
    <2>1. Way(p)'
        BY <1>1, <1>2 DEF RunOK, Way, Ids
    <2>2. Labelled(p)'
        BY <1>1, <1>2 DEF RunOK, Labelled
    <2>3. Informed(p)'
        BY <1>1, <1>2 DEF RunOK, Informed, Faithful, Meant, Bears
    <2>4. Tracked(p)'
        BY <1>1, <1>2 DEF RunOK, Tracked, Followed, Bears, Without
    <2> QED BY <2>1, <2>2, <2>3, <2>4 DEF RunOK
<1>4. Goes(p, run[p], "next")
    BY <1>1, SameContainers DEF Goes, Places, Typed
<1>5. copies' \in [Items -> [labels : SUBSET Labels, id : Ids']]
    BY <1>1 DEF Typed, Ids
<1> QED BY <1>3, <1>4, <1>5, GoesOn

-----------------------------------------------------------------------------
(* Milestones. *)

(* What a run keeps is right for an item in hand, before its milestone is known. *)
InOrder(p, r) ==
    /\ r \in Kept /\ r.listed = run[p].listed /\ r.want = {}
    /\ r.id \in Ids /\ r.ids \in [Titles -> Ids]
    /\ r.item \in Snapshot /\ r.item.labels \subseteq labels
    /\ \A b \in r.batch : b.labels \subseteq labels
    /\ \A b \in r.batch \cup {r.item} : Faithful(p, b)
    /\ Meant(r)
    /\ \A i \in r.listed \ touched : Followed(i) \/ (\E b \in r.batch : b.n = i) \/ r.item.n = i

(* An id is of a milestone that bears the item's title, if it has one to bear. *)
Answers(r) == r.item.n \notin touched /\ r.item.title # NoTitle => Bears(r.item.n, r.id)

(* An item is handed on when its milestone has still to be found, or was. *)
LEMMA HandedOn ==
    ASSUME Inv, NEW p \in Runs, AtItems(p), NEW r, InOrder(p, r), NEW place, Keep(p, r, place),
           UNCHANGED containers, without \subseteq without', without' \subseteq Items,
           \/ place \in {"milestones", "new milestone"} /\ r.item.title # NoTitle
           \/ place = "milestones again" /\ Taken(r.item.title) /\ r.item.title # NoTitle
           \/ place = "write" /\ (Answers(r) \/ (r.item.n \in without' /\ renamed[r.item.n] # {}))
    PROVE  Inv'
<1> USE DEF Keep, Goto, InOrder, containers
<1>1. Typed /\ RunOK(p)
    BY DEF Inv
<1>2. /\ run'[p] = r /\ pc'[p] = place /\ HasItem(p)'
      /\ place \in Places \ {"idle", "labels", "repository", "failed"}
    BY <1>1 DEF Typed, HasItem, Places
<1>3. Grown /\ Kind
    BY <1>1, SameContainers
<1>4. RunOK(p)'
    <2>1. project
        BY <1>1 DEF RunOK, Way
    <2>2. Way(p)'
        BY <1>2, <2>1 DEF Way, Ids, AtItems
    <2>3. Labelled(p)'
        BY <1>2 DEF Labelled
    <2>4. Informed(p)'
        <3>1. \A b \in r.batch \cup {r.item} : Faithful(p, b)'
            BY <1>2 DEF Faithful
        <3>2. Meant(run[p])'
            BY <1>2 DEF Meant, Bears
        <3>3. r.item.n \notin touched' /\ r.item.title # NoTitle =>
                /\ place = "milestones again" => Taken(r.item.title)'
                /\ place = "write" => Bears(r.item.n, r.id)' \/ Without(r.item.n)'
            BY DEF Answers, Bears, Taken, Without
        <3> QED BY <1>2, <3>1, <3>2, <3>3 DEF Informed
    <2>5. Tracked(p)'
        <3>1. \A i : Followed(i) => Followed(i)'
            BY DEF Followed, Bears, Without
        <3> QED BY <1>2, <3>1 DEF Tracked
    <2> QED BY <2>2, <2>3, <2>4, <2>5 DEF RunOK
<1>5. Goes(p, r, place)
    BY <1>2, <1>3 DEF Goes
<1>6. copies' \in [Items -> [labels : SUBSET Labels, id : Ids']]
    BY <1>1 DEF Typed, Ids
<1> QED BY <1>4, <1>5, <1>6, GoesOn

LEMMA LookedUp ==
    ASSUME Inv, NEW p \in Runs, AtItems(p), NEW r, InOrder(p, r), r.item.title # NoTitle,
           Lookup(p, r), UNCHANGED <<without, containers>>
    PROVE  Inv'
<1>1. /\ r.item.title \in Titles /\ r \in Kept
      /\ UNCHANGED containers /\ without \subseteq without' /\ without' \subseteq Items
    BY DEF InOrder, Snapshot, Inv, Typed
<1>2. CASE r.ids[r.item.title] = 0
    BY <1>1, <1>2, HandedOn DEF Lookup
<1>3. CASE r.ids[r.item.title] # 0
    <2> DEFINE m == [r EXCEPT !.id = r.ids[r.item.title]]
    <2>1. r.ids[r.item.title] \in Ids /\ r.ids[r.item.title] \in Nat
        BY <1>1, Fields DEF InOrder
    <2>2. /\ m \in Kept /\ m.listed = r.listed /\ m.batch = r.batch /\ m.want = r.want
          /\ m.item = r.item /\ m.ids = r.ids /\ m.id = r.ids[r.item.title]
        BY <1>1, <2>1 DEF Kept
    <2>3. Keep(p, m, "write")
        BY <1>3 DEF Lookup
    <2> HIDE DEF m
    <2>4. InOrder(p, m)
        BY <2>1, <2>2 DEF InOrder, Meant
    <2>5. r.item.n \in r.listed /\ (r.item.n \notin touched => r.item.title = source[r.item.n].title)
        BY DEF InOrder, Faithful
    <2>6. Answers(m)
        BY <1>1, <1>3, <2>2, <2>5 DEF Answers, InOrder, Meant
    <2> QED BY <1>1, <2>3, <2>4, <2>6, HandedOn
<1> QED BY <1>2, <1>3

LEMMA TakeItemStep ==
    ASSUME Inv, NEW p \in Runs, TakeItem(p)
    PROVE  Inv'
<1>1. Typed /\ RunOK(p) /\ run[p] \in Kept /\ run[p].batch \subseteq Snapshot
    BY Fields DEF Inv, Typed
<1>2. PICK b \in run[p].batch :
        LET r == [run[p] EXCEPT !.batch = @ \ {b}, !.item = b]
        IN  /\ pc[p] = "next"
            /\ \/ b.title = NoTitle /\ Keep(p, r, "write")
               \/ b.title # NoTitle /\ ~r.asked /\ Keep(p, r, "milestones")
               \/ b.title # NoTitle /\ r.asked /\ Lookup(p, r)
            /\ UNCHANGED <<without, containers>>
    BY DEF TakeItem
<1> DEFINE r == [run[p] EXCEPT !.batch = @ \ {b}, !.item = b]
<1>3. /\ r \in Kept /\ r.listed = run[p].listed /\ r.batch = run[p].batch \ {b}
      /\ r.want = run[p].want /\ r.ids = run[p].ids /\ r.id = run[p].id /\ r.item = b
    BY <1>1 DEF Kept
<1>4. \/ b.title = NoTitle /\ Keep(p, r, "write")
      \/ b.title # NoTitle /\ Keep(p, r, "milestones")
      \/ b.title # NoTitle /\ Lookup(p, r)
    BY <1>2
<1> HIDE DEF r
<1>5. /\ AtItems(p) /\ ~HasItem(p)
      /\ UNCHANGED containers /\ without \subseteq without' /\ without' \subseteq Items
    BY <1>1, <1>2 DEF AtItems, HasItem, Typed
<1>6. b \in Snapshot
    BY <1>1
<1>7. InOrder(p, r)
    <2>1. r.id \in Ids /\ r.ids \in [Titles -> Ids]
        BY <1>1, <1>3 DEF RunOK, Way
    <2>2. r.want = {} /\ \A c \in run[p].batch : c.labels \subseteq labels
        BY <1>1, <1>3, <1>5 DEF RunOK, Labelled
    <2>3. \A c \in run[p].batch : Faithful(p, c)
        BY <1>1 DEF RunOK, Informed
    <2>4. Meant(r)
        BY <1>1, <1>3 DEF RunOK, Informed, Meant
    <2>5. \A i \in r.listed \ touched : Followed(i) \/ (\E c \in r.batch : c.n = i) \/ r.item.n = i
        BY <1>1, <1>3, <1>5 DEF RunOK, Tracked
    <2> QED BY <1>2, <1>3, <1>6, <2>1, <2>2, <2>3, <2>4, <2>5 DEF InOrder
<1>8. CASE b.title = NoTitle /\ Keep(p, r, "write")
    <2>1. Answers(r)
        BY <1>3, <1>8 DEF Answers
    <2> QED BY <1>2, <1>5, <1>7, <1>8, <2>1, HandedOn
<1>9. CASE b.title # NoTitle /\ Keep(p, r, "milestones")
    BY <1>2, <1>3, <1>5, <1>7, <1>9, HandedOn
<1>10. CASE b.title # NoTitle /\ Lookup(p, r)
    BY <1>2, <1>3, <1>5, <1>7, <1>10, LookedUp
<1> QED BY <1>4, <1>8, <1>9, <1>10

(* A listing has the ids of the titles that are taken. *)
LEMMA ListingIds ==
    ASSUME Typed
    PROVE  /\ Listing \in [Titles -> Ids] /\ Listing \in [Titles -> Nat]
           /\ \A t \in Titles : Listing[t] # 0 => milestones[Listing[t]] = t
           /\ \A t \in Titles : Taken(t) => Listing[t] # 0
<1>1. DOMAIN milestones = 1..Len(milestones) /\ Len(milestones) \in Nat
    BY DEF Typed
<1>2. DOMAIN milestones \subseteq Ids \ {0} /\ Ids \subseteq Nat /\ 0 \in Ids
    BY <1>1 DEF Ids
<1>3. ASSUME NEW t \in Titles, Taken(t)
      PROVE  Listing[t] \in DOMAIN milestones /\ milestones[Listing[t]] = t
    <2>1. \E id \in DOMAIN milestones : milestones[id] = t
        BY <1>3 DEF Taken
    <2>2. Listing[t] = CHOOSE id \in DOMAIN milestones : milestones[id] = t
        BY <1>3 DEF Listing
    <2> QED BY <2>1, <2>2
<1>4. \A t \in Titles : ~Taken(t) => Listing[t] = 0
    BY DEF Listing
<1>5. \A t \in Titles : Listing[t] \in Ids
    BY <1>2, <1>3, <1>4
<1>6. Listing = [t \in Titles |-> Listing[t]]
    BY DEF Listing
<1>7. Listing \in [Titles -> Ids] /\ Listing \in [Titles -> Nat]
    BY <1>2, <1>5, <1>6
<1> QED BY <1>2, <1>3, <1>4, <1>7

(* So what a run knows from one is true. *)
LEMMA ListingMeant ==
    ASSUME Typed, NEW r, r.ids = Listing, r.listed \subseteq Items
    PROVE  Meant(r) /\ r.ids \in [Titles -> Ids] /\ r.ids \in [Titles -> Nat]
<1>1. \A i \in r.listed : source[i].title \in Titles \cup {NoTitle}
    BY DEF Typed
<1> QED BY <1>1, ListingIds DEF Meant, Bears

(* What a run with an item in hand keeps is in order. *)
LEMMA InOrderNow ==
    ASSUME Inv, NEW p \in Runs, HasItem(p)
    PROVE  InOrder(p, run[p])
<1>1. Typed /\ RunOK(p) /\ run[p] \in Kept /\ AtItems(p)
    BY DEF Inv, Typed, AtItems
<1>2. run[p].id \in Ids /\ run[p].ids \in [Titles -> Ids] /\ run[p].item \in Snapshot
    BY <1>1 DEF RunOK, Way
<1>3. /\ run[p].want = {} /\ run[p].item.labels \subseteq labels
      /\ \A b \in run[p].batch : b.labels \subseteq labels
    BY <1>1 DEF RunOK, Labelled
<1>4. /\ \A b \in run[p].batch \cup {run[p].item} : Faithful(p, b)
      /\ Meant(run[p])
    BY <1>1 DEF RunOK, Informed
<1>5. \A i \in run[p].listed \ touched :
        Followed(i) \/ (\E b \in run[p].batch : b.n = i) \/ run[p].item.n = i
    BY <1>1 DEF RunOK, Tracked
<1> QED BY <1>1, <1>2, <1>3, <1>4, <1>5 DEF InOrder, Meant

LEMMA ListMilestonesStep ==
    ASSUME Inv, NEW p \in Runs, ListMilestones(p)
    PROVE  Inv'
<1> DEFINE r == [run[p] EXCEPT !.asked = TRUE, !.ids = Listing]
<1>1. Typed /\ RunOK(p) /\ pc[p] = "milestones" /\ HasItem(p) /\ AtItems(p)
    BY DEF Inv, ListMilestones, HasItem, AtItems
<1>2. InOrder(p, run[p]) /\ run[p] \in Kept
    BY <1>1, InOrderNow DEF InOrder
<1>3. Lookup(p, r) /\ UNCHANGED <<without, containers>>
    BY DEF ListMilestones
<1>4. /\ r \in Kept /\ r.listed = run[p].listed /\ r.batch = run[p].batch
      /\ r.want = run[p].want /\ r.ids = Listing /\ r.id = run[p].id /\ r.item = run[p].item
    BY <1>1, <1>2, ListingIds DEF Kept
<1> HIDE DEF r
<1>5. InOrder(p, r)
    <2>1. Meant(r) /\ r.ids \in [Titles -> Ids]
        BY <1>1, <1>2, <1>4, Fields, ListingMeant
    <2> QED BY <1>2, <1>4, <2>1 DEF InOrder
<1>6. r.item.title # NoTitle
    BY <1>1, <1>4 DEF RunOK, Way
<1> QED BY <1>1, <1>3, <1>5, <1>6, LookedUp

LEMMA ListAgainStep ==
    ASSUME Inv, NEW p \in Runs, ListAgain(p)
    PROVE  Inv'
<1> DEFINE t == run[p].item.title
           r == [run[p] EXCEPT !.ids = Listing, !.id = Listing[t]]
<1>1. Typed /\ RunOK(p) /\ pc[p] = "milestones again" /\ HasItem(p) /\ AtItems(p)
    BY DEF Inv, ListAgain, HasItem, AtItems
<1>2. InOrder(p, run[p]) /\ run[p] \in Kept
    BY <1>1, InOrderNow DEF InOrder
<1>3. t \in Titles
    BY <1>1 DEF RunOK, Way, Snapshot
<1>4. /\ Keep(p, r, "write") /\ UNCHANGED containers
      /\ without \subseteq without'
      /\ without' \subseteq without \cup {run[p].item.n}
      /\ Listing[t] = 0 => run[p].item.n \in without'
    BY DEF ListAgain
<1>5. Listing[t] \in Ids /\ Listing[t] \in Nat
    BY <1>1, <1>3, ListingIds
<1>6. /\ r \in Kept /\ r.listed = run[p].listed /\ r.batch = run[p].batch
      /\ r.want = run[p].want /\ r.ids = Listing /\ r.id = Listing[t] /\ r.item = run[p].item
    BY <1>1, <1>2, <1>5, ListingIds DEF Kept
<1> HIDE DEF r
<1>7. InOrder(p, r)
    <2>1. Meant(r) /\ r.ids \in [Titles -> Ids]
        BY <1>1, <1>2, <1>6, Fields, ListingMeant
    <2> QED BY <1>2, <1>5, <1>6, <2>1 DEF InOrder
<1>8. /\ without' \subseteq Items
      /\ run[p].item.n \notin touched => t = source[run[p].item.n].title
    BY <1>1, <1>2, <1>4 DEF InOrder, Snapshot, Faithful, Typed
<1>9. Answers(r) \/ (r.item.n \in without' /\ renamed[r.item.n] # {})
    <2> SUFFICES ASSUME r.item.n \notin touched
                 PROVE  Answers(r) \/ (r.item.n \in without' /\ renamed[r.item.n] # {})
        BY DEF Answers
    <2>1. CASE Listing[t] = 0
        BY <1>1, <1>3, <1>4, <1>6, <2>1, ListingIds DEF RunOK, Way, Informed
    <2>2. CASE Listing[t] # 0
        BY <1>1, <1>3, <1>6, <1>8, <2>2, ListingIds DEF Answers, Bears
    <2> QED BY <2>1, <2>2
<1> QED BY <1>1, <1>4, <1>6, <1>7, <1>8, <1>9, HandedOn

(* A new milestone takes the next id, and the others keep theirs. *)
LEMMA Appended ==
    ASSUME Typed, NEW t \in Titles, milestones' = Append(milestones, t),
           UNCHANGED <<group, project, labels>>
    PROVE  /\ Grown /\ Kind /\ Ids \subseteq Ids'
           /\ Len(milestones) \in Nat /\ Len(milestones) + 1 \in Ids'
           /\ milestones'[Len(milestones) + 1] = t
           /\ Len(milestones) + 1 \notin Ids
<1>1. milestones \in Seq(Titles) /\ Len(milestones) \in Nat
    BY DEF Typed
<1>2. Len(milestones)' = Len(milestones) + 1 /\ milestones' \in Seq(Titles)
    BY <1>1
<1>3. Grown
    BY <1>1, <1>2 DEF Typed, Grown
<1>4. Kind
    BY <1>1 DEF Kind, Ids
<1> QED BY <1>1, <1>2, <1>3, <1>4 DEF Ids

LEMMA MakeMilestoneStep ==
    ASSUME Inv, NEW p \in Runs, MakeMilestone(p)
    PROVE  Inv'
<1> PICK t : t = run[p].item.title
    OBVIOUS
<1> PICK id : id = Len(milestones) + 1
    OBVIOUS
<1> DEFINE r == [run[p] EXCEPT !.ids[t] = id, !.id = id]
<1>1. Typed /\ RunOK(p) /\ pc[p] = "new milestone" /\ HasItem(p) /\ AtItems(p)
    BY DEF Inv, MakeMilestone, HasItem, AtItems
<1>2. InOrder(p, run[p]) /\ run[p] \in Kept
    BY <1>1, InOrderNow DEF InOrder
<1>3. t \in Titles /\ t # NoTitle
    BY <1>1 DEF RunOK, Way, Snapshot
<1>4. CASE Keep(p, run[p], "milestones again") /\ Taken(t) /\ UNCHANGED <<without, containers>>
    <2>1. UNCHANGED containers /\ without \subseteq without' /\ without' \subseteq Items
        BY <1>1, <1>4 DEF Typed
    <2> QED BY <1>1, <1>2, <1>3, <1>4, <2>1, HandedOn
<1>5. CASE /\ milestones' = Append(milestones, t) /\ Keep(p, r, "write")
           /\ UNCHANGED <<without, group, project, labels>>
    <2>1. /\ Grown /\ Kind /\ Ids \subseteq Ids' /\ id \in Ids' /\ id \in Nat
          /\ milestones'[id] = t /\ id \notin Ids /\ id # 0
        <3>1. milestones' = Append(milestones, t) /\ UNCHANGED <<group, project, labels>>
            BY <1>5
        <3>2. /\ Grown /\ Kind /\ Ids \subseteq Ids' /\ Len(milestones) \in Nat
              /\ Len(milestones) + 1 \in Ids' /\ Len(milestones) + 1 \notin Ids
              /\ milestones'[Len(milestones) + 1] = t
            BY <1>1, <1>3, <3>1, Appended, Zenon
        <3> QED BY <3>2
    <2>2. /\ r \in Kept /\ r.listed = run[p].listed /\ r.batch = run[p].batch
          /\ r.want = run[p].want /\ r.ids = [run[p].ids EXCEPT ![t] = id]
          /\ r.id = id /\ r.item = run[p].item
        BY <1>2, <2>1 DEF Kept
    <2> HIDE DEF r
    <2>3. /\ run'[p] = r /\ pc'[p] = "write" /\ HasItem(p)'
          /\ UNCHANGED <<target, acts, source, touched, renamed, without, copies, group, project, labels>>
        BY <1>1, <1>5 DEF Keep, Goto, Typed, HasItem
    <2>4. Way(p)'
        <3>1. r.ids \in [Titles -> Ids']
            BY <1>2, <2>1, <2>2 DEF InOrder
        <3> QED BY <1>1, <1>2, <2>1, <2>2, <2>3, <3>1 DEF Way, InOrder, RunOK, AtItems
    <2>5. Labelled(p)'
        BY <1>2, <2>2, <2>3 DEF Labelled, InOrder
    <2>6. Informed(p)'
        <3>1. \A b \in r.batch \cup {r.item} : Faithful(p, b)'
            BY <1>2, <2>2, <2>3 DEF InOrder, Faithful
        <3>2. Meant(run[p])'
            <4>1. ASSUME NEW i \in run[p].listed \ touched, NEW s, s = source[i].title,
                         s # NoTitle, r.ids[s] # 0
                  PROVE  milestones'[r.ids[s]] = s \/ r.ids[s] \in renamed[i]
                <5>1. s \in Titles
                    BY <1>1, <1>2, <4>1, Fields DEF Typed
                <5>2. CASE s = t
                    BY <1>2, <1>3, <2>1, <2>2, <5>2 DEF InOrder
                <5>3. CASE s # t
                    <6>1. r.ids[s] = run[p].ids[s] /\ r.ids[s] \in Ids \ {0}
                        BY <1>2, <2>2, <4>1, <5>1, <5>3 DEF InOrder
                    <6>2. Bears(i, r.ids[s])
                        BY <1>2, <4>1, <6>1 DEF InOrder, Meant
                    <6> QED BY <2>1, <4>1, <6>1, <6>2 DEF Kind, Bears
                <5> QED BY <5>2, <5>3
            <4> QED BY <2>2, <2>3, <4>1 DEF Meant, Bears
        <3>3. r.item.n \notin touched /\ r.item.title # NoTitle =>
                r.id # 0 /\ milestones'[r.id] = source[r.item.n].title
            BY <2>1, <2>2, <3>1, <1>2 DEF InOrder, Faithful
        <3> QED BY <2>1, <2>2, <2>3, <3>1, <3>2, <3>3 DEF Informed, Bears
    <2>7. Tracked(p)'
        <3> SUFFICES ASSUME NEW i \in run[p].listed \ touched
                     PROVE  Followed(i)' \/ (\E b \in r.batch : b.n = i) \/ r.item.n = i
            BY <2>2, <2>3 DEF Tracked
        <3>1. i \in Items /\ Undisturbed({i})
            BY <1>2, <2>1, <2>3, Fields, KindBears DEF Undisturbed
        <3> QED BY <1>1, <1>2, <2>2, <2>3, <3>1, StillFollowed DEF InOrder
    <2>8. Goes(p, r, "write")
        BY <1>1, <1>5, <2>1, <2>2 DEF Goes, Keep, Goto, Places, Typed
    <2>9. copies' \in [Items -> [labels : SUBSET Labels, id : Ids']]
        BY <1>1, <2>1, <2>3 DEF Typed
    <2> QED BY <2>3, <2>4, <2>5, <2>6, <2>7, <2>8, <2>9, GoesOn DEF RunOK
<1> QED BY <1>4, <1>5 DEF MakeMilestone, containers

-----------------------------------------------------------------------------
(* Writes. *)

(* A copy that is written has its item's fields, unless people changed the item since
   it was listed, or the item has none to send. *)
LEMMA WrittenStep ==
    ASSUME Inv, NEW p \in Runs, NEW ls \in SUBSET Labels, pc[p] = "write", Written(p, ls),
           run[p].item.labels # {} => ls = run[p].item.labels
    PROVE  Inv'
<1> DEFINE r == [run[p] EXCEPT !.item = NoItem, !.id = 0]
<1> PICK i : i = run[p].item.n
    OBVIOUS
<1>1. Typed /\ RunOK(p) /\ HasItem(p)
    BY DEF Inv, HasItem
<1>2. InOrder(p, run[p]) /\ run[p] \in Kept
    BY <1>1, InOrderNow DEF InOrder
<1>3. /\ i \in run[p].listed /\ i \in Items
      /\ i \notin touched => run[p].item.labels = source[i].labels /\ run[p].item.title = source[i].title
    BY <1>1, <1>2, Fields DEF InOrder, Faithful
<1>4. /\ run' = [run EXCEPT ![p] = r] /\ pc' = [pc EXCEPT ![p] = "next"]
      /\ UNCHANGED <<target, acts, source, touched, renamed, without, group, project, labels, milestones>>
    BY DEF Written, Goto, containers
<1>5. /\ r \in Kept /\ r.listed = run[p].listed /\ r.batch = run[p].batch
      /\ r.want = run[p].want /\ r.ids = run[p].ids /\ r.id = 0 /\ r.item = NoItem
    BY <1>2 DEF Kept
<1> HIDE DEF r
<1>6. run'[p] = r /\ pc'[p] = "next" /\ ~HasItem(p)'
    BY <1>1, <1>4 DEF Typed, HasItem
<1>7. /\ \A j \in Items \ {i} : copies'[j] = copies[j]
      /\ copies'[i].labels = ls
      /\ run[p].id # 0 => copies'[i].id = run[p].id
      /\ copies'[i].id \in {copies[i].id, run[p].id}
    BY <1>1, <1>3 DEF Written, Typed
<1>8. copies' \in [Items -> [labels : SUBSET Labels, id : Ids']]
    <2>1. run[p].id \in Ids /\ copies[i].id \in Ids /\ Ids' = Ids
        BY <1>1, <1>2, <1>3, <1>4 DEF InOrder, Typed, Ids
    <2>2. [labels |-> ls, id |-> IF run[p].id = 0 THEN copies[i].id ELSE run[p].id]
            \in [labels : SUBSET Labels, id : Ids]
        BY <2>1
    <2>3. copies' = [copies EXCEPT ![i] =
             [labels |-> ls, id |-> IF run[p].id = 0 THEN copies[i].id ELSE run[p].id]]
        BY <1>1, <1>3 DEF Written, Typed
    <2> QED BY <1>1, <2>1, <2>2, <2>3 DEF Typed
<1>9. i \notin touched => Followed(i)'
    <2> SUFFICES ASSUME i \notin touched PROVE Followed(i)'
        OBVIOUS
    <2>1. source[i].labels # {} => copies'[i].labels = source[i].labels
        BY <1>3, <1>7
    <2>2. source[i].title # NoTitle => Bears(i, run[p].id) \/ Without(i)
        BY <1>1, <1>3 DEF RunOK, Informed
    <2>3. source[i].title # NoTitle => Bears(i, copies'[i].id) \/ Without(i)
        BY <1>7, <2>2 DEF Bears
    <2> QED BY <1>4, <1>7, <2>1, <2>3 DEF Followed, Bears, Without
<1>10. RunOK(p)'
    <2>1. Way(p)'
        <3>1. Ids' = Ids /\ 0 \in Ids
            BY <1>1, <1>4 DEF Ids, Typed
        <3>2. project /\ run'[p].ids \in [Titles -> Ids'] /\ run'[p].id \in Ids'
            BY <1>1, <1>2, <1>5, <1>6, <3>1 DEF InOrder, RunOK, Way, AtItems
        <3> QED BY <1>4, <1>6, <3>2 DEF Way, AtItems
    <2>2. Labelled(p)'
        BY <1>2, <1>4, <1>5, <1>6 DEF Labelled, InOrder
    <2>3. Informed(p)'
        <3>1. \A b \in r.batch : Faithful(p, b)'
            BY <1>2, <1>4, <1>5, <1>6 DEF InOrder, Faithful
        <3>2. Meant(run[p])'
            BY <1>2, <1>4, <1>5, <1>6 DEF InOrder, Meant, Bears
        <3> QED BY <1>6, <3>1, <3>2 DEF Informed
    <2>4. Tracked(p)'
        <3> SUFFICES ASSUME NEW j \in run[p].listed \ touched
                     PROVE  Followed(j)' \/ \E b \in r.batch : b.n = j
            BY <1>4, <1>5, <1>6 DEF Tracked
        <3>1. CASE j = i
            BY <1>9, <3>1
        <3>2. CASE j # i
            <4>1. j \in Items
                BY <1>2, Fields
            <4> QED BY <1>2, <1>4, <1>5, <1>7, <3>2, <4>1 DEF InOrder, Followed, Bears, Without
        <3> QED BY <3>1, <3>2
    <2> QED BY <2>1, <2>2, <2>3, <2>4 DEF RunOK
<1>11. Goes(p, r, "next")
    BY <1>1, <1>4, <1>5, SameContainers DEF Goes, Places, containers, Typed
<1> QED BY <1>3, <1>7, <1>8, <1>10, <1>11, GoesOn

LEMMA WriteStep ==
    ASSUME Inv, NEW p \in Runs, WriteGitLab(p) \/ WriteGitHub(p)
    PROVE  Inv'
<1>1. Typed /\ pc[p] = "write" /\ HasItem(p)
    BY DEF Inv, WriteGitLab, WriteGitHub, HasItem
<1>2. InOrder(p, run[p])
    BY <1>1, InOrderNow
<1>3. run[p].item.n \in Items /\ run[p].item.labels \in SUBSET Labels
    BY <1>2 DEF InOrder, Snapshot
<1>4. copies[run[p].item.n].labels \in SUBSET Labels
    BY <1>1, <1>3 DEF Typed
<1>5. CASE run[p].item.labels = {} /\ Written(p, copies[run[p].item.n].labels)
    BY <1>1, <1>4, <1>5, WrittenStep
<1>6. CASE Written(p, run[p].item.labels)
    BY <1>1, <1>3, <1>6, WrittenStep
<1> QED BY <1>5, <1>6 DEF WriteGitLab, WriteGitHub

-----------------------------------------------------------------------------
(* Runs start and end. *)

LEMMA IdleIsRight ==
    ASSUME NEW p \in Runs, run'[p] = NoRun, pc'[p] = "idle", milestones' \in Seq(Titles)
    PROVE  RunOK(p)'
<1> USE Blank
<1>1. ~HasItem(p)' /\ ~AtItems(p)'
    BY DEF HasItem, AtItems
<1>2. Way(p)'
    <2>1. 0 \in Ids' /\ Titles = Titles'
        BY DEF Ids
    <2>2. NoRun.ids \in [Titles -> Ids'] /\ NoRun.id \in Ids'
        BY <2>1
    <2> QED BY <1>1, <2>2 DEF Way
<1>3. Labelled(p)' /\ Informed(p)' /\ Tracked(p)'
    BY <1>1 DEF Labelled, Informed, Meant, Tracked
<1> QED BY <1>2, <1>3 DEF RunOK

(* A run may end when everything it listed is followed or left to the next one. *)
LEMMA GoesIdle ==
    ASSUME Inv, NEW p \in Runs, run' = [run EXCEPT ![p] = NoRun], pc' = [pc EXCEPT ![p] = "idle"],
           UNCHANGED <<target, acts, source, renamed, without, containers, copies>>,
           touched \subseteq touched', touched' \subseteq Items,
           \A i \in run[p].listed \ touched' : Followed(i)
    PROVE  Inv'
<1> USE Blank DEF Inv
<1>1. run'[p] = NoRun /\ pc'[p] = "idle"
      /\ \A q \in Runs \ {p} : run'[q] = run[q] /\ pc'[q] = pc[q]
    BY DEF Typed
<1>2. Grown /\ Kind
    BY SameContainers
<1>3. Typed'
    BY DEF Typed, containers, Ids, Places
<1>4. Undisturbed(Items)
    BY <1>2, KindBears DEF Undisturbed
<1>5. Apart'
    BY <1>1 DEF Apart
<1>6. ASSUME NEW q \in Runs PROVE RunOK(q)'
    <2>1. CASE q = p
        BY <1>1, <1>2, <2>1, IdleIsRight DEF Grown
    <2>2. CASE q # p
        <3>1. Undisturbed(run[q].listed)
            BY <1>4, Fields DEF Typed, Undisturbed
        <3> QED BY <1>1, <1>2, <2>2, <3>1, Others
    <2> QED BY <2>1, <2>2
<1>7. FieldsFollow'
    <2> SUFFICES ASSUME NEW i \in Items \ (touched' \cup Listed') PROVE Followed(i)'
        BY DEF FieldsFollow, Followed, Bears, Without
    <2>1. Undisturbed({i})
        BY <1>4 DEF Undisturbed
    <2>2. Followed(i)
        <3>1. CASE i \in run[p].listed
            BY <3>1
        <3>2. CASE i \notin run[p].listed
            <4>1. i \notin Listed
                BY <1>1, <3>2 DEF Listed
            <4> QED BY <4>1 DEF FieldsFollow, Followed, Bears, Without
        <3> QED BY <3>1, <3>2
    <2> QED BY <2>1, <2>2, StillFollowed
<1> QED BY <1>3, <1>5, <1>6, <1>7

LEMMA FinishRunStep ==
    ASSUME Inv, NEW p \in Runs, FinishRun(p)
    PROVE  Inv'
<1>1. \A i \in run[p].listed \ touched : Followed(i)
    BY DEF Inv, RunOK, Tracked, FinishRun, HasItem
<1>2. touched \subseteq Items
    BY DEF Inv, Typed
<1> QED BY <1>1, <1>2, GoesIdle DEF FinishRun, Goto

LEMMA RelistStep ==
    ASSUME Inv, NEW p \in Runs, Relist(p)
    PROVE  Inv'
<1>1. touched \subseteq Items /\ run[p].listed \subseteq Items
    BY Fields DEF Inv, Typed
<1> QED BY <1>1, GoesIdle DEF Relist, Goto

(* A run lists what nobody else has listed. *)
LEMMA StartRunStep ==
    ASSUME Inv, NEW p \in Runs, StartRun(p)
    PROVE  Inv'
<1> DEFINE batch == {[n |-> i, labels |-> source[i].labels, title |-> source[i].title] : i \in Free}
           r == [run[p] EXCEPT !.listed = Free, !.batch = batch, !.want = labelsOf(batch)]
<1> USE Blank DEF Inv
<1>1. /\ pc[p] = "idle" /\ run[p] = NoRun
      /\ UNCHANGED <<target, acts, source, containers, copies>>
      /\ pc' = [pc EXCEPT ![p] = "repo"]
      /\ touched' = touched \ Free /\ without' = without \ Free
      /\ renamed' = [i \in Items |-> IF i \in Free THEN {} ELSE renamed[i]]
    BY DEF StartRun, Going, RunOK, Way
<1>2. Free \subseteq touched /\ Free \subseteq Items
    BY DEF Free, Typed
<1>3. /\ batch \subseteq Snapshot
      /\ \A b \in batch : b.n \in Free /\ b.labels = source[b.n].labels /\ b.title = source[b.n].title
      /\ \A i \in Free : \E b \in batch : b.n = i
    <2>1. \A i \in Free : source[i] \in [labels : SUBSET Labels, title : Titles \cup {NoTitle}]
        BY <1>2 DEF Typed
    <2>2. \A i \in Free :
            [n |-> i, labels |-> source[i].labels, title |-> source[i].title] \in Snapshot
        BY <1>2, <2>1 DEF Snapshot
    <2>3. \A b \in batch : \E i \in Free :
            b = [n |-> i, labels |-> source[i].labels, title |-> source[i].title]
        OBVIOUS
    <2>4. \A i \in Free :
            [n |-> i, labels |-> source[i].labels, title |-> source[i].title] \in batch
        OBVIOUS
    <2> HIDE DEF batch
    <2>5. batch \subseteq Snapshot
        BY <2>2, <2>3
    <2>6. \A b \in batch : b.n \in Free /\ b.labels = source[b.n].labels /\ b.title = source[b.n].title
        BY <2>3
    <2>7. \A i \in Free : \E b \in batch : b.n = i
        BY <2>4
    <2> QED BY <2>5, <2>6, <2>7
<1>4. /\ run' = [run EXCEPT ![p] = r]
    BY DEF StartRun, Typed
<1> HIDE DEF batch
<1>5. labelsOf(batch) \subseteq Labels /\ \A b \in batch : b.labels \subseteq labelsOf(batch)
    BY <1>3 DEF labelsOf, Snapshot
<1>6. /\ r \in Kept /\ r.listed = Free /\ r.batch = batch /\ r.want = labelsOf(batch)
      /\ r.ids = NoRun.ids /\ r.id = 0
    BY <1>1, <1>2, <1>3, <1>5 DEF Kept
<1> HIDE DEF r
<1>7. run'[p] = r /\ pc'[p] = "repo" /\ \A q \in Runs \ {p} : run'[q] = run[q] /\ pc'[q] = pc[q]
    BY <1>1, <1>4 DEF Typed
<1>8. Grown /\ Kind
    BY <1>1, SameContainers
<1>9. Typed'
    <2>1. renamed' \in [Items -> SUBSET (Ids' \ {0})] /\ without' \subseteq Items
        BY <1>1 DEF Typed, containers, Ids
    <2> QED BY <1>1, <1>4, <1>6, <2>1 DEF Typed, containers, Ids, Places
<1>10. ASSUME NEW q \in Runs \ {p} PROVE run[q].listed \cap Free = {} /\ run[q].listed \subseteq Items
    <2>1. CASE pc[q] = "idle"
        BY <2>1 DEF RunOK, Way
    <2>2. CASE pc[q] # "idle"
        BY <2>2, Fields DEF Free, Going, Typed
    <2> QED BY <2>1, <2>2
<1>11. Apart'
    BY <1>6, <1>7, <1>10 DEF Apart
<1>12. ASSUME NEW q \in Runs PROVE RunOK(q)'
    <2>1. CASE q # p
        <3>1. Undisturbed(run[q].listed)
            BY <1>1, <1>8, <1>10, <2>1, KindBears DEF Undisturbed
        <3> QED BY <1>1, <1>7, <1>8, <2>1, <3>1, Others
    <2>2. CASE q = p
        <3>1. ~HasItem(q)' /\ ~AtItems(q)'
            BY <1>7, <2>2 DEF HasItem, AtItems
        <3>2. Way(q)'
            <4>1. 0 \in Ids'
                BY <1>9 DEF Ids, Typed
            <4>2. r.ids \in [Titles -> Ids'] /\ r.id \in Ids'
                BY <1>6, <4>1
            <4> QED BY <1>7, <2>2, <3>1, <4>2 DEF Way
        <3>3. Labelled(q)'
            BY <1>5, <1>6, <1>7, <2>2, <3>1 DEF Labelled
        <3>4. Informed(q)'
            <4>1. \A b \in r.batch : Faithful(p, b)'
                BY <1>1, <1>3, <1>6, <1>7 DEF Faithful
            <4>2. Meant(run[p])'
                <5>1. \A t \in Titles : r.ids[t] = 0
                    BY <1>6
                <5>2. \A i \in Free : source'[i].title \in Titles \cup {NoTitle}
                    BY <1>2, <1>9 DEF Typed
                <5> QED BY <1>6, <1>7, <5>1, <5>2 DEF Meant
            <4> QED BY <1>7, <2>2, <3>1, <4>1, <4>2 DEF Informed
        <3>5. Tracked(q)'
            BY <1>3, <1>6, <1>7, <2>2 DEF Tracked
        <3> QED BY <3>2, <3>3, <3>4, <3>5 DEF RunOK
    <2> QED BY <2>1, <2>2
<1>13. FieldsFollow'
    <2>1. run[p].listed = {} /\ \A q \in Runs : run[q].listed \subseteq run'[q].listed
        BY <1>1, <1>7
    <2>2. Listed \subseteq Listed' /\ Free \subseteq Listed'
        BY <1>6, <1>7, <2>1 DEF Listed
    <2>3. touched \cup Listed \subseteq touched' \cup Listed'
        BY <1>1, <2>2
    <2>4. Undisturbed(Items \ (touched' \cup Listed'))
        BY <1>1, <1>8, <2>2, KindBears DEF Undisturbed
    <2> QED BY <2>3, <2>4, StillFollow
<1> QED BY <1>1, <1>9, <1>11, <1>12, <1>13

-----------------------------------------------------------------------------
(* People. *)

(* What people do disturbs no run, as long as what they change counts as touched or as
   renamed. *)
LEMMA PeopleAct ==
    ASSUME Inv, Act, Grown, Undisturbed(Items),
           source' \in [Items -> [labels : SUBSET Labels, title : Titles \cup {NoTitle}]],
           touched \subseteq touched', touched' \subseteq Items,
           renamed' \in [Items -> SUBSET (Ids \ {0})]
    PROVE  Inv'
<1> USE DEF Inv, Act
<1>1. acts' \in 0..MaxActs
    BY ContainersAssumption
<1>2. Typed'
    <2>1. copies' \in [Items -> [labels : SUBSET Labels, id : Ids']]
        BY GrownIds DEF Typed
    <2>2. renamed' \in [Items -> SUBSET (Ids' \ {0})]
        BY GrownIds
    <2> QED BY <2>1, <2>2 DEF Typed, Grown
<1>3. Apart' /\ Listed' = Listed
    BY DEF Apart, Listed
<1>4. ASSUME NEW p \in Runs PROVE RunOK(p)'
    <2>1. Undisturbed(run[p].listed)
        BY Fields DEF Typed, Undisturbed
    <2> QED BY <2>1, Others
<1>5. FieldsFollow'
    <2>1. Undisturbed(Items \ (touched' \cup Listed'))
        BY DEF Undisturbed
    <2> QED BY <1>3, <2>1, StillFollow
<1> QED BY <1>1, <1>2, <1>3, <1>4, <1>5

LEMMA EditStep ==
    ASSUME Inv, NEW i \in Items, Label(i) \/ Plan(i)
    PROVE  Inv'
<1>1. Typed
    BY DEF Inv
<1>2. PICK fields \in [labels : SUBSET Labels, title : Titles \cup {NoTitle}] : Edit(i, fields)
    <2>1. source[i] \in [labels : SUBSET Labels, title : Titles \cup {NoTitle}]
        BY <1>1 DEF Typed
    <2>2. CASE Label(i)
        BY <2>1, <2>2 DEF Label
    <2>3. CASE Plan(i)
        BY <2>1, <2>3 DEF Plan
    <2> QED BY <2>2, <2>3
<1>3. Act /\ UNCHANGED <<renamed, containers>> /\ touched' = touched \cup {i}
      /\ source' = [source EXCEPT ![i] = fields]
    BY <1>2 DEF Edit
<1>4. Grown /\ Kind
    BY <1>1, <1>3, SameContainers
<1>5. Undisturbed(Items)
    BY <1>1, <1>3, <1>4, KindBears DEF Undisturbed, Typed, Act
<1>6. /\ source' \in [Items -> [labels : SUBSET Labels, title : Titles \cup {NoTitle}]]
      /\ touched' \subseteq Items /\ renamed' \in [Items -> SUBSET (Ids \ {0})]
    BY <1>1, <1>3 DEF Typed
<1> QED BY <1>3, <1>4, <1>5, <1>6, PeopleAct

LEMMA NewMilestoneStep ==
    ASSUME Inv, NEW t \in Titles, NewMilestone(t)
    PROVE  Inv'
<1>1. Typed /\ Act /\ UNCHANGED <<source, touched, renamed>>
    BY DEF Inv, NewMilestone
<1>2. milestones' = Append(milestones, t) /\ UNCHANGED <<group, project, labels>>
    BY DEF NewMilestone
<1>3. Grown /\ Kind
    BY <1>1, <1>2, Appended, Zenon
<1>4. Undisturbed(Items)
    BY <1>1, <1>3, KindBears DEF Undisturbed, Act
<1> QED BY <1>1, <1>3, <1>4, PeopleAct DEF Typed

(* Who had the title of a renamed milestone counts it as renamed. *)
LEMMA RenameStep ==
    ASSUME Inv, NEW id \in DOMAIN milestones, Rename(id)
    PROVE  Inv'
<1>1. PICK t \in Titles :
        /\ milestones' = [milestones EXCEPT ![id] = t]
        /\ renamed' = [i \in Items |->
               IF source[i].title = milestones[id] THEN renamed[i] \cup {id} ELSE renamed[i]]
    BY DEF Rename
<1>2. Typed /\ Act /\ UNCHANGED <<source, touched, group, project, labels>>
    BY DEF Inv, Rename
<1>3. /\ milestones' \in Seq(Titles) /\ Len(milestones') = Len(milestones) /\ Len(milestones) \in Nat
      /\ \A o \in Ids \ {0, id} : milestones'[o] = milestones[o]
      /\ id \in Ids \ {0}
    BY <1>1, <1>2 DEF Typed, Ids
<1>4. Grown
    BY <1>2, <1>3 DEF Grown, Typed
<1>5. renamed' \in [Items -> SUBSET (Ids \ {0})]
    BY <1>1, <1>2, <1>3 DEF Typed
<1>6. \A i \in Items : renamed[i] \subseteq renamed'[i]
    BY <1>1
<1>7. ASSUME NEW i \in Items, NEW o \in Ids \ {0}, Bears(i, o) PROVE Bears(i, o)'
    <2>1. CASE o \in renamed[i]
        BY <1>6, <2>1 DEF Bears
    <2>2. CASE milestones[o] = source[i].title /\ o = id
        BY <1>1, <2>2 DEF Bears
    <2>3. CASE milestones[o] = source[i].title /\ o # id
        BY <1>2, <1>3, <2>3 DEF Bears
    <2> QED BY <1>7, <2>1, <2>2, <2>3 DEF Bears
<1>8. Undisturbed(Items)
    BY <1>2, <1>6, <1>7 DEF Undisturbed, Act
<1> QED BY <1>2, <1>4, <1>5, <1>8, PeopleAct DEF Inv, Typed

-----------------------------------------------------------------------------
(* The theorems. *)

(* Every step of people or of a run keeps the invariant. *)
LEMMA Inductive == Inv /\ [Next]_vars => Inv'
<1> SUFFICES ASSUME Inv, [Next]_vars PROVE Inv'
    OBVIOUS
<1>1. CASE UNCHANGED vars
    <2>1. UNCHANGED <<target, acts, source, touched, renamed, without, group, project, labels, milestones,
                      copies, pc, run>>
        BY <1>1 DEF vars, containers
    <2>2. Typed' /\ Apart' /\ Listed' = Listed /\ acts' \in 0..MaxActs
        BY <2>1 DEF Inv, Typed, Ids, Apart, Listed
    <2>3. Undisturbed(Items) /\ Grown
        <3>1. Grown /\ Kind
            BY <1>1, SameContainers DEF Inv, vars
        <3> QED BY <2>1, <3>1, KindBears DEF Undisturbed
    <2>4. ASSUME NEW p \in Runs PROVE RunOK(p)'
        <3>1. Undisturbed(run[p].listed)
            BY <2>3, Fields DEF Inv, Typed, Undisturbed
        <3> QED BY <2>1, <2>3, <3>1, Others DEF Inv
    <2>5. FieldsFollow'
        <3>1. Undisturbed(Items \ (touched' \cup Listed'))
            BY <2>3 DEF Undisturbed
        <3> QED BY <2>1, <2>2, <3>1, StillFollow DEF Inv
    <2> QED BY <2>2, <2>4, <2>5 DEF Inv
<1>2. CASE People
    BY <1>2, EditStep, NewMilestoneStep, RenameStep DEF People
<1>3. ASSUME NEW p \in Runs, StartRun(p) \/ Step(p) \/ Crash(p) PROVE Inv'
    <2>1. CASE StartRun(p)
        BY <2>1, StartRunStep
    <2>2. CASE Ensure(p)
        BY <2>2, RepositoryStep, MakeLabelStep, LabelsDoneStep DEF Ensure
    <2>3. CASE Write(p)
        BY <2>3, TakeItemStep, ListMilestonesStep, MakeMilestoneStep, ListAgainStep, WriteStep
           DEF Write
    <2>4. CASE FinishRun(p)
        BY <2>4, FinishRunStep
    <2>5. CASE GiveUp(p) \/ Crash(p)
        BY <2>5, RelistStep DEF GiveUp, Crash
    <2> QED BY <1>3, <2>1, <2>2, <2>3, <2>4, <2>5 DEF Step
<1> QED BY <1>1, <1>2, <1>3 DEF Next

LEMMA Invariant == Spec => []Inv
BY Initial, Inductive, PTL DEF Spec

(* The variables keep their types, and nothing refers to a milestone that is not there. *)
THEOREM TypeCorrect == Spec => []TypeOK
<1>1. Inv => TypeOK
    <2> SUFFICES ASSUME Inv PROVE TypeOK
        OBVIOUS
    <2>1. Typed /\ acts \in 0..MaxActs
        BY DEF Inv
    <2>2. ASSUME NEW p \in Runs
          PROVE  run[p].id \in Ids /\ run[p].ids \in [Titles -> Ids] /\ run[p].listed \subseteq Items
        BY <2>1, Fields DEF Inv, RunOK, Way, Typed
    <2> QED BY <2>1, <2>2 DEF TypeOK, Typed, Ids
<1> QED BY <1>1, Invariant, PTL

(* A run that loses the race for the group or the project fails on GitHub only. *)
THEOREM NoRaceIsLost == Spec => []NoRaceLost
<1>1. Inv => NoRaceLost
    BY DEF Inv, RunOK, Way, NoRaceLost
<1> QED BY <1>1, Invariant, PTL

(* An item is written to a project that is there and knows its labels. *)
THEOREM LabelsAlwaysKnown == Spec => []LabelsKnown
<1>1. Inv => LabelsKnown
    BY DEF Inv, RunOK, Way, Labelled, HasItem, AtItems, LabelsKnown
<1> QED BY <1>1, Invariant, PTL

(* What was written has the labels of its original and a milestone that bears its title,
   or bore it when it was listed, whenever runs and people make and rename milestones. *)
THEOREM FieldsAlwaysFollow == Spec => []FieldsFollow
<1>1. Inv => FieldsFollow
    BY DEF Inv
<1> QED BY <1>1, Invariant, PTL

=============================================================================
