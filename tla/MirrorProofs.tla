---------------------------- MODULE MirrorProofs ----------------------------
(* Proofs about Mirror for every value of its constants. *)
EXTENDS Mirror, LeastNumber, FiniteSetTheorems, SequenceTheorems, WellFoundedInduction, TLAPS

-----------------------------------------------------------------------------
(* Types.  A run past StartRun started no earlier than the clock did, so its
   cursor is not before the zero time; a run inside a repository is in one that
   exists, and holds only items that are there. *)

InRepo == {"list", "events", "fetch", "ensure", "origins", "labels", "issue", "close", "comments", "have", "post"}
OnItem == {"close", "comments", "have", "post"}

Placed ==
    /\ Start <= clock
    /\ \A r \in Repos : Len(src[r]) <= MaxItems
    /\ \A p \in Jobs :
        /\ pc[p] # "idle" => Start <= pass[p].started
        /\ pc[p] \in InRepo <=> work[p].repo \in Repos
        /\ \A b \in work[p].batch : work[p].repo \in Repos /\ b.n \in DOMAIN src[work[p].repo]
        /\ pc[p] \in OnItem => work[p].item.n \in DOMAIN src[work[p].repo]

TypeInv == TypeOK /\ Placed

USE JobsAssumption, BoundsAssumption, TimeAssumption

LEMMA InitTypes == Init => TypeInv
BY DEF Init, TypeInv, TypeOK, Placed, NoWork, NoPass, NoItem, Pass, Work, Snapshot, States,
       Places, Numbers, InRepo, OnItem

LEMMA SourceTyped ==
    ASSUME TypeOK, NEW r \in Repos
    PROVE  /\ src[r] \in Seq(SourceItem) /\ Len(src[r]) \in Nat
           /\ DOMAIN src[r] = 1..Len(src[r])
           /\ \A n \in DOMAIN src[r] : n \in Nat /\ src[r][n] \in SourceItem /\ src[r][n].notes \in Seq(Nat)
<1>1. src[r] \in Seq(SourceItem)
    BY DEF TypeOK
<1>2. \A n \in DOMAIN src[r] : n \in Nat /\ src[r][n] \in SourceItem
    BY <1>1, LenProperties, ElementOfSeq
<1>3. \A i \in SourceItem : i.notes \in Seq(Nat)
    BY DEF SourceItem
<1> QED BY <1>1, <1>2, <1>3, LenProperties

LEMMA TargetTyped ==
    ASSUME TypeOK, NEW r \in Repos
    PROVE  /\ tgt[r] \in Seq(TargetItem) /\ Len(tgt[r]) \in Nat
           /\ DOMAIN tgt[r] = 1..Len(tgt[r])
           /\ \A c \in DOMAIN tgt[r] : c \in Nat /\ tgt[r][c] \in TargetItem /\ tgt[r][c].notes \in Seq(Nat)
<1>1. tgt[r] \in Seq(TargetItem)
    BY DEF TypeOK
<1>2. \A c \in DOMAIN tgt[r] : c \in Nat /\ tgt[r][c] \in TargetItem
    BY <1>1, LenProperties, ElementOfSeq
<1>3. \A i \in TargetItem : i.notes \in Seq(Nat)
    BY DEF TargetItem
<1> QED BY <1>1, <1>2, <1>3, LenProperties

LEMMA NotesEdited ==
    ASSUME NEW i \in TargetItem, NEW notes \in Seq(Nat)
    PROVE  [i EXCEPT !.notes = notes] \in TargetItem
BY DEF TargetItem

LEMMA ItemEdited ==
    ASSUME NEW i \in SourceItem, NEW e \in Nat, NEW t \in Nat
    PROVE  /\ \A s \in States : [i EXCEPT !.rev = e, !.at = t, !.state = s] \in SourceItem
           /\ \A notes \in Seq(Nat) :
                /\ [i EXCEPT !.rev = e, !.at = t, !.notes = notes] \in SourceItem
                /\ [i EXCEPT !.noted = t, !.notes = notes] \in SourceItem
<1>1. \A s \in States : [i EXCEPT !.rev = e, !.at = t, !.state = s] \in SourceItem
    BY DEF SourceItem
<1>2. \A notes \in Seq(Nat) : [i EXCEPT !.rev = e, !.at = t, !.notes = notes] \in SourceItem
    BY DEF SourceItem
<1>3. \A notes \in Seq(Nat) : [i EXCEPT !.noted = t, !.notes = notes] \in SourceItem
    BY DEF SourceItem
<1> QED BY <1>1, <1>2, <1>3

(* The environment's changes of the source. *)
LEMMA ChangeTypes ==
    ASSUME TypeInv, NEW r \in Repos, NEW items \in Seq(SourceItem),
           DOMAIN src[r] \subseteq DOMAIN items, Len(items) <= MaxItems, Change(r, items)
    PROVE  TypeInv'
BY DEF TypeInv, TypeOK, Placed, Change, jobs

LEMMA EditTypes ==
    ASSUME TypeInv, NEW r \in Repos, NEW n \in DOMAIN src[r], NEW i \in SourceItem,
           Change(r, [src[r] EXCEPT ![n] = i])
    PROVE  TypeInv'
<1> DEFINE items == [src[r] EXCEPT ![n] = i]
<1>1. src[r] \in Seq(SourceItem) /\ n \in 1..Len(src[r])
    BY SourceTyped DEF TypeInv
<1>2. items \in Seq(SourceItem) /\ DOMAIN src[r] \subseteq DOMAIN items /\ Len(items) = Len(src[r])
    BY <1>1, ExceptSeq
<1>3. Len(items) <= MaxItems
    BY <1>2 DEF TypeInv, Placed
<1> HIDE DEF items
<1> QED BY <1>2, <1>3, ChangeTypes DEF items

(* Any write to one item of the target that leaves it an item. *)
LEMMA TargetWrite ==
    ASSUME tgt \in [Repos -> Seq(TargetItem)], NEW r \in Repos, NEW c, NEW i,
           c \in DOMAIN tgt[r] => i \in TargetItem
    PROVE  [tgt EXCEPT ![r] = [tgt[r] EXCEPT ![c] = i]] \in [Repos -> Seq(TargetItem)]
<1>1. tgt[r] \in Seq(TargetItem) /\ DOMAIN tgt[r] = 1..Len(tgt[r])
    BY LenProperties
<1>2. [tgt[r] EXCEPT ![c] = i] \in Seq(TargetItem)
    <2>1. CASE c \in DOMAIN tgt[r]
        BY <1>1, <2>1, ExceptSeq
    <2>2. CASE c \notin DOMAIN tgt[r]
        <3>1. [tgt[r] EXCEPT ![c] = i] = tgt[r]
            BY <1>1, <2>2
        <3> QED BY <1>1, <3>1
    <2> QED BY <2>1, <2>2
<1> QED BY <1>2

LEMMA ForgesTypes == ASSUME TypeInv, Forges PROVE TypeInv'
<1>1. CASE Tick
    BY <1>1 DEF TypeInv, TypeOK, Placed, Tick, jobs
<1>2. ASSUME NEW r \in Repos, NEW m \in Nat, NEW s \in States, Len(src[r]) < MaxItems,
             Change(r, Append(src[r], Fresh(s, m)))
      PROVE  TypeInv'
    <2> DEFINE i == Fresh(s, m)
    <2>0. rev + 1 \in Nat /\ clock \in Nat /\ <<>> \in Seq(Nat)
        BY EmptySeq DEF TypeInv, TypeOK
    <2>1. i \in SourceItem /\ src[r] \in Seq(SourceItem)
        BY <2>0, SourceTyped DEF TypeInv, SourceItem, Fresh
    <2> HIDE DEF i
    <2>2. Append(src[r], i) \in Seq(SourceItem) /\ DOMAIN src[r] \subseteq DOMAIN Append(src[r], i)
        BY <2>1
    <2>3. Len(Append(src[r], i)) = Len(src[r]) + 1 /\ Len(src[r]) \in Nat
        BY <2>1, AppendProperties, LenProperties
    <2>4. Len(Append(src[r], i)) <= MaxItems
        BY <1>2, <2>3
    <2> QED BY <1>2, <2>2, <2>4, ChangeTypes DEF i
<1>3. ASSUME NEW r \in Repos, OwnItem(r) PROVE TypeInv'
    BY <1>3 DEF TypeInv, TypeOK, Placed, OwnItem, jobs, TargetItem, States
<1>4. ASSUME NEW r \in Repos, NEW n \in DOMAIN src[r], EditItem(r, n) PROVE TypeInv'
    <2>1. PICK s \in States :
              Change(r, [src[r] EXCEPT ![n] = [@ EXCEPT !.rev = rev + 1, !.at = clock, !.state = s]])
        BY <1>4 DEF EditItem
    <2>0. rev + 1 \in Nat /\ clock \in Nat
        BY DEF TypeInv, TypeOK
    <2>2. [src[r][n] EXCEPT !.rev = rev + 1, !.at = clock, !.state = s] \in SourceItem
        BY <2>0, SourceTyped, ItemEdited DEF TypeInv
    <2> QED BY <2>1, <2>2, EditTypes
<1>5. ASSUME NEW r \in Repos, NEW n \in DOMAIN src[r], NEW k \in Nat, Comment(r, n, k) PROVE TypeInv'
    <2>0. rev + 1 \in Nat /\ clock \in Nat /\ Append(src[r][n].notes, k) \in Seq(Nat)
        BY SourceTyped, AppendProperties DEF TypeInv, TypeOK
    <2> DEFINE bumped == [src[r][n] EXCEPT !.rev = rev + 1, !.at = clock, !.notes = Append(@, k)]
               noted  == [src[r][n] EXCEPT !.noted = clock, !.notes = Append(@, k)]
               i      == IF From = "github" THEN bumped ELSE noted
    <2>1. bumped \in SourceItem /\ noted \in SourceItem
        BY <2>0, SourceTyped, ItemEdited DEF TypeInv
    <2>2. Change(r, [src[r] EXCEPT ![n] = i])
        BY <1>5 DEF Comment
    <2> HIDE DEF i
    <2>3. i \in SourceItem
        BY <2>1 DEF i
    <2> QED BY <2>2, <2>3, EditTypes
<1>6. ASSUME NEW r \in Repos, NEW n \in DOMAIN src[r], RestoredNote(r, n) PROVE TypeInv'
    <2>1. PICK c \in Counterparts(r, n) : \E k \in DOMAIN tgt[r][c].notes :
              tgt[r][c].notes[k] = 0 /\ Comment(r, n, k)
        BY <1>6 DEF RestoredNote
    <2>2. c \in DOMAIN tgt[r]
        BY DEF Counterparts
    <2>3. tgt[r][c].notes \in Seq(Nat)
        BY <2>2, TargetTyped DEF TypeInv
    <2>4. DOMAIN tgt[r][c].notes \subseteq Nat
        BY <2>3, LenProperties
    <2> QED BY <1>5, <2>1, <2>4
<1>7. ASSUME NEW r \in Repos, NEW c \in DOMAIN tgt[r], RestoredItem(r, c) PROVE TypeInv'
    <2>1. c \in Nat /\ tgt[r][c].state \in States
        BY TargetTyped DEF TypeInv, TargetItem
    <2> QED BY <1>2, <1>7, <2>1 DEF RestoredItem
<1>8. ASSUME NEW r \in Repos, NEW c \in DOMAIN tgt[r], OwnNote(r, c) PROVE TypeInv'
    <2> DEFINE i == [tgt[r][c] EXCEPT !.notes = Append(@, 0)]
    <2>0. tgt[r][c] \in TargetItem /\ Append(tgt[r][c].notes, 0) \in Seq(Nat)
        BY TargetTyped, AppendProperties DEF TypeInv
    <2>1. i \in TargetItem
        BY <2>0, NotesEdited
    <2>2. tgt' = [tgt EXCEPT ![r] = [tgt[r] EXCEPT ![c] = i]]
        BY <1>8 DEF OwnNote
    <2>3. tgt' \in [Repos -> Seq(TargetItem)]
        BY <2>1, <2>2, TargetWrite DEF TypeInv, TypeOK
    <2>4. /\ UNCHANGED <<clock, src, project, labels, cursor, pc, pass, work>>
          /\ rev' = rev + 1
        BY <1>8 DEF OwnNote, jobs
    <2> HIDE DEF i
    <2>5. TypeOK'
        BY <2>3, <2>4 DEF TypeInv, TypeOK
    <2>6. Placed'
        BY <2>4 DEF TypeInv, Placed
    <2> QED BY <2>5, <2>6 DEF TypeInv
<1>9. ASSUME NEW f \in Paths, LoseCursor(f) PROVE TypeInv'
    BY <1>9 DEF TypeInv, TypeOK, Placed, LoseCursor, forges
<1>10. ASSUME NEW r \in Repos, NewItem(r) PROVE TypeInv'
    BY <1>2, <1>10 DEF NewItem, States
<1> QED BY <1>1, <1>3, <1>4, <1>5, <1>6, <1>7, <1>8, <1>9, <1>10 DEF Forges, CommentItem

(* The steps of a run. *)
LEMMA JobTyped ==
    ASSUME TypeOK, NEW p \in Jobs
    PROVE  /\ pc[p] \in Places
           /\ pass[p] \in Pass
           /\ work[p] \in Work
           /\ PathOf[p] \in Paths
           /\ LimitOf[p] \in Nat
BY DEF TypeOK

(* A step that leaves the forges alone and job p in order. *)
LEMMA OwnStep ==
    ASSUME TypeInv, NEW p \in Jobs, UNCHANGED <<clock, rev, src>>,
           tgt' \in [Repos -> Seq(TargetItem)],
           project' \subseteq Repos, labels' \in [Repos -> SUBSET Nat],
           cursor' \in [Paths -> Nat],
           NEW l \in Places, NEW s \in Pass, NEW w \in Work,
           pc' = [pc EXCEPT ![p] = l], pass' = [pass EXCEPT ![p] = s], work' = [work EXCEPT ![p] = w],
           l # "idle" => Start <= s.started,
           l \in InRepo <=> w.repo \in Repos,
           \A b \in w.batch : w.repo \in Repos /\ b.n \in DOMAIN src[w.repo],
           l \in OnItem => w.item.n \in DOMAIN src[w.repo]
    PROVE  TypeInv'
<1>1. TypeOK'
    BY DEF TypeInv, TypeOK
<1>2. Placed'
    BY DEF TypeInv, TypeOK, Placed
<1> QED BY <1>1, <1>2 DEF TypeInv

LEMMA NoWorkTyped == NoWork \in Work /\ NoPass \in Pass /\ NoItem \in Snapshot
BY DEF NoWork, NoPass, NoItem, Work, Pass, Snapshot, States, Numbers

LEMMA StartRunTypes == ASSUME TypeInv, NEW p \in Jobs, StartRun(p) PROVE TypeInv'
<1> DEFINE s == [NoPass EXCEPT !.started = clock, !.since = SinceFor(clock, LimitOf[p], cursor[PathOf[p]])]
<1>1. SinceFor(clock, LimitOf[p], cursor[PathOf[p]]) \in Nat /\ clock \in Nat /\ Start <= clock
    BY JobTyped DEF TypeInv, TypeOK, Placed, SinceFor
<1>2. s \in Pass /\ s.started = clock
    BY <1>1, NoWorkTyped DEF Pass
<1>3. /\ UNCHANGED <<clock, rev, src, tgt, project, labels, cursor>>
      /\ pc[p] = "idle" /\ pc' = [pc EXCEPT ![p] = "repos"]
      /\ pass' = [pass EXCEPT ![p] = s] /\ work' = work
    BY DEF StartRun, forges
<1>4. work' = [work EXCEPT ![p] = work[p]]
    BY <1>3 DEF TypeInv, TypeOK
<1> HIDE DEF s
<1> QED
    <2>1. /\ work[p].repo \notin Repos
          /\ \A b \in work[p].batch : work[p].repo \in Repos /\ b.n \in DOMAIN src[work[p].repo]
        BY <1>3 DEF TypeInv, Placed, InRepo
    <2>2. /\ tgt' \in [Repos -> Seq(TargetItem)] /\ cursor' \in [Paths -> Nat]
          /\ project' \subseteq Repos /\ labels' \in [Repos -> SUBSET Nat] /\ work[p] \in Work
        BY <1>3 DEF TypeInv, TypeOK
    <2>3. "repos" \in Places \ (InRepo \cup OnItem)
        BY DEF Places, InRepo, OnItem
    <2> QED BY <1>1, <1>2, <1>3, <1>4, <2>1, <2>2, <2>3, OwnStep

(* What the steps of a run that keep the forges leave alone. *)
LEMMA Frame ==
    ASSUME TypeInv, NEW p \in Jobs
    PROVE  /\ tgt \in [Repos -> Seq(TargetItem)] /\ cursor \in [Paths -> Nat]
           /\ project \subseteq Repos /\ labels \in [Repos -> SUBSET Nat]
           /\ work = [work EXCEPT ![p] = work[p]]
           /\ pass = [pass EXCEPT ![p] = pass[p]]
           /\ pc = [pc EXCEPT ![p] = pc[p]]
           /\ pc[p] # "idle" => Start <= pass[p].started
           /\ pc[p] \in InRepo <=> work[p].repo \in Repos
           /\ \A b \in work[p].batch : work[p].repo \in Repos /\ b.n \in DOMAIN src[work[p].repo]
           /\ pc[p] \in OnItem => work[p].item.n \in DOMAIN src[work[p].repo]
           /\ pc[p] \in Places /\ pass[p] \in Pass /\ work[p] \in Work
BY DEF TypeInv, TypeOK, Placed

LEMMA HereTyped ==
    ASSUME TypeInv, NEW p \in Jobs, pc[p] \in InRepo
    PROVE  /\ Here(p) \in Repos /\ Here(p) = work[p].repo
           /\ work[p] \in Work /\ pass[p] \in Pass
           /\ \A b \in work[p].batch : b \in Snapshot /\ b.n \in DOMAIN src[Here(p)]
           /\ tgt \in [Repos -> Seq(TargetItem)] /\ cursor \in [Paths -> Nat]
           /\ project \subseteq Repos /\ labels \in [Repos -> SUBSET Nat]
           /\ work = [work EXCEPT ![p] = work[p]]
           /\ pc[p] \in OnItem => work[p].item.n \in DOMAIN src[Here(p)]
BY Frame DEF Here, Work

LEMMA FindReposTypes == ASSUME TypeInv, NEW p \in Jobs, FindRepos(p) PROVE TypeInv'
<1>1. PICK D \in SUBSET Repos : pass' = [pass EXCEPT ![p].todo = D]
    BY DEF FindRepos, Discovered
<1> DEFINE s == [pass[p] EXCEPT !.todo = D]
<1>2. s \in Pass /\ s.started = pass[p].started
    BY JobTyped DEF TypeInv, Pass
<1>3. pass' = [pass EXCEPT ![p] = s]
    BY <1>1
<1>4. "next" \in Places /\ "next" \notin InRepo /\ "next" \notin OnItem /\ "repos" \notin InRepo
    BY DEF Places, InRepo, OnItem
<1>5. /\ UNCHANGED <<clock, rev, src, tgt, project, labels, cursor, work>>
      /\ pc[p] = "repos" /\ pc' = [pc EXCEPT ![p] = "next"]
    BY DEF FindRepos, forges
<1>6. work' = [work EXCEPT ![p] = work[p]] /\ work[p] \in Work /\ Start <= pass[p].started
    BY <1>5, Frame
<1>7. /\ tgt' \in [Repos -> Seq(TargetItem)] /\ project' \subseteq Repos
      /\ labels' \in [Repos -> SUBSET Nat] /\ cursor' \in [Paths -> Nat]
    BY <1>5, Frame
<1>8. /\ work[p].repo \notin Repos
      /\ \A b \in work[p].batch : work[p].repo \in Repos /\ b.n \in DOMAIN src[work[p].repo]
    BY <1>4, <1>5, Frame
<1> HIDE DEF s
<1> QED BY <1>2, <1>3, <1>4, <1>5, <1>6, <1>7, <1>8, OwnStep

LEMMA NextRepoTypes == ASSUME TypeInv, NEW p \in Jobs, NextRepo(p) PROVE TypeInv'
<1>1. PICK r \in pass[p].todo : /\ pc[p] = "next"
                                /\ pass' = [pass EXCEPT ![p].todo = @ \ {r}]
                                /\ work' = [work EXCEPT ![p].repo = r]
                                /\ pc' = [pc EXCEPT ![p] = "list"]
                                /\ UNCHANGED <<clock, rev, src, tgt, project, labels, cursor>>
    BY DEF NextRepo, forges
<1> DEFINE s == [pass[p] EXCEPT !.todo = @ \ {r}]
           w == [work[p] EXCEPT !.repo = r]
<1>2. s \in Pass /\ s.started = pass[p].started /\ r \in Repos
    BY JobTyped DEF TypeInv, Pass
<1>3. w \in Work /\ w.repo = r /\ w.batch = work[p].batch
    BY <1>2, JobTyped DEF TypeInv, Work
<1>4. pass' = [pass EXCEPT ![p] = s] /\ work' = [work EXCEPT ![p] = w]
    BY <1>1
<1>5. "list" \in Places /\ "list" \in InRepo /\ "list" \notin OnItem /\ "next" \notin InRepo
    BY DEF Places, InRepo, OnItem
<1>6. w.batch = {} /\ Start <= pass[p].started
    BY <1>1, <1>3, <1>5, Frame
<1> HIDE DEF s, w
<1>7. /\ tgt' \in [Repos -> Seq(TargetItem)] /\ cursor' \in [Paths -> Nat]
      /\ project' \subseteq Repos /\ labels' \in [Repos -> SUBSET Nat]
    BY <1>1, Frame
<1> QED BY <1>1, <1>2, <1>3, <1>4, <1>5, <1>6, <1>7, OwnStep

LEMMA FinishRunTypes == ASSUME TypeInv, NEW p \in Jobs, FinishRun(p) PROVE TypeInv'
<1>1. pass[p] \in Pass /\ Start <= pass[p].started /\ PathOf[p] \in Paths
    BY JobTyped, Frame DEF FinishRun, TypeInv
<1>2. CursorAfter(pass[p].started) \in Nat
    BY <1>1 DEF CursorAfter, Pass
<1>3. cursor' \in [Paths -> Nat]
    BY <1>1, <1>2, Frame DEF FinishRun
<1>4. "idle" \in Places /\ "idle" \notin InRepo /\ "idle" \notin OnItem /\ "next" \notin InRepo
    BY DEF Places, InRepo, OnItem
<1>5. /\ UNCHANGED <<clock, rev, src, tgt, project, labels, work>>
      /\ pc[p] = "next" /\ pc' = [pc EXCEPT ![p] = "idle"]
      /\ pass' = [pass EXCEPT ![p] = NoPass]
    BY DEF FinishRun, forges
<1>6. work' = [work EXCEPT ![p] = work[p]] /\ work[p] \in Work
    BY <1>5, Frame
<1>7. /\ tgt' \in [Repos -> Seq(TargetItem)] /\ project' \subseteq Repos
      /\ labels' \in [Repos -> SUBSET Nat]
    BY <1>5, Frame
<1>8. /\ work[p].repo \notin Repos
      /\ \A b \in work[p].batch : work[p].repo \in Repos /\ b.n \in DOMAIN src[work[p].repo]
    BY <1>4, <1>5, Frame
<1> QED BY <1>3, <1>4, <1>5, <1>6, <1>7, <1>8, OwnStep, NoWorkTyped

LEMMA LeaveRepoTypes ==
    ASSUME TypeInv, NEW p \in Jobs, LeaveRepo(p), pc[p] \in InRepo,
           UNCHANGED <<forges, cursor>>, NEW s \in Pass, s.started = pass[p].started,
           pass' = [pass EXCEPT ![p] = s]
    PROVE  TypeInv'
<1>1. "next" \in Places /\ "next" \notin InRepo /\ "next" \notin OnItem /\ "idle" \notin InRepo
    BY DEF Places, InRepo, OnItem
<1>2. NoWork.repo \notin Repos /\ NoWork.batch = {}
    BY DEF NoWork
<1>3. Start <= s.started
    BY <1>1, Frame
<1>4. /\ tgt' \in [Repos -> Seq(TargetItem)] /\ cursor' \in [Paths -> Nat]
      /\ project' \subseteq Repos /\ labels' \in [Repos -> SUBSET Nat]
      /\ UNCHANGED <<clock, rev, src>>
    BY Frame DEF forges
<1>5. work' = [work EXCEPT ![p] = NoWork] /\ pc' = [pc EXCEPT ![p] = "next"]
    BY DEF LeaveRepo
<1> QED BY <1>1, <1>2, <1>3, <1>4, <1>5, NoWorkTyped, OwnStep

(* A step of a listing: the batch grows by items that are there. *)
LEMMA BatchTypes ==
    ASSUME TypeInv, NEW p \in Jobs, pc[p] \in InRepo, UNCHANGED <<forges, cursor, pass>>,
           NEW l \in InRepo \ OnItem, NEW w \in Work, w.repo = work[p].repo,
           \A b \in w.batch : b.n \in DOMAIN src[w.repo],
           work' = [work EXCEPT ![p] = w], pc' = [pc EXCEPT ![p] = l]
    PROVE  TypeInv'
<1>1. l \in Places /\ l # "idle" /\ pc[p] # "idle"
    BY DEF InRepo, Places
<1>2. /\ tgt' \in [Repos -> Seq(TargetItem)] /\ cursor' \in [Paths -> Nat]
      /\ project' \subseteq Repos /\ labels' \in [Repos -> SUBSET Nat]
      /\ UNCHANGED <<clock, rev, src>> /\ w.repo \in Repos /\ Start <= pass[p].started
      /\ pass' = [pass EXCEPT ![p] = pass[p]] /\ pass[p] \in Pass
    BY <1>1, Frame DEF forges
<1> QED BY <1>1, <1>2, OwnStep

LEMMA Snaps ==
    ASSUME TypeInv, NEW r \in Repos, NEW n \in DOMAIN src[r]
    PROVE  Snap(r, n) \in Snapshot /\ Snap(r, n).n = n
BY SourceTyped DEF TypeInv, Snap, Snapshot, SourceItem

(* What a run keeps of its repository, edited. *)
LEMMA WorkEdited ==
    ASSUME NEW k \in Work
    PROVE  /\ \A N \in SUBSET Nat : LET w == [k EXCEPT !.notes = N] IN
               w \in Work /\ w.repo = k.repo /\ w.batch = k.batch /\ w.item = k.item
           /\ \A got : LET w == [k EXCEPT !.batch = got, !.page = 1] IN
               /\ w.repo = k.repo /\ w.batch = got
               /\ got \in SUBSET Snapshot => w \in Work
BY DEF Work

LEMMA EndListingTypes ==
    ASSUME TypeInv, NEW p \in Jobs, pc[p] \in InRepo, UNCHANGED <<forges, cursor, pass>>,
           NEW got \in SUBSET Snapshot, \A b \in got : b.n \in DOMAIN src[work[p].repo],
           EndListing(p, got)
    PROVE  TypeInv'
<1>1. CASE LeaveRepo(p)
    BY <1>1, Frame, LeaveRepoTypes
<1>2. CASE /\ work' = [work EXCEPT ![p].batch = got, ![p].page = 1]
           /\ pc' = [pc EXCEPT ![p] = "ensure"]
    <2> DEFINE w == [work[p] EXCEPT !.batch = got, !.page = 1]
    <2>0. work[p] \in Work
        BY Frame
    <2>1. w \in Work /\ w.repo = work[p].repo /\ w.batch = got
        BY <2>0, WorkEdited
    <2>2. work' = [work EXCEPT ![p] = w]
        BY <1>2
    <2>3. "ensure" \in InRepo \ OnItem
        BY DEF InRepo, OnItem
    <2> HIDE DEF w
    <2> QED BY <1>2, <2>1, <2>2, <2>3, BatchTypes
<1> QED BY <1>1, <1>2 DEF EndListing

LEMMA ListPageTypes == ASSUME TypeInv, NEW p \in Jobs, ListPage(p) PROVE TypeInv'
<1> DEFINE r   == Here(p)
           got == work[p].batch \cup {Snap(r, n) : n \in OnPage(r, pass[p].since, work[p].page)}
<1>1. pc[p] = "list" /\ "list" \in InRepo \ OnItem /\ UNCHANGED <<forges, cursor, pass>>
    BY DEF ListPage, InRepo, OnItem
<1>2. r \in Repos /\ r = work[p].repo /\ work[p] \in Work
    BY <1>1, Frame DEF Here
<1>3. got \in SUBSET Snapshot /\ \A b \in got : b.n \in DOMAIN src[work[p].repo]
    <2>1. \A b \in work[p].batch : b \in Snapshot /\ b.n \in DOMAIN src[r]
        BY <1>2, Frame DEF Work
    <2>2. OnPage(r, pass[p].since, work[p].page) \subseteq DOMAIN src[r]
        BY DEF OnPage, Listed
    <2>3. \A n \in OnPage(r, pass[p].since, work[p].page) :
              Snap(r, n) \in Snapshot /\ Snap(r, n).n \in DOMAIN src[r]
        BY <1>2, <2>2, Snaps
    <2> QED BY <1>2, <2>1, <2>3
<1> HIDE DEF got
<1>4. CASE work' = [work EXCEPT ![p].batch = got, ![p].page = @ + 1] /\ UNCHANGED pc
    <2> DEFINE w == [work[p] EXCEPT !.batch = got, !.page = work[p].page + 1]
    <2>0. work[p].page + 1 \in Nat
        BY <1>2 DEF Work
    <2>1. w \in Work /\ w.repo = work[p].repo /\ w.batch = got
        BY <1>2, <1>3, <2>0 DEF Work
    <2>2. work' = [work EXCEPT ![p] = w]
        BY <1>4
    <2>3. pc' = [pc EXCEPT ![p] = "list"]
        BY <1>1, <1>4, Frame
    <2> HIDE DEF w
    <2> QED BY <1>1, <1>3, <2>1, <2>2, <2>3, BatchTypes
<1>5. CASE EndListing(p, got)
    BY <1>1, <1>3, <1>5, EndListingTypes
<1> QED BY <1>4, <1>5 DEF ListPage, got

LEMMA ListChangedTypes == ASSUME TypeInv, NEW p \in Jobs, ListChanged(p) PROVE TypeInv'
<1> DEFINE got == {Snap(Here(p), n) : n \in Listed(Here(p), pass[p].since)}
           w   == [work[p] EXCEPT !.batch = got]
<1>1. pc[p] \in InRepo /\ "events" \in InRepo \ OnItem /\ UNCHANGED <<forges, cursor, pass>>
    BY DEF ListChanged, InRepo, OnItem
<1>2. Here(p) \in Repos /\ Here(p) = work[p].repo /\ work[p] \in Work
    BY <1>1, Frame DEF Here
<1>3. got \in SUBSET Snapshot /\ \A b \in got : b.n \in DOMAIN src[work[p].repo]
    BY <1>2, Snaps DEF Listed
<1> HIDE DEF got
<1>4. w \in Work /\ w.repo = work[p].repo /\ w.batch = got
    BY <1>2, <1>3 DEF Work
<1>5. work' = [work EXCEPT ![p] = w] /\ pc' = [pc EXCEPT ![p] = "events"]
    BY DEF ListChanged, got
<1> HIDE DEF w
<1> QED BY <1>1, <1>3, <1>4, <1>5, BatchTypes

LEMMA ListEventsTypes == ASSUME TypeInv, NEW p \in Jobs, ListEvents(p) PROVE TypeInv'
<1> DEFINE w == [work[p] EXCEPT !.commented = Commented(Here(p), pass[p].since)]
<1>1. pc[p] \in InRepo /\ "fetch" \in InRepo \ OnItem /\ UNCHANGED <<forges, cursor, pass>>
    BY DEF ListEvents, InRepo, OnItem
<1>2. Here(p) \in Repos /\ work[p] \in Work
    BY <1>1, Frame DEF Here
<1>3. Commented(Here(p), pass[p].since) \in SUBSET Nat
    BY <1>2, SourceTyped DEF TypeInv, Commented
<1>4. w \in Work /\ w.repo = work[p].repo /\ w.batch = work[p].batch
    BY <1>2, <1>3 DEF Work
<1>5. work' = [work EXCEPT ![p] = w] /\ pc' = [pc EXCEPT ![p] = "fetch"]
    BY DEF ListEvents
<1> HIDE DEF w
<1> QED BY <1>1, <1>4, <1>5, Frame, BatchTypes

LEMMA FetchTypes == ASSUME TypeInv, NEW p \in Jobs, Fetch(p) PROVE TypeInv'
<1>1. pc[p] = "fetch" /\ "fetch" \in InRepo \ OnItem /\ UNCHANGED <<forges, cursor, pass>>
    BY DEF Fetch, InRepo, OnItem
<1>2. /\ Here(p) \in Repos /\ Here(p) = work[p].repo /\ work[p] \in Work
      /\ work[p].batch \in SUBSET Snapshot
      /\ \A b \in work[p].batch : b.n \in DOMAIN src[work[p].repo]
    <2>1. pc[p] \in InRepo
        BY <1>1
    <2> QED BY <2>1, HereTyped
<1>3. ASSUME NEW n \in work[p].commented, UNCHANGED pc,
             work' = [work EXCEPT ![p].commented = @ \ {n},
                        ![p].batch = @ \cup {Snap(Here(p), m) : m \in Unlisted(p, n)}]
      PROVE  TypeInv'
    <2> DEFINE got == work[p].batch \cup {Snap(Here(p), m) : m \in Unlisted(p, n)}
               w   == [work[p] EXCEPT !.commented = @ \ {n}, !.batch = got]
    <2>1. got \in SUBSET Snapshot /\ \A b \in got : b.n \in DOMAIN src[work[p].repo]
        BY <1>2, Snaps DEF Unlisted
    <2>2. work' = [work EXCEPT ![p] = w]
        BY <1>3
    <2> HIDE DEF got
    <2>3. w \in Work /\ w.repo = work[p].repo /\ w.batch = got
        BY <1>2, <2>1 DEF Work
    <2>4. pc' = [pc EXCEPT ![p] = "fetch"]
        BY <1>1, <1>3, Frame
    <2> HIDE DEF w
    <2> QED BY <1>1, <2>1, <2>2, <2>3, <2>4, BatchTypes
<1>4. CASE EndListing(p, work[p].batch)
    BY <1>1, <1>2, <1>4, EndListingTypes
<1> QED BY <1>3, <1>4 DEF Fetch

(* A step inside a repository that keeps its repository and its run. *)
LEMMA InsideStep ==
    ASSUME TypeInv, NEW p \in Jobs, UNCHANGED <<clock, rev, src, cursor, pass>>,
           tgt' \in [Repos -> Seq(TargetItem)],
           project' \subseteq Repos, labels' \in [Repos -> SUBSET Nat],
           NEW l \in InRepo, NEW w \in Work, pc[p] \in InRepo,
           pc' = [pc EXCEPT ![p] = l], work' = [work EXCEPT ![p] = w],
           w.repo = work[p].repo, w.batch \subseteq work[p].batch,
           l \in OnItem => w.item.n \in DOMAIN src[work[p].repo]
    PROVE  TypeInv'
<1>1. l \in Places /\ l # "idle" /\ pc[p] # "idle"
    BY DEF InRepo, Places
<1>2. /\ work[p].repo \in Repos /\ Start <= pass[p].started
      /\ pass' = [pass EXCEPT ![p] = pass[p]] /\ pass[p] \in Pass
      /\ cursor' \in [Paths -> Nat]
      /\ \A b \in w.batch : w.repo \in Repos /\ b.n \in DOMAIN src[w.repo]
    BY <1>1, Frame
<1> QED BY <1>1, <1>2, OwnStep

LEMMA EnsureRepoTypes == ASSUME TypeInv, NEW p \in Jobs, EnsureRepo(p) PROVE TypeInv'
<1>1. pc[p] \in InRepo /\ "origins" \in InRepo /\ "origins" \notin OnItem
    BY DEF EnsureRepo, InRepo, OnItem
<1>2. /\ work' = [work EXCEPT ![p] = work[p]] /\ work[p] \in Work
      /\ tgt' \in [Repos -> Seq(TargetItem)]
      /\ project' \subseteq Repos /\ labels' \in [Repos -> SUBSET Nat]
      /\ UNCHANGED <<clock, rev, src, cursor, pass>> /\ pc' = [pc EXCEPT ![p] = "origins"]
    BY <1>1, HereTyped DEF EnsureRepo, people
<1> QED BY <1>1, <1>2, InsideStep

LEMMA OriginsTyped ==
    ASSUME TypeInv, NEW r \in Repos
    PROVE  /\ OriginsOf(r) \in [Numbers -> Nat]
           /\ \A n \in Numbers : IF Copies(r, n) = {} THEN OriginsOf(r)[n] = 0
                                                      ELSE OriginsOf(r)[n] \in Copies(r, n)
<1>1. ASSUME NEW n \in Numbers, Copies(r, n) # {}
      PROVE  OriginsOf(r)[n] \in Copies(r, n)
    <2>1. Copies(r, n) \subseteq Nat
        BY TargetTyped DEF TypeInv, Copies
    <2>2. \E c \in Copies(r, n) : \A d \in Copies(r, n) : c <= d
        BY <1>1, <2>1, Smallest
    <2> QED BY <1>1, <2>2 DEF OriginsOf
<1>2. \A n \in Numbers : Copies(r, n) \subseteq Nat
    BY TargetTyped DEF TypeInv, Copies
<1> QED BY <1>1, <1>2 DEF OriginsOf

LEMMA ReadOriginsTypes == ASSUME TypeInv, NEW p \in Jobs, ReadOrigins(p) PROVE TypeInv'
<1> DEFINE w == [work[p] EXCEPT !.origins = OriginsOf(Here(p))]
<1>1. pc[p] \in InRepo /\ "labels" \in InRepo /\ "labels" \notin OnItem
    BY DEF ReadOrigins, InRepo, OnItem
<1>2. OriginsOf(Here(p)) \in [Numbers -> Nat] /\ work[p] \in Work
    BY <1>1, HereTyped, OriginsTyped
<1>3. w \in Work /\ w.repo = work[p].repo /\ w.batch = work[p].batch
    BY <1>2 DEF Work
<1>4. /\ tgt' \in [Repos -> Seq(TargetItem)] /\ work' = [work EXCEPT ![p] = w]
      /\ project' \subseteq Repos /\ labels' \in [Repos -> SUBSET Nat]
      /\ UNCHANGED <<clock, rev, src, cursor, pass>> /\ pc' = [pc EXCEPT ![p] = "labels"]
    BY <1>1, HereTyped DEF ReadOrigins, forges
<1> HIDE DEF w
<1> QED BY <1>1, <1>3, <1>4, InsideStep

LEMMA EnsureLabelsTypes == ASSUME TypeInv, NEW p \in Jobs, EnsureLabels(p) PROVE TypeInv'
<1>1. pc[p] \in InRepo /\ "issue" \in InRepo /\ "issue" \notin OnItem /\ pc[p] \notin OnItem
    BY DEF EnsureLabels, InRepo, OnItem
<1>2. \A b \in work[p].batch : b.n \in Nat
    BY <1>1, HereTyped DEF Snapshot
<1>3. labels' \in [Repos -> SUBSET Nat]
    <2>1. \/ labels' = labels
          \/ \E l \in {b.n : b \in work[p].batch} : labels' = [labels EXCEPT ![Here(p)] = @ \cup {l}]
        BY DEF EnsureLabels
    <2>2. \A l \in {b.n : b \in work[p].batch} : l \in Nat
        BY <1>2
    <2>3. labels \in [Repos -> SUBSET Nat] /\ Here(p) \in Repos
        BY <1>1, HereTyped
    <2> QED BY <2>1, <2>2, <2>3
<1>4. /\ work' = [work EXCEPT ![p] = work[p]] /\ work[p] \in Work
      /\ tgt' \in [Repos -> Seq(TargetItem)] /\ project' \subseteq Repos
      /\ UNCHANGED <<clock, rev, src, cursor, pass>>
    BY <1>1, HereTyped DEF EnsureLabels, people
<1>5. PICK l \in {"labels", "issue"} : pc' = [pc EXCEPT ![p] = l]
    <2>1. pc = [pc EXCEPT ![p] = pc[p]]
        BY Frame
    <2> QED BY <2>1 DEF EnsureLabels
<1>6. l \in InRepo /\ l \notin OnItem
    BY <1>1, <1>5 DEF EnsureLabels
<1> QED BY <1>1, <1>3, <1>4, <1>5, <1>6, InsideStep

(* Taking an item off the batch, with a write to the target. *)
LEMMA BeginTypes ==
    ASSUME TypeInv, NEW p \in Jobs, pc[p] = "issue", NEW b \in work[p].batch,
           NEW ref \in Nat, NEW l \in OnItem, Begin(p, b, ref, l),
           tgt' \in [Repos -> Seq(TargetItem)]
    PROVE  TypeInv'
<1> DEFINE w == [work[p] EXCEPT !.batch = @ \ {b}, !.item = b, !.ref = ref]
<1>1. pc[p] \in InRepo /\ l \in InRepo
    BY DEF InRepo, OnItem
<1>2. work[p] \in Work /\ b \in Snapshot /\ b.n \in DOMAIN src[Here(p)] /\ Here(p) = work[p].repo
    BY <1>1, HereTyped
<1>3. w \in Work /\ w.repo = work[p].repo /\ w.batch \subseteq work[p].batch /\ w.item = b
    BY <1>2 DEF Work
<1>4. work' = [work EXCEPT ![p] = w]
    BY DEF Begin
<1>5. /\ project' \subseteq Repos /\ labels' \in [Repos -> SUBSET Nat]
      /\ UNCHANGED <<clock, rev, src, cursor, pass>> /\ pc' = [pc EXCEPT ![p] = l]
    BY <1>1, HereTyped DEF Begin, people
<1> HIDE DEF w
<1> QED BY <1>1, <1>2, <1>3, <1>4, <1>5, InsideStep

LEMMA CopyWritten ==
    ASSUME NEW i \in TargetItem, NEW s \in States, NEW e \in Nat, NEW k \in Nat
    PROVE  /\ [i EXCEPT !.state = s] \in TargetItem
           /\ [i EXCEPT !.rev = e, !.state = s] \in TargetItem
           /\ [i EXCEPT !.notes = Append(@, k)] \in TargetItem
<1>1. Append(i.notes, k) \in Seq(Nat)
    BY AppendProperties DEF TargetItem
<1> QED BY <1>1 DEF TargetItem

LEMMA ReflectTypes == ASSUME TypeInv, NEW p \in Jobs, Reflect(p) PROVE TypeInv'
<1>1. PICK b \in work[p].batch : /\ pc[p] = "issue"
                                 /\ tgt' = [tgt EXCEPT ![Here(p)][b.mark].state = b.state]
                                 /\ Begin(p, b, b.mark, "comments")
    BY DEF Reflect
<1>2. Here(p) \in Repos /\ b \in Snapshot /\ tgt \in [Repos -> Seq(TargetItem)]
    BY <1>1, HereTyped DEF InRepo
<1>3. b.mark \in Nat /\ b.state \in States
    BY <1>2 DEF Snapshot
<1> DEFINE i == [tgt[Here(p)][b.mark] EXCEPT !.state = b.state]
<1>4. b.mark \in DOMAIN tgt[Here(p)] => i \in TargetItem
    BY <1>2, <1>3, TargetTyped, CopyWritten DEF TypeInv
<1>5. tgt' = [tgt EXCEPT ![Here(p)] = [tgt[Here(p)] EXCEPT ![b.mark] = i]]
    BY <1>1
<1> HIDE DEF i
<1>6. tgt' \in [Repos -> Seq(TargetItem)]
    BY <1>2, <1>4, <1>5, TargetWrite
<1> QED BY <1>1, <1>3, <1>6, BeginTypes DEF OnItem

LEMMA CreateTypes == ASSUME TypeInv, NEW p \in Jobs, Create(p) PROVE TypeInv'
<1>1. PICK b \in work[p].batch :
          /\ pc[p] = "issue"
          /\ tgt' = [tgt EXCEPT ![Here(p)] =
                Append(@, [mark |-> b.n, rev |-> b.rev, state |-> "open", notes |-> <<>>])]
          /\ Begin(p, b, Len(tgt[Here(p)]) + 1, IF b.state = "closed" THEN "close" ELSE "comments")
    BY DEF Create
<1>2. Here(p) \in Repos /\ b \in Snapshot /\ tgt \in [Repos -> Seq(TargetItem)]
    BY <1>1, HereTyped DEF InRepo
<1> DEFINE i == [mark |-> b.n, rev |-> b.rev, state |-> "open", notes |-> <<>>]
<1>3. i \in TargetItem
    <2>1. <<>> \in Seq(Nat)
        BY EmptySeq
    <2> QED BY <1>2, <2>1 DEF TargetItem, Snapshot, States
<1>4. tgt[Here(p)] \in Seq(TargetItem) /\ Len(tgt[Here(p)]) + 1 \in Nat
    BY <1>2, TargetTyped DEF TypeInv
<1>5. tgt' \in [Repos -> Seq(TargetItem)]
    <2>1. Append(tgt[Here(p)], i) \in Seq(TargetItem)
        BY <1>3, <1>4, AppendProperties
    <2>2. tgt' = [tgt EXCEPT ![Here(p)] = Append(tgt[Here(p)], i)]
        BY <1>1
    <2> QED BY <1>2, <2>1, <2>2
<1>6. (IF b.state = "closed" THEN "close" ELSE "comments") \in OnItem
    BY DEF OnItem
<1> QED BY <1>1, <1>4, <1>5, <1>6, BeginTypes

LEMMA UpdateTypes == ASSUME TypeInv, NEW p \in Jobs, Update(p) PROVE TypeInv'
<1> DEFINE r == Here(p)
<1>1. PICK b \in work[p].batch :
          /\ pc[p] = "issue"
          /\ work[p].origins[b.n] # 0
          /\ tgt' = [tgt EXCEPT ![r][work[p].origins[b.n]] = [@ EXCEPT !.rev = b.rev, !.state = b.state]]
          /\ Begin(p, b, work[p].origins[b.n], "comments")
    BY DEF Update
<1> DEFINE ref == work[p].origins[b.n]
           i   == [tgt[r][ref] EXCEPT !.rev = b.rev, !.state = b.state]
<1>2. r \in Repos /\ b \in Snapshot /\ tgt \in [Repos -> Seq(TargetItem)] /\ work[p] \in Work
      /\ b.n \in DOMAIN src[r]
    BY <1>1, HereTyped DEF InRepo
<1>3. ref \in DOMAIN tgt[r] => i \in TargetItem
    <2>1. b.rev \in Nat /\ b.state \in States
        BY <1>2 DEF Snapshot
    <2> QED BY <1>2, <2>1, TargetTyped, CopyWritten DEF TypeInv
<1>4. tgt' = [tgt EXCEPT ![r] = [tgt[r] EXCEPT ![ref] = i]]
    BY <1>1
<1>5. tgt' \in [Repos -> Seq(TargetItem)]
    <2> HIDE DEF i, ref
    <2> QED BY <1>2, <1>3, <1>4, TargetWrite
<1>6. ref \in Nat
    <2>1. Len(src[r]) <= MaxItems /\ b.n \in 1..Len(src[r]) /\ Len(src[r]) \in Nat
        BY <1>2, SourceTyped DEF TypeInv, Placed
    <2>2. b.n \in Numbers
        BY <2>1 DEF Numbers
    <2> QED BY <1>2, <2>2 DEF Work
<1> QED BY <1>1, <1>5, <1>6, BeginTypes DEF OnItem

LEMMA CloseItemTypes == ASSUME TypeInv, NEW p \in Jobs, CloseItem(p) PROVE TypeInv'
<1> DEFINE r == Here(p)
           ref == work[p].ref
           i == [tgt[r][ref] EXCEPT !.state = "closed"]
<1>1. pc[p] = "close" /\ pc[p] \in InRepo /\ pc[p] \in OnItem /\ "comments" \in InRepo
    BY DEF CloseItem, InRepo, OnItem
<1>2. /\ r \in Repos /\ r = work[p].repo /\ work[p] \in Work /\ tgt \in [Repos -> Seq(TargetItem)]
      /\ work[p].item.n \in DOMAIN src[work[p].repo]
    BY <1>1, HereTyped
<1>3. tgt' = [tgt EXCEPT ![r] = [tgt[r] EXCEPT ![ref] = i]]
    BY DEF CloseItem
<1>4. ref \in DOMAIN tgt[r] => i \in TargetItem
    BY <1>2, TargetTyped, CopyWritten DEF TypeInv, States
<1>5. tgt' \in [Repos -> Seq(TargetItem)]
    <2> HIDE DEF i, ref
    <2> QED BY <1>2, <1>3, <1>4, TargetWrite
<1>6. /\ work' = [work EXCEPT ![p] = work[p]] /\ pc' = [pc EXCEPT ![p] = "comments"]
      /\ project' \subseteq Repos /\ labels' \in [Repos -> SUBSET Nat]
      /\ UNCHANGED <<clock, rev, src, cursor, pass>>
    BY <1>1, HereTyped DEF CloseItem, people
<1> QED BY <1>1, <1>2, <1>5, <1>6, InsideStep

(* Steps that only change the item in hand, or are done with it. *)
LEMMA ItemDoneTypes ==
    ASSUME TypeInv, NEW p \in Jobs, pc[p] \in InRepo, ItemDone(p),
           UNCHANGED <<clock, rev, src, tgt, project, labels, cursor, pass>>
    PROVE  TypeInv'
<1> DEFINE w == [work[p] EXCEPT !.item = NoItem, !.ref = 0, !.notes = {}]
<1>1. "issue" \in InRepo /\ "issue" \notin OnItem
    BY DEF InRepo, OnItem
<1>2. w \in Work /\ w.repo = work[p].repo /\ w.batch = work[p].batch
    BY HereTyped, NoWorkTyped DEF Work
<1>3. work' = [work EXCEPT ![p] = w] /\ pc' = [pc EXCEPT ![p] = "issue"]
    BY DEF ItemDone
<1>4. /\ tgt' \in [Repos -> Seq(TargetItem)]
      /\ project' \subseteq Repos /\ labels' \in [Repos -> SUBSET Nat]
    BY HereTyped
<1> HIDE DEF w
<1> QED BY <1>1, <1>2, <1>3, <1>4, InsideStep

LEMMA NotesTypes ==
    ASSUME TypeInv, NEW p \in Jobs, pc[p] \in OnItem, NEW l \in OnItem, NEW N \in SUBSET Nat,
           work' = [work EXCEPT ![p].notes = N], pc' = [pc EXCEPT ![p] = l],
           tgt' \in [Repos -> Seq(TargetItem)],
           UNCHANGED <<clock, rev, src, project, labels, cursor, pass>>
    PROVE  TypeInv'
<1> DEFINE w == [work[p] EXCEPT !.notes = N]
<1>1. pc[p] \in InRepo /\ l \in InRepo
    BY DEF InRepo, OnItem
<1>2. /\ w \in Work /\ w.repo = work[p].repo /\ w.batch = work[p].batch
      /\ w.item.n \in DOMAIN src[work[p].repo]
    <2>1. work[p] \in Work /\ work[p].item.n \in DOMAIN src[work[p].repo]
        BY <1>1, HereTyped
    <2> QED BY <2>1, WorkEdited
<1>3. work' = [work EXCEPT ![p] = w]
    OBVIOUS
<1>4. project' \subseteq Repos /\ labels' \in [Repos -> SUBSET Nat]
    BY <1>1, HereTyped
<1> HIDE DEF w
<1> QED BY <1>1, <1>2, <1>3, <1>4, InsideStep

LEMMA SourceCommentsTypes == ASSUME TypeInv, NEW p \in Jobs, SourceComments(p) PROVE TypeInv'
<1> DEFINE all == DOMAIN src[Here(p)][work[p].item.n].notes
<1>1. pc[p] = "comments" /\ UNCHANGED <<clock, rev, src, tgt, project, labels, cursor, pass>>
    BY DEF SourceComments, forges
<1>2. pc[p] \in OnItem /\ pc[p] \in InRepo /\ "have" \in OnItem
    BY <1>1 DEF OnItem, InRepo
<1>3. Here(p) \in Repos /\ work[p].item.n \in DOMAIN src[Here(p)] /\ tgt' \in [Repos -> Seq(TargetItem)]
    BY <1>1, <1>2, HereTyped
<1>4. src[Here(p)][work[p].item.n].notes \in Seq(Nat)
    BY <1>3, SourceTyped DEF TypeInv
<1>5. all \in SUBSET Nat
    <2>1. ASSUME NEW s \in Seq(Nat) PROVE DOMAIN s \in SUBSET Nat
        BY LenProperties
    <2> HIDE DEF all
    <2> QED BY <1>4, <2>1 DEF all
<1>6. \/ ItemDone(p)
      \/ work' = [work EXCEPT ![p].notes = all] /\ pc' = [pc EXCEPT ![p] = "have"]
    BY DEF SourceComments
<1> HIDE DEF all
<1> QED BY <1>1, <1>2, <1>3, <1>5, <1>6, ItemDoneTypes, NotesTypes

LEMMA TargetCommentsTypes == ASSUME TypeInv, NEW p \in Jobs, TargetComments(p) PROVE TypeInv'
<1> DEFINE N == ToPost(Here(p), work[p].item.n, work[p].notes, Have(Here(p), work[p].ref))
<1>1. /\ pc[p] = "have" /\ UNCHANGED <<clock, rev, src, tgt, project, labels, cursor, pass>>
      /\ work' = [work EXCEPT ![p].notes = N] /\ pc' = [pc EXCEPT ![p] = "post"]
    BY DEF TargetComments, forges
<1>2. pc[p] \in OnItem /\ pc[p] \in InRepo /\ "post" \in OnItem
    BY <1>1 DEF OnItem, InRepo
<1>3. work[p] \in Work /\ tgt' \in [Repos -> Seq(TargetItem)]
    BY <1>1, <1>2, HereTyped
<1>4. N \in SUBSET Nat
    BY <1>3 DEF Work, ToPost
<1> HIDE DEF N
<1> QED BY <1>1, <1>2, <1>3, <1>4, NotesTypes

LEMMA PostCommentTypes == ASSUME TypeInv, NEW p \in Jobs, PostComment(p) PROVE TypeInv'
<1> DEFINE r == Here(p)
           ref == work[p].ref
<1>1. pc[p] = "post" /\ UNCHANGED <<clock, rev, src, project, labels, cursor, pass>>
    BY DEF PostComment, people
<1>2. pc[p] \in OnItem /\ pc[p] \in InRepo
    BY <1>1 DEF OnItem, InRepo
<1>3. r \in Repos /\ work[p] \in Work /\ tgt \in [Repos -> Seq(TargetItem)]
    BY <1>2, HereTyped
<1>4. ASSUME NEW k \in work[p].notes,
             tgt' = [tgt EXCEPT ![r][ref].notes = Append(@, k)],
             work' = [work EXCEPT ![p].notes = @ \ {k}], UNCHANGED pc
      PROVE  TypeInv'
    <2> DEFINE i == [tgt[r][ref] EXCEPT !.notes = Append(@, k)]
    <2>1. k \in Nat /\ work[p].notes \ {k} \in SUBSET Nat
        BY <1>3 DEF Work
    <2>2. ref \in DOMAIN tgt[r] => i \in TargetItem
        BY <1>3, <2>1, TargetTyped, CopyWritten DEF TypeInv, States
    <2>3. tgt' = [tgt EXCEPT ![r] = [tgt[r] EXCEPT ![ref] = i]]
        BY <1>4
    <2>4. tgt' \in [Repos -> Seq(TargetItem)]
        <3> HIDE DEF i, ref
        <3> QED BY <1>3, <2>2, <2>3, TargetWrite
    <2>5. pc' = [pc EXCEPT ![p] = pc[p]] /\ work' = [work EXCEPT ![p].notes = work[p].notes \ {k}]
        BY <1>4, Frame
    <2> QED BY <1>1, <1>2, <2>1, <2>4, <2>5, NotesTypes
<1>5. CASE ItemDone(p) /\ UNCHANGED tgt
    BY <1>1, <1>2, <1>5, ItemDoneTypes
<1> QED BY <1>4, <1>5 DEF PostComment

LEMMA FinishRepoTypes == ASSUME TypeInv, NEW p \in Jobs, FinishRepo(p) PROVE TypeInv'
<1>1. pc[p] \in InRepo /\ pass[p] \in Pass /\ pass' = [pass EXCEPT ![p] = pass[p]]
    BY Frame DEF FinishRepo, InRepo
<1> QED BY <1>1, LeaveRepoTypes DEF FinishRepo

(* Faults. *)
LEMMA FailRepoTypes == ASSUME TypeInv, NEW p \in Jobs, FailRepo(p) PROVE TypeInv'
<1> DEFINE s == [pass[p] EXCEPT !.failed = @ \cup {Here(p)}]
<1>1. Here(p) \in Repos /\ pc[p] \in InRepo
    BY Frame DEF FailRepo, Here, Work
<1>2. s \in Pass /\ s.started = pass[p].started
    BY <1>1, JobTyped DEF TypeInv, Pass
<1>3. pass' = [pass EXCEPT ![p] = s] /\ LeaveRepo(p) /\ UNCHANGED <<forges, cursor>>
    BY DEF FailRepo
<1> HIDE DEF s
<1> QED BY <1>1, <1>2, <1>3, LeaveRepoTypes

LEMMA StopTypes ==
    ASSUME TypeInv, NEW p \in Jobs, NEW w \in {NoWork, work[p]},
           w = work[p] => pc[p] \notin InRepo,
           pc' = [pc EXCEPT ![p] = "idle"], pass' = [pass EXCEPT ![p] = NoPass],
           work' = [work EXCEPT ![p] = w], UNCHANGED <<forges, cursor>>
    PROVE  TypeInv'
<1>1. "idle" \in Places /\ "idle" \notin InRepo /\ "idle" \notin OnItem
    BY DEF Places, InRepo, OnItem
<1>2. w \in Work /\ w.repo \notin Repos /\ w.batch = {}
    <2>1. NoWork.repo \notin Repos /\ NoWork.batch = {}
        BY DEF NoWork
    <2> QED BY <2>1, NoWorkTyped, Frame
<1>3. /\ tgt' \in [Repos -> Seq(TargetItem)] /\ cursor' \in [Paths -> Nat]
      /\ project' \subseteq Repos /\ labels' \in [Repos -> SUBSET Nat]
      /\ UNCHANGED <<clock, rev, src>>
    BY Frame DEF forges
<1> QED BY <1>1, <1>2, <1>3, NoWorkTyped, OwnStep

LEMMA FaultTypes == ASSUME TypeInv, NEW p \in Jobs, Fault(p) PROVE TypeInv'
<1>1. CASE FailRun(p)
    <2>1. pc[p] \notin InRepo /\ work' = [work EXCEPT ![p] = work[p]]
        BY <1>1, Frame DEF FailRun, InRepo
    <2> QED BY <1>1, <2>1, StopTypes DEF FailRun
<1>2. CASE FailRepo(p)
    BY <1>2, FailRepoTypes
<1>3. CASE Crash(p)
    <2>1. NoWork = work[p] => pc[p] \notin InRepo
        BY Frame DEF NoWork
    <2> QED BY <1>3, <2>1, StopTypes DEF Crash
<1> QED BY <1>1, <1>2, <1>3 DEF Fault

LEMMA StepTypes == ASSUME TypeInv, NEW p \in Jobs, Step(p) PROVE TypeInv'
BY FindReposTypes, NextRepoTypes, FinishRunTypes, ListPageTypes, ListChangedTypes,
   ListEventsTypes, FetchTypes, EnsureRepoTypes,
   ReadOriginsTypes, EnsureLabelsTypes, ReflectTypes, CreateTypes, CloseItemTypes, UpdateTypes,
   SourceCommentsTypes, TargetCommentsTypes, PostCommentTypes, FinishRepoTypes
   DEF Step

LEMMA NextTypes == ASSUME TypeInv, [Next]_vars PROVE TypeInv'
<1>1. CASE UNCHANGED vars
    BY <1>1 DEF TypeInv, TypeOK, Placed, vars
<1>2. CASE Forges
    BY <1>2, ForgesTypes
<1>3. ASSUME NEW p \in Jobs, StartRun(p) \/ Step(p) \/ Fault(p) PROVE TypeInv'
    BY <1>3, StartRunTypes, StepTypes, FaultTypes
<1> QED BY <1>1, <1>2, <1>3 DEF Next

LEMMA TypeInvariant == Spec => []TypeInv
<1>1. Init => TypeInv
    BY InitTypes
<1>2. TypeInv /\ [Next]_vars => TypeInv'
    BY NextTypes
<1> QED BY <1>1, <1>2, PTL DEF Spec

(* Every variable keeps the shape the code gives it, whatever the jobs, paths and
   repositories: a cursor stays a time, and a run writes only where it is. *)
THEOREM TypeCorrect == Spec => []TypeOK
BY TypeInvariant, PTL DEF TypeInv

-----------------------------------------------------------------------------
(* One copy of each item.  The argument: with one run at a time and a listing
   that fits on one page, a run creates a copy only of an item that had none when
   Origins was read, nobody else creates copies meanwhile, and the run holds one
   snapshot of each item, so that it creates each copy once. *)

Solo == \A p, q \in Jobs : pc[p] # "idle" /\ pc[q] # "idle" => p = q

(* The places where a run relies on what Origins returned. *)
Informed == {"labels", "issue", "close", "comments", "have", "post"}

KnowsCopies(p) ==
    /\ pc[p] = "list" \/ pc[p] \notin InRepo => work[p].page = 1 /\ work[p].batch = {}
    /\ \A b, c \in work[p].batch : b.n = c.n => b = c
    /\ pc[p] \in Informed =>
           \A b \in work[p].batch : work[p].origins[b.n] = 0 => Copies(work[p].repo, b.n) = {}

OneCopyInv == TypeInv /\ Solo /\ AtMostOneCopy /\ \A p \in Jobs : KnowsCopies(p)

LEMMA InitOneCopy == Init => OneCopyInv
<1> SUFFICES ASSUME Init PROVE OneCopyInv
    OBVIOUS
<1>1. TypeInv
    BY InitTypes
<1>2. Solo /\ AtMostOneCopy
    BY DEF Init, Solo, AtMostOneCopy
<1>3. \A p \in Jobs : KnowsCopies(p)
    BY DEF Init, KnowsCopies, NoWork, Informed, InRepo
<1> QED BY <1>1, <1>2, <1>3 DEF OneCopyInv

(* A step that leaves the marks of the target alone, and of the jobs only p. *)
SameMarks == \A r \in Repos :
    /\ DOMAIN tgt'[r] = DOMAIN tgt[r]
    /\ \A c \in DOMAIN tgt[r] : tgt'[r][c].mark = tgt[r][c].mark

LEMMA SameMarksWrite ==
    ASSUME TypeOK, NEW r \in Repos, NEW c, NEW i,
           tgt' = [tgt EXCEPT ![r] = [tgt[r] EXCEPT ![c] = i]],
           c \in DOMAIN tgt[r] => i.mark = tgt[r][c].mark
    PROVE  SameMarks
<1>1. tgt \in [Repos -> Seq(TargetItem)]
    BY DEF TypeOK
<1>2. \A q \in Repos : tgt'[q] = IF q = r THEN [tgt[r] EXCEPT ![c] = i] ELSE tgt[q]
    BY <1>1
<1>3. DOMAIN [tgt[r] EXCEPT ![c] = i] = DOMAIN tgt[r]
    OBVIOUS
<1>4. \A d \in DOMAIN tgt[r] : [tgt[r] EXCEPT ![c] = i][d] = IF d = c THEN i ELSE tgt[r][d]
    OBVIOUS
<1> QED BY <1>2, <1>3, <1>4 DEF SameMarks

LEMMA SameCopies ==
    ASSUME SameMarks, NEW r \in Repos, NEW n
    PROVE  Copies(r, n)' = Copies(r, n)
BY DEF SameMarks, Copies

LEMMA SameMarksOneCopy == ASSUME AtMostOneCopy, SameMarks PROVE AtMostOneCopy'
BY DEF SameMarks, AtMostOneCopy

LEMMA NoOneElse ==
    ASSUME OneCopyInv, NEW p \in Jobs, pc[p] # "idle", NEW q \in Jobs, q # p
    PROVE  /\ pc[q] = "idle" /\ work[q].page = 1 /\ work[q].batch = {}
           /\ "idle" \notin InRepo \cup Informed
BY DEF OneCopyInv, Solo, KnowsCopies, InRepo, Informed

LEMMA OneCopyStep ==
    ASSUME OneCopyInv, TypeInv', NEW p \in Jobs, pc[p] # "idle",
           AtMostOneCopy', KnowsCopies(p)', NEW l, pc' = [pc EXCEPT ![p] = l],
           NEW w, work' = [work EXCEPT ![p] = w]
    PROVE  OneCopyInv'
<1>1. pc \in [Jobs -> Places] /\ work \in [Jobs -> Work]
    BY DEF OneCopyInv, TypeInv, TypeOK
<1>2. \A q \in Jobs \ {p} : pc'[q] = "idle" /\ work'[q].page = 1 /\ work'[q].batch = {}
    BY <1>1, NoOneElse
<1>3. \A q \in Jobs \ {p} : KnowsCopies(q)'
    BY <1>2 DEF KnowsCopies, InRepo, Informed
<1>4. Solo'
    BY <1>2 DEF Solo
<1> QED BY <1>3, <1>4 DEF OneCopyInv

(* People write no copies. *)
NoNewMarks == \A r \in Repos :
    /\ DOMAIN tgt[r] \subseteq DOMAIN tgt'[r]
    /\ \A c \in DOMAIN tgt'[r] :
           tgt'[r][c].mark = IF c \in DOMAIN tgt[r] THEN tgt[r][c].mark ELSE 0

LEMMA ForgesSteps ==
    ASSUME Forges
    PROVE  /\ UNCHANGED <<pc, work>>
           /\ \/ UNCHANGED tgt
              \/ \E r \in Repos : OwnItem(r)
              \/ \E r \in Repos : \E d \in DOMAIN tgt[r] : OwnNote(r, d)
<1>1. ASSUME NEW r, NEW items, Change(r, items) PROVE UNCHANGED <<tgt, pc, work>>
    BY <1>1 DEF Change, jobs
<1>2. ASSUME NEW r, NEW n, NEW k, Comment(r, n, k) PROVE UNCHANGED <<tgt, pc, work>>
    BY <1>1, <1>2 DEF Comment
<1>3. ASSUME NEW r, NEW n, NewItem(r) \/ EditItem(r, n) \/ CommentItem(r, n) \/ RestoredNote(r, n)
                           \/ RestoredItem(r, n)
      PROVE  UNCHANGED <<tgt, pc, work>>
    BY <1>1, <1>2, <1>3 DEF NewItem, EditItem, CommentItem, RestoredNote, RestoredItem
<1>4. ASSUME NEW r, NEW c, OwnItem(r) \/ OwnNote(r, c) PROVE UNCHANGED <<pc, work>>
    BY <1>4 DEF OwnItem, OwnNote, jobs
<1>5. ASSUME NEW f, Tick \/ LoseCursor(f) PROVE UNCHANGED <<tgt, pc, work>>
    BY <1>5 DEF Tick, LoseCursor, jobs, forges
<1> QED BY <1>3, <1>4, <1>5 DEF Forges

LEMMA ForgesMarks == ASSUME TypeOK, Forges PROVE NoNewMarks
<1>1. CASE UNCHANGED tgt
    BY <1>1 DEF NoNewMarks
<1>2. ASSUME NEW r \in Repos, OwnItem(r) PROVE NoNewMarks
    <2> DEFINE i == [mark |-> 0, rev |-> 0, state |-> "open", notes |-> <<>>]
    <2>1. tgt' = [tgt EXCEPT ![r] = Append(tgt[r], i)] /\ tgt \in [Repos -> Seq(TargetItem)]
        BY <1>2 DEF OwnItem, TypeOK
    <2>2. i.mark = 0
        OBVIOUS
    <2> HIDE DEF i
    <2>3. /\ DOMAIN tgt[r] = 1..Len(tgt[r]) /\ Len(tgt[r]) \in Nat
          /\ tgt'[r] = Append(tgt[r], i) /\ tgt[r] \in Seq(TargetItem)
          /\ \A q \in Repos : q # r => tgt'[q] = tgt[q]
        BY <2>1, LenProperties
    <2>4. /\ DOMAIN tgt'[r] = 1..(Len(tgt[r]) + 1)
          /\ \A c \in 1..Len(tgt[r]) : tgt'[r][c] = tgt[r][c]
          /\ tgt'[r][Len(tgt[r]) + 1] = i
        BY <2>3
    <2>5. \A c \in DOMAIN tgt'[r] : IF c \in DOMAIN tgt[r] THEN tgt'[r][c] = tgt[r][c] ELSE tgt'[r][c] = i
        BY <2>3, <2>4
    <2>6. DOMAIN tgt[r] \subseteq DOMAIN tgt'[r]
        BY <2>3, <2>4
    <2>7. \A q \in Repos : q # r => DOMAIN tgt'[q] = DOMAIN tgt[q]
        BY <2>3
    <2> QED
        <3>1. \A c \in DOMAIN tgt'[r] : tgt'[r][c].mark = IF c \in DOMAIN tgt[r] THEN tgt[r][c].mark ELSE 0
            BY <2>2, <2>5
        <3>2. ASSUME NEW q \in Repos, q # r
              PROVE  \A c \in DOMAIN tgt'[q] : tgt'[q][c].mark = IF c \in DOMAIN tgt[q] THEN tgt[q][c].mark ELSE 0
            BY <2>3, <3>2
        <3> QED BY <2>6, <2>7, <3>1, <3>2 DEF NoNewMarks
<1>3. ASSUME NEW r \in Repos, NEW d \in DOMAIN tgt[r], OwnNote(r, d) PROVE NoNewMarks
    <2>1. tgt' = [tgt EXCEPT ![r] = [tgt[r] EXCEPT ![d] = [tgt[r][d] EXCEPT !.notes = Append(@, 0)]]]
        BY <1>3 DEF OwnNote
    <2>2. [tgt[r][d] EXCEPT !.notes = Append(@, 0)].mark = tgt[r][d].mark
        BY TargetTyped DEF TargetItem
    <2>3. SameMarks
        BY <2>1, <2>2, SameMarksWrite
    <2> QED BY <2>3 DEF NoNewMarks, SameMarks
<1>4. \/ UNCHANGED tgt
      \/ \E r \in Repos : OwnItem(r)
      \/ \E r \in Repos : \E d \in DOMAIN tgt[r] : OwnNote(r, d)
    BY ForgesSteps
<1> QED BY <1>1, <1>2, <1>3, <1>4

LEMMA ForgesOneCopy == ASSUME OneCopyInv, Forges PROVE OneCopyInv'
<1>1. UNCHANGED <<pc, work>> /\ TypeInv'
    BY ForgesTypes, ForgesSteps DEF OneCopyInv
<1>2. \A r \in Repos : \A n \in Nat \ {0} : Copies(r, n)' = Copies(r, n)
    BY ForgesMarks DEF OneCopyInv, TypeInv, NoNewMarks, Copies
<1>3. AtMostOneCopy'
    BY ForgesMarks DEF OneCopyInv, TypeInv, NoNewMarks, AtMostOneCopy
<1>4. ASSUME NEW p \in Jobs PROVE KnowsCopies(p)'
    <2>1. \A b \in work[p].batch : work[p].repo \in Repos /\ b.n \in Nat \ {0}
        BY SourceTyped DEF OneCopyInv, TypeInv, Placed
    <2> QED BY <1>1, <1>2, <2>1 DEF OneCopyInv, KnowsCopies
<1> QED BY <1>1, <1>3, <1>4 DEF OneCopyInv, Solo

(* Steps that write no copy and keep what the run knows, or forget it. *)
LEMMA KeepsKnowing ==
    ASSUME OneCopyInv, TypeInv', SameMarks, NEW p \in Jobs, pc[p] \in Informed,
           NEW l \in Informed, pc' = [pc EXCEPT ![p] = l],
           NEW w, work' = [work EXCEPT ![p] = w], w.repo = work[p].repo,
           w.batch \subseteq work[p].batch, w.origins = work[p].origins
    PROVE  OneCopyInv'
<1>1. /\ pc \in [Jobs -> Places] /\ work \in [Jobs -> Work] /\ KnowsCopies(p)
      /\ pc[p] # "idle" /\ l \in InRepo /\ l # "list" /\ pc[p] \in InRepo
    BY DEF OneCopyInv, TypeInv, TypeOK, Informed, InRepo
<1>2. AtMostOneCopy'
    BY SameMarksOneCopy DEF OneCopyInv
<1>3. pc'[p] = l /\ work'[p] = w /\ work[p].repo \in Repos
    BY <1>1, HereTyped DEF OneCopyInv
<1>4. \A b \in w.batch : w.origins[b.n] = 0 => Copies(w.repo, b.n)' = {}
    BY <1>1, <1>3, SameCopies DEF KnowsCopies
<1>5. KnowsCopies(p)'
    BY <1>1, <1>3, <1>4 DEF KnowsCopies
<1> QED BY <1>1, <1>2, <1>5, OneCopyStep

LEMMA KnowsNothing ==
    ASSUME OneCopyInv, TypeInv', SameMarks, NEW p \in Jobs, pc[p] # "idle",
           NEW l, l \notin Informed, pc' = [pc EXCEPT ![p] = l],
           NEW w, work' = [work EXCEPT ![p] = w],
           l = "list" \/ l \notin InRepo => w.page = 1 /\ w.batch = {},
           \A b, c \in w.batch : b.n = c.n => b = c
    PROVE  OneCopyInv'
<1>1. pc \in [Jobs -> Places] /\ work \in [Jobs -> Work]
    BY DEF OneCopyInv, TypeInv, TypeOK
<1>2. AtMostOneCopy'
    BY SameMarksOneCopy DEF OneCopyInv
<1>3. pc'[p] = l /\ work'[p] = w
    BY <1>1
<1>4. KnowsCopies(p)'
    BY <1>3 DEF KnowsCopies
<1> QED BY <1>2, <1>4, OneCopyStep

LEMMA SameTarget == ASSUME UNCHANGED tgt PROVE SameMarks
BY DEF SameMarks

LEMMA LeaveOneCopy ==
    ASSUME OneCopyInv, TypeInv', NEW p \in Jobs, pc[p] # "idle", UNCHANGED tgt,
           NEW l \in {"next", "idle"}, pc' = [pc EXCEPT ![p] = l], work' = [work EXCEPT ![p] = NoWork]
    PROVE  OneCopyInv'
<1>1. NoWork.page = 1 /\ NoWork.batch = {} /\ l \notin Informed
    BY DEF NoWork, Informed
<1> QED BY <1>1, SameTarget, KnowsNothing

LEMMA StartRunOneCopy ==
    ASSUME OneCopyInv, TypeInv', ~Overlap, NEW p \in Jobs, StartRun(p)
    PROVE  OneCopyInv'
<1>1. /\ \A q \in Jobs : pc[q] = "idle"
      /\ pc' = [pc EXCEPT ![p] = "repos"] /\ UNCHANGED <<tgt, work>>
      /\ pc \in [Jobs -> Places]
    BY DEF StartRun, forges, OneCopyInv, TypeInv, TypeOK
<1>2. Solo'
    BY <1>1 DEF Solo
<1>3. AtMostOneCopy'
    BY <1>1 DEF OneCopyInv, AtMostOneCopy
<1>4. ASSUME NEW q \in Jobs PROVE KnowsCopies(q)'
    BY <1>1 DEF OneCopyInv, KnowsCopies, InRepo, Informed
<1> QED BY <1>2, <1>3, <1>4 DEF OneCopyInv

(* Steps outside a repository. *)
LEMMA RunOneCopy ==
    ASSUME OneCopyInv, TypeInv', NEW p \in Jobs,
           FindRepos(p) \/ FinishRun(p) \/ FailRun(p)
    PROVE  OneCopyInv'
<1>1. PICK l \in {"next", "idle"} : pc' = [pc EXCEPT ![p] = l]
    BY DEF FindRepos, FinishRun, FailRun
<1>2. pc[p] \in {"repos", "next"} /\ UNCHANGED <<tgt, work>>
    BY DEF FindRepos, FinishRun, FailRun, forges
<1>3. work' = [work EXCEPT ![p] = work[p]]
    BY <1>2, Frame DEF OneCopyInv
<1>4. work[p].page = 1 /\ work[p].batch = {}
    BY <1>2 DEF OneCopyInv, KnowsCopies, InRepo
<1> QED BY <1>1, <1>2, <1>3, <1>4, SameTarget, KnowsNothing DEF Informed

LEMMA NextRepoOneCopy ==
    ASSUME OneCopyInv, TypeInv', NEW p \in Jobs, NextRepo(p)
    PROVE  OneCopyInv'
<1>1. PICK r \in Repos : /\ pc[p] = "next"
                         /\ work' = [work EXCEPT ![p].repo = r]
                         /\ pc' = [pc EXCEPT ![p] = "list"]
                         /\ UNCHANGED tgt
    BY JobTyped DEF NextRepo, forges, OneCopyInv, TypeInv, Pass
<1> DEFINE w == [work[p] EXCEPT !.repo = r]
<1>2. work[p].page = 1 /\ work[p].batch = {} /\ work[p] \in Work
    BY <1>1, JobTyped DEF OneCopyInv, KnowsCopies, InRepo, TypeInv
<1>3. w.page = 1 /\ w.batch = {} /\ work' = [work EXCEPT ![p] = w]
    BY <1>1, <1>2 DEF Work
<1> HIDE DEF w
<1> QED BY <1>1, <1>3, SameTarget, KnowsNothing DEF Informed

(* The listing fits on one page, so each item is in the batch once. *)
LEMMA OnePage ==
    ASSUME TypeInv, NEW r \in Repos, MaxItems <= PageSize, NEW since
    PROVE  Cardinality(Listed(r, since)) <= 1 * PageSize
<1>1. /\ Len(src[r]) \in Nat /\ DOMAIN src[r] = 1..Len(src[r]) /\ Len(src[r]) <= MaxItems
    BY SourceTyped DEF TypeInv, Placed
<1>2. IsFiniteSet(1..Len(src[r])) /\ Cardinality(1..Len(src[r])) = Len(src[r])
    BY <1>1, FS_Interval
<1>3. Listed(r, since) \subseteq 1..Len(src[r])
    BY <1>1 DEF Listed
<1>4. /\ Cardinality(Listed(r, since)) <= Cardinality(1..Len(src[r]))
      /\ Cardinality(Listed(r, since)) \in Nat
    BY <1>2, <1>3, FS_Subset, FS_CardinalityType
<1> QED BY <1>1, <1>2, <1>4

(* A step of a listing: no item is in the batch twice. *)
LEMMA BatchOneCopy ==
    ASSUME OneCopyInv, TypeInv', NEW p \in Jobs, pc[p] \in InRepo, UNCHANGED tgt,
           NEW l \in {"events", "fetch", "ensure"}, NEW w,
           \A b, c \in w.batch : b.n = c.n => b = c,
           work' = [work EXCEPT ![p] = w], pc' = [pc EXCEPT ![p] = l]
    PROVE  OneCopyInv'
<1>1. pc[p] # "idle" /\ l \notin Informed /\ l \in InRepo /\ l # "list"
    BY DEF InRepo, Informed
<1> QED BY <1>1, SameTarget, KnowsNothing

LEMMA EndListingOneCopy ==
    ASSUME OneCopyInv, TypeInv', NEW p \in Jobs, pc[p] \in InRepo, UNCHANGED tgt,
           NEW got, \A b, c \in got : b.n = c.n => b = c, EndListing(p, got)
    PROVE  OneCopyInv'
<1>0. pc[p] # "idle"
    BY DEF InRepo
<1>1. CASE LeaveRepo(p)
    BY <1>0, <1>1, LeaveOneCopy DEF LeaveRepo
<1>2. CASE /\ work' = [work EXCEPT ![p].batch = got, ![p].page = 1]
           /\ pc' = [pc EXCEPT ![p] = "ensure"]
    <2> DEFINE w == [work[p] EXCEPT !.batch = got, !.page = 1]
    <2>0. work[p] \in Work
        BY Frame DEF OneCopyInv
    <2>1. w.batch = got
        BY <2>0, WorkEdited
    <2>2. \A b, c \in w.batch : b.n = c.n => b = c
        BY <2>1
    <2>3. work' = [work EXCEPT ![p] = w]
        BY <1>2
    <2> HIDE DEF w
    <2> QED BY <1>2, <2>2, <2>3, BatchOneCopy
<1> QED BY <1>1, <1>2 DEF EndListing

LEMMA ListPageOneCopy ==
    ASSUME OneCopyInv, TypeInv', From = "github" => MaxItems <= PageSize,
           NEW p \in Jobs, ListPage(p)
    PROVE  OneCopyInv'
<1> DEFINE r   == Here(p)
           got == work[p].batch \cup {Snap(r, n) : n \in OnPage(r, pass[p].since, work[p].page)}
<1>1. pc[p] = "list" /\ UNCHANGED tgt /\ pc[p] \in InRepo /\ MaxItems <= PageSize
    BY DEF ListPage, forges, InRepo
<1>2. work[p].page = 1 /\ work[p].batch = {} /\ r \in Repos
    BY <1>1, HereTyped DEF OneCopyInv, KnowsCopies
<1>3. Cardinality(Listed(r, pass[p].since)) <= work[p].page * PageSize
    BY <1>1, <1>2, OnePage DEF OneCopyInv
<1>4. \A b, c \in got : b.n = c.n => b = c
    BY <1>2 DEF Snap
<1> HIDE DEF got
<1>5. EndListing(p, got)
    BY <1>3 DEF ListPage, got
<1> QED BY <1>1, <1>4, <1>5, EndListingOneCopy

LEMMA ListGitLabOneCopy ==
    ASSUME OneCopyInv, TypeInv', NEW p \in Jobs, ListChanged(p) \/ ListEvents(p) \/ Fetch(p)
    PROVE  OneCopyInv'
<1>1. UNCHANGED tgt /\ pc[p] \in InRepo /\ work[p] \in Work
    BY Frame DEF ListChanged, ListEvents, Fetch, forges, InRepo, OneCopyInv
<1>2. \A b, c \in work[p].batch : b.n = c.n => b = c
    BY DEF OneCopyInv, KnowsCopies
<1>3. CASE ListChanged(p)
    <2> DEFINE w == [work[p] EXCEPT !.batch =
                        {Snap(Here(p), n) : n \in Listed(Here(p), pass[p].since)}]
    <2>1. work' = [work EXCEPT ![p] = w] /\ pc' = [pc EXCEPT ![p] = "events"]
        BY <1>3 DEF ListChanged
    <2>2. w.batch = {Snap(Here(p), n) : n \in Listed(Here(p), pass[p].since)}
        BY <1>1 DEF Work
    <2>3. \A b, c \in w.batch : b.n = c.n => b = c
        BY <2>2 DEF Snap
    <2> HIDE DEF w
    <2> QED BY <1>1, <2>1, <2>3, BatchOneCopy
<1>4. CASE ListEvents(p)
    <2> DEFINE w == [work[p] EXCEPT !.commented = Commented(Here(p), pass[p].since)]
    <2>1. work' = [work EXCEPT ![p] = w] /\ pc' = [pc EXCEPT ![p] = "fetch"]
        BY <1>4 DEF ListEvents
    <2>2. w.batch = work[p].batch
        BY <1>1 DEF Work
    <2> HIDE DEF w
    <2> QED BY <1>1, <1>2, <2>1, <2>2, BatchOneCopy
<1>5. ASSUME NEW n \in work[p].commented, pc[p] = "fetch", UNCHANGED pc,
             work' = [work EXCEPT ![p].commented = @ \ {n},
                        ![p].batch = @ \cup {Snap(Here(p), m) : m \in Unlisted(p, n)}]
      PROVE  OneCopyInv'
    <2> DEFINE got == work[p].batch \cup {Snap(Here(p), m) : m \in Unlisted(p, n)}
               w   == [work[p] EXCEPT !.commented = @ \ {n}, !.batch = got]
    <2>1. work' = [work EXCEPT ![p] = w]
        BY <1>5
    <2>2. \A b, c \in got : b.n = c.n => b = c
        BY <1>2 DEF Snap, Unlisted
    <2> HIDE DEF got
    <2>3. w.batch = got
        BY <1>1 DEF Work
    <2>4. pc' = [pc EXCEPT ![p] = "fetch"]
        BY <1>5, Frame DEF OneCopyInv
    <2> HIDE DEF w
    <2> QED BY <1>1, <2>1, <2>2, <2>3, <2>4, BatchOneCopy
<1>6. CASE EndListing(p, work[p].batch)
    BY <1>1, <1>2, <1>6, EndListingOneCopy
<1> QED BY <1>3, <1>4, <1>5, <1>6 DEF Fetch

LEMMA EnsureRepoOneCopy ==
    ASSUME OneCopyInv, TypeInv', NEW p \in Jobs, EnsureRepo(p)
    PROVE  OneCopyInv'
<1>1. /\ pc[p] = "ensure" /\ pc' = [pc EXCEPT ![p] = "origins"] /\ UNCHANGED tgt
      /\ work' = [work EXCEPT ![p] = work[p]]
    BY Frame DEF EnsureRepo, OneCopyInv
<1>2. \A b, c \in work[p].batch : b.n = c.n => b = c
    BY DEF OneCopyInv, KnowsCopies
<1> QED BY <1>1, <1>2, SameTarget, KnowsNothing DEF Informed, InRepo

LEMMA ReadOriginsOneCopy ==
    ASSUME OneCopyInv, TypeInv', NEW p \in Jobs, ReadOrigins(p)
    PROVE  OneCopyInv'
<1>0. PICK w : w = [work[p] EXCEPT !.origins = OriginsOf(Here(p))]
    OBVIOUS
<1>1. /\ pc[p] = "origins" /\ pc' = [pc EXCEPT ![p] = "labels"] /\ UNCHANGED tgt
      /\ work' = [work EXCEPT ![p].origins = OriginsOf(Here(p))]
      /\ pc \in [Jobs -> Places] /\ work \in [Jobs -> Work]
    BY DEF ReadOrigins, forges, OneCopyInv, TypeInv, TypeOK
<1>2. Here(p) \in Repos /\ Here(p) = work[p].repo
    BY <1>1, HereTyped DEF OneCopyInv, InRepo
<1>3. /\ w.origins = OriginsOf(Here(p)) /\ w.batch = work[p].batch /\ w.repo = work[p].repo
      /\ work' = [work EXCEPT ![p] = w]
    BY <1>0, <1>1 DEF Work
<1>4. ASSUME NEW b \in work[p].batch, OriginsOf(Here(p))[b.n] = 0
      PROVE  Copies(Here(p), b.n) = {}
    <2>1. b.n \in DOMAIN src[Here(p)]
        BY <1>1, HereTyped DEF OneCopyInv, InRepo
    <2>2. b.n \in Numbers
        BY <1>2, <2>1, SourceTyped DEF OneCopyInv, TypeInv, Placed, Numbers
    <2>3. 0 \notin Copies(Here(p), b.n)
        BY <1>2, TargetTyped DEF Copies, OneCopyInv, TypeInv
    <2> QED BY <1>2, <1>4, <2>2, <2>3, OriginsTyped DEF OneCopyInv
<1>5. ASSUME NEW b \in w.batch, w.origins[b.n] = 0
      PROVE  Copies(w.repo, b.n)' = {}
    <2>1. Copies(w.repo, b.n) = {}
        BY <1>2, <1>3, <1>4, <1>5
    <2> QED BY <1>1, <2>1 DEF Copies
<1>6. KnowsCopies(p)'
    <2>1. pc'[p] = "labels" /\ work'[p] = w
        BY <1>1, <1>3
    <2>2. \A b, c \in w.batch : b.n = c.n => b = c
        BY <1>3 DEF OneCopyInv, KnowsCopies
    <2> QED BY <1>5, <2>1, <2>2 DEF KnowsCopies, InRepo, Copies
<1>7. AtMostOneCopy'
    BY <1>1, SameTarget, SameMarksOneCopy DEF OneCopyInv
<1> QED BY <1>1, <1>3, <1>6, <1>7, OneCopyStep

LEMMA EnsureLabelsOneCopy ==
    ASSUME OneCopyInv, TypeInv', NEW p \in Jobs, EnsureLabels(p)
    PROVE  OneCopyInv'
<1>1. /\ pc[p] = "labels" /\ UNCHANGED tgt
      /\ work' = [work EXCEPT ![p] = work[p]] /\ pc = [pc EXCEPT ![p] = pc[p]]
    BY Frame DEF EnsureLabels, people, OneCopyInv
<1>2. PICK l \in {"labels", "issue"} : pc' = [pc EXCEPT ![p] = l]
    BY <1>1 DEF EnsureLabels
<1> QED BY <1>1, <1>2, SameTarget, KeepsKnowing DEF Informed

LEMMA BeginKnowing ==
    ASSUME OneCopyInv, TypeInv', SameMarks, NEW p \in Jobs, pc[p] = "issue",
           NEW b \in work[p].batch, NEW ref, NEW l \in Informed, Begin(p, b, ref, l)
    PROVE  OneCopyInv'
<1>1. PICK w : w = [work[p] EXCEPT !.batch = @ \ {b}, !.item = b, !.ref = ref]
    OBVIOUS
<1>2. work' = [work EXCEPT ![p] = w] /\ pc' = [pc EXCEPT ![p] = l] /\ work[p] \in Work
    BY <1>1, JobTyped DEF Begin, OneCopyInv, TypeInv
<1>3. w.repo = work[p].repo /\ w.batch \subseteq work[p].batch /\ w.origins = work[p].origins
    BY <1>1, <1>2 DEF Work
<1>4. pc[p] \in Informed
    BY DEF Informed
<1> QED BY <1>2, <1>3, <1>4, KeepsKnowing

LEMMA ReflectOneCopy ==
    ASSUME OneCopyInv, TypeInv', NEW p \in Jobs, Reflect(p)
    PROVE  OneCopyInv'
<1>1. PICK b \in work[p].batch : /\ pc[p] = "issue"
                                 /\ tgt' = [tgt EXCEPT ![Here(p)][b.mark].state = b.state]
                                 /\ Begin(p, b, b.mark, "comments")
    BY DEF Reflect
<1>2. Here(p) \in Repos
    BY <1>1, HereTyped DEF InRepo, OneCopyInv
<1> DEFINE i == [tgt[Here(p)][b.mark] EXCEPT !.state = b.state]
<1>3. tgt' = [tgt EXCEPT ![Here(p)] = [tgt[Here(p)] EXCEPT ![b.mark] = i]]
    BY <1>1
<1>4. b.mark \in DOMAIN tgt[Here(p)] => i.mark = tgt[Here(p)][b.mark].mark
    BY <1>2, TargetTyped DEF TargetItem, OneCopyInv, TypeInv
<1> HIDE DEF i
<1>5. SameMarks
    BY <1>2, <1>3, <1>4, SameMarksWrite DEF OneCopyInv, TypeInv
<1> QED BY <1>1, <1>5, BeginKnowing DEF Informed

LEMMA UpdateOneCopy ==
    ASSUME OneCopyInv, TypeInv', NEW p \in Jobs, Update(p)
    PROVE  OneCopyInv'
<1> DEFINE r == Here(p)
<1>1. PICK b \in work[p].batch :
          /\ pc[p] = "issue"
          /\ tgt' = [tgt EXCEPT ![r][work[p].origins[b.n]] = [@ EXCEPT !.rev = b.rev, !.state = b.state]]
          /\ Begin(p, b, work[p].origins[b.n], "comments")
    BY DEF Update
<1> DEFINE ref == work[p].origins[b.n]
           i   == [tgt[r][ref] EXCEPT !.rev = b.rev, !.state = b.state]
<1>2. r \in Repos
    BY <1>1, HereTyped DEF InRepo, OneCopyInv
<1>3. tgt' = [tgt EXCEPT ![r] = [tgt[r] EXCEPT ![ref] = i]]
    BY <1>1
<1>4. ref \in DOMAIN tgt[r] => i.mark = tgt[r][ref].mark
    BY <1>2, TargetTyped DEF TargetItem, OneCopyInv, TypeInv
<1>5. SameMarks
    <2> HIDE DEF i, ref
    <2> QED BY <1>2, <1>3, <1>4, SameMarksWrite DEF OneCopyInv, TypeInv
<1> QED BY <1>1, <1>5, BeginKnowing DEF Informed

LEMMA CloseItemOneCopy ==
    ASSUME OneCopyInv, TypeInv', NEW p \in Jobs, CloseItem(p)
    PROVE  OneCopyInv'
<1> DEFINE r   == Here(p)
           ref == work[p].ref
           i   == [tgt[r][ref] EXCEPT !.state = "closed"]
<1>1. /\ pc[p] = "close" /\ work' = [work EXCEPT ![p] = work[p]]
      /\ pc' = [pc EXCEPT ![p] = "comments"]
    BY Frame DEF CloseItem, OneCopyInv
<1>2. r \in Repos
    BY <1>1, HereTyped DEF InRepo, OneCopyInv
<1>3. tgt' = [tgt EXCEPT ![r] = [tgt[r] EXCEPT ![ref] = i]]
    BY DEF CloseItem
<1>4. ref \in DOMAIN tgt[r] => i.mark = tgt[r][ref].mark
    BY <1>2, TargetTyped DEF TargetItem, OneCopyInv, TypeInv
<1>5. SameMarks
    <2> HIDE DEF i, ref
    <2> QED BY <1>2, <1>3, <1>4, SameMarksWrite DEF OneCopyInv, TypeInv
<1> QED BY <1>1, <1>5, KeepsKnowing DEF Informed

(* The notes of the item in hand: nothing is learnt or forgotten about copies. *)
LEMMA NotesKnowing ==
    ASSUME OneCopyInv, TypeInv', SameMarks, NEW p \in Jobs, pc[p] \in Informed,
           NEW l \in Informed, NEW N,
           pc' = [pc EXCEPT ![p] = l], work' = [work EXCEPT ![p].notes = N]
    PROVE  OneCopyInv'
<1>1. PICK w : w = [work[p] EXCEPT !.notes = N]
    OBVIOUS
<1>2. work' = [work EXCEPT ![p] = w] /\ work[p] \in Work
    BY <1>1, JobTyped DEF OneCopyInv, TypeInv
<1>3. w.repo = work[p].repo /\ w.batch = work[p].batch /\ w.origins = work[p].origins
    BY <1>1, <1>2 DEF Work
<1> QED BY <1>2, <1>3, KeepsKnowing

LEMMA ItemDoneKnowing ==
    ASSUME OneCopyInv, TypeInv', UNCHANGED tgt, NEW p \in Jobs, pc[p] \in Informed, ItemDone(p)
    PROVE  OneCopyInv'
<1>1. PICK w : w = [work[p] EXCEPT !.item = NoItem, !.ref = 0, !.notes = {}]
    OBVIOUS
<1>2. work' = [work EXCEPT ![p] = w] /\ pc' = [pc EXCEPT ![p] = "issue"] /\ work[p] \in Work
    BY <1>1, JobTyped DEF OneCopyInv, TypeInv, ItemDone
<1>3. w.repo = work[p].repo /\ w.batch = work[p].batch /\ w.origins = work[p].origins
    BY <1>1, <1>2 DEF Work
<1> QED BY <1>2, <1>3, SameTarget, KeepsKnowing DEF Informed

LEMMA CommentsOneCopy ==
    ASSUME OneCopyInv, TypeInv', NEW p \in Jobs, SourceComments(p) \/ TargetComments(p)
    PROVE  OneCopyInv'
<1>1. UNCHANGED tgt /\ pc[p] \in Informed
    BY DEF SourceComments, TargetComments, forges, Informed
<1>2. \/ ItemDone(p)
      \/ \E N : \E l \in {"have", "post"} : /\ work' = [work EXCEPT ![p].notes = N]
                                            /\ pc' = [pc EXCEPT ![p] = l]
    BY DEF SourceComments, TargetComments
<1> QED BY <1>1, <1>2, SameTarget, ItemDoneKnowing, NotesKnowing DEF Informed

LEMMA PostCommentOneCopy ==
    ASSUME OneCopyInv, TypeInv', NEW p \in Jobs, PostComment(p)
    PROVE  OneCopyInv'
<1> DEFINE r   == Here(p)
           ref == work[p].ref
<1>1. pc[p] = "post" /\ pc[p] \in Informed
    BY DEF PostComment, Informed
<1>2. r \in Repos
    BY <1>1, HereTyped DEF InRepo, OneCopyInv
<1>3. ASSUME NEW k \in work[p].notes,
             tgt' = [tgt EXCEPT ![r][ref].notes = Append(@, k)],
             work' = [work EXCEPT ![p].notes = @ \ {k}], UNCHANGED pc
      PROVE  OneCopyInv'
    <2> DEFINE i == [tgt[r][ref] EXCEPT !.notes = Append(@, k)]
    <2>1. tgt' = [tgt EXCEPT ![r] = [tgt[r] EXCEPT ![ref] = i]]
        BY <1>3
    <2>2. ref \in DOMAIN tgt[r] => i.mark = tgt[r][ref].mark
        BY <1>2, TargetTyped DEF TargetItem, OneCopyInv, TypeInv
    <2>3. SameMarks
        <3> HIDE DEF i, ref
        <3> QED BY <1>2, <2>1, <2>2, SameMarksWrite DEF OneCopyInv, TypeInv
    <2>4. pc' = [pc EXCEPT ![p] = pc[p]] /\ work' = [work EXCEPT ![p].notes = work[p].notes \ {k}]
        BY <1>3, Frame DEF OneCopyInv
    <2> QED BY <1>1, <2>3, <2>4, NotesKnowing
<1>4. CASE ItemDone(p) /\ UNCHANGED tgt
    BY <1>1, <1>4, ItemDoneKnowing
<1> QED BY <1>3, <1>4 DEF PostComment

LEMMA LeaveStepsOneCopy ==
    ASSUME OneCopyInv, TypeInv', NEW p \in Jobs, FinishRepo(p) \/ FailRepo(p) \/ Crash(p)
    PROVE  OneCopyInv'
<1>1. PICK l \in {"next", "idle"} : pc' = [pc EXCEPT ![p] = l] /\ work' = [work EXCEPT ![p] = NoWork]
    BY DEF FinishRepo, FailRepo, Crash, LeaveRepo
<1>2. UNCHANGED tgt
    BY DEF FinishRepo, FailRepo, Crash, forges
<1>3. pc[p] # "idle"
    <2>1. Here(p) # NoRepo => pc[p] \in InRepo
        BY Frame DEF OneCopyInv, Here, Work
    <2> QED BY <2>1 DEF FinishRepo, FailRepo, Crash, InRepo
<1> QED BY <1>1, <1>2, <1>3, LeaveOneCopy

(* The one step that writes a copy: of an item that has none, and no other item. *)
LEMMA Appended ==
    ASSUME TypeOK, NEW r \in Repos, NEW i, tgt' = [tgt EXCEPT ![r] = Append(tgt[r], i)]
    PROVE  /\ \A q \in Repos \ {r} : tgt'[q] = tgt[q]
           /\ DOMAIN tgt[r] \subseteq DOMAIN tgt'[r]
           /\ \A c \in DOMAIN tgt'[r] :
                  /\ c \in DOMAIN tgt[r] => tgt'[r][c] = tgt[r][c]
                  /\ c \notin DOMAIN tgt[r] => c = Len(tgt[r]) + 1 /\ tgt'[r][c] = i
<1>1. tgt \in [Repos -> Seq(TargetItem)]
    BY DEF TypeOK
<1>2. /\ tgt'[r] = Append(tgt[r], i) /\ \A q \in Repos \ {r} : tgt'[q] = tgt[q]
      /\ DOMAIN tgt[r] = 1..Len(tgt[r]) /\ Len(tgt[r]) \in Nat /\ tgt[r] \in Seq(TargetItem)
    BY <1>1, LenProperties
<1>3. /\ DOMAIN tgt'[r] = 1..(Len(tgt[r]) + 1)
      /\ \A c \in 1..Len(tgt[r]) : tgt'[r][c] = tgt[r][c]
      /\ tgt'[r][Len(tgt[r]) + 1] = i
    BY <1>2
<1>4. \A c \in 1..(Len(tgt[r]) + 1) : c \notin 1..Len(tgt[r]) => c = Len(tgt[r]) + 1
    BY <1>2
<1>5. DOMAIN tgt[r] \subseteq DOMAIN tgt'[r]
    BY <1>2, <1>3
<1>6. ASSUME NEW c \in DOMAIN tgt'[r]
      PROVE  /\ c \in DOMAIN tgt[r] => tgt'[r][c] = tgt[r][c]
             /\ c \notin DOMAIN tgt[r] => c = Len(tgt[r]) + 1 /\ tgt'[r][c] = i
    BY <1>2, <1>3, <1>4
<1> QED BY <1>2, <1>5, <1>6

LEMMA CreateOneCopy ==
    ASSUME OneCopyInv, TypeInv', NEW p \in Jobs, Create(p)
    PROVE  OneCopyInv'
<1>1. PICK b \in work[p].batch :
          /\ pc[p] = "issue"
          /\ work[p].origins[b.n] = 0
          /\ tgt' = [tgt EXCEPT ![Here(p)] =
                Append(@, [mark |-> b.n, rev |-> b.rev, state |-> "open", notes |-> <<>>])]
          /\ Begin(p, b, Len(tgt[Here(p)]) + 1, IF b.state = "closed" THEN "close" ELSE "comments")
    BY DEF Create
<1>2. PICK r : r = Here(p)
    OBVIOUS
<1>3. PICK i : i = [mark |-> b.n, rev |-> b.rev, state |-> "open", notes |-> <<>>]
    OBVIOUS
<1>4. /\ r \in Repos /\ r = work[p].repo /\ TypeOK /\ KnowsCopies(p)
      /\ pc[p] \in Informed /\ pc \in [Jobs -> Places] /\ work \in [Jobs -> Work]
    BY <1>1, <1>2, HereTyped DEF InRepo, Informed, OneCopyInv, TypeInv, TypeOK
<1>5. tgt' = [tgt EXCEPT ![r] = Append(tgt[r], i)] /\ i.mark = b.n
    BY <1>1, <1>2, <1>3
<1>6. \A c \in DOMAIN tgt'[r] :
          /\ c \in DOMAIN tgt[r] => tgt'[r][c] = tgt[r][c]
          /\ c \notin DOMAIN tgt[r] => c = Len(tgt[r]) + 1 /\ tgt'[r][c] = i
    BY <1>4, <1>5, Appended
<1>7. \A c \in DOMAIN tgt[r] : tgt[r][c].mark # b.n
    BY <1>1, <1>4 DEF KnowsCopies, Copies
<1>8. \A q \in Repos \ {r} : tgt'[q] = tgt[q]
    BY <1>4, <1>5, Appended
<1>9. AtMostOneCopy'
    <2>1. ASSUME NEW c \in DOMAIN tgt'[r], NEW d \in DOMAIN tgt'[r],
                 tgt'[r][c].mark = tgt'[r][d].mark, tgt'[r][c].mark # 0
          PROVE  c = d
        <3>1. CASE c \in DOMAIN tgt[r] /\ d \in DOMAIN tgt[r]
            BY <1>4, <1>6, <2>1, <3>1 DEF OneCopyInv, AtMostOneCopy
        <3>2. CASE c \notin DOMAIN tgt[r] /\ d \notin DOMAIN tgt[r]
            BY <1>6, <3>2
        <3>3. CASE c \in DOMAIN tgt[r] /\ d \notin DOMAIN tgt[r]
            BY <1>5, <1>6, <1>7, <2>1, <3>3
        <3>4. CASE c \notin DOMAIN tgt[r] /\ d \in DOMAIN tgt[r]
            BY <1>5, <1>6, <1>7, <2>1, <3>4
        <3> QED BY <3>1, <3>2, <3>3, <3>4
    <2>2. ASSUME NEW q \in Repos \ {r}, NEW c \in DOMAIN tgt'[q], NEW d \in DOMAIN tgt'[q],
                 tgt'[q][c].mark = tgt'[q][d].mark, tgt'[q][c].mark # 0
          PROVE  c = d
        BY <1>8, <2>2 DEF OneCopyInv, AtMostOneCopy
    <2> QED BY <2>1, <2>2 DEF AtMostOneCopy
<1>10. PICK w : w = [work[p] EXCEPT !.batch = @ \ {b}, !.item = b, !.ref = Len(tgt[r]) + 1]
    OBVIOUS
<1>11. PICK l \in {"close", "comments"} : pc' = [pc EXCEPT ![p] = l]
    BY <1>1 DEF Begin
<1>12. /\ work' = [work EXCEPT ![p] = w] /\ w.repo = r
       /\ w.batch = work[p].batch \ {b} /\ w.origins = work[p].origins
    <2>1. work' = [work EXCEPT ![p].batch = @ \ {b}, ![p].item = b, ![p].ref = Len(tgt[r]) + 1]
        BY <1>1, <1>2 DEF Begin
    <2>2. work[p] \in Work
        BY <1>4
    <2>3. w.repo = r /\ w.batch = work[p].batch \ {b} /\ w.origins = work[p].origins
        BY <1>4, <1>10, <2>2 DEF Work
    <2>4. work' = [work EXCEPT ![p] = w]
        BY <1>10, <2>1
    <2> QED BY <2>3, <2>4
<1>13. ASSUME NEW e \in w.batch, w.origins[e.n] = 0
       PROVE  Copies(r, e.n)' = {}
    <2>1. e \in work[p].batch /\ e # b
        BY <1>12, <1>13
    <2>2. e.n # b.n
        BY <1>4, <2>1 DEF KnowsCopies
    <2>3. \A c \in DOMAIN tgt[r] : tgt[r][c].mark # e.n
        BY <1>4, <1>12, <1>13, <2>1 DEF KnowsCopies, Copies
    <2>4. \A c \in DOMAIN tgt'[r] : tgt'[r][c].mark # e.n
        BY <1>5, <1>6, <2>2, <2>3
    <2> QED BY <2>4 DEF Copies
<1>14. KnowsCopies(p)'
    <2>1. pc'[p] = l /\ work'[p] = w /\ l \in InRepo /\ l # "list"
        BY <1>4, <1>11, <1>12 DEF InRepo
    <2>2. \A c, d \in w.batch : c.n = d.n => c = d
        BY <1>4, <1>12 DEF KnowsCopies
    <2> QED BY <1>12, <1>13, <2>1, <2>2 DEF KnowsCopies, Copies
<1> QED BY <1>4, <1>9, <1>11, <1>12, <1>14, OneCopyStep DEF Informed

LEMMA NextOneCopy ==
    ASSUME OneCopyInv, ~Overlap, From = "github" => MaxItems <= PageSize, [Next]_vars
    PROVE  OneCopyInv'
<1>1. TypeInv'
    BY NextTypes DEF OneCopyInv
<1>2. CASE UNCHANGED vars
    <2>1. ASSUME NEW p \in Jobs PROVE KnowsCopies(p)'
        <3>1. UNCHANGED <<pc, work, tgt>> /\ KnowsCopies(p)
            BY <1>2 DEF vars, OneCopyInv
        <3>2. \A r, n : Copies(r, n)' = Copies(r, n)
            BY <3>1 DEF Copies
        <3> QED BY <3>1, <3>2 DEF KnowsCopies
    <2>2. Solo' /\ AtMostOneCopy'
        BY <1>2 DEF vars, OneCopyInv, Solo, AtMostOneCopy
    <2> QED BY <1>1, <2>1, <2>2 DEF OneCopyInv
<1>3. CASE Forges
    BY <1>3, ForgesOneCopy
<1>4. ASSUME NEW p \in Jobs, StartRun(p) \/ Step(p) \/ Fault(p) PROVE OneCopyInv'
    <2>1. CASE Step(p)
        BY <1>1, <2>1, RunOneCopy, NextRepoOneCopy, ListPageOneCopy, ListGitLabOneCopy, EnsureRepoOneCopy,
           ReadOriginsOneCopy, EnsureLabelsOneCopy, ReflectOneCopy, CreateOneCopy, CloseItemOneCopy,
           UpdateOneCopy, CommentsOneCopy, PostCommentOneCopy, LeaveStepsOneCopy
           DEF Step
    <2>2. CASE Fault(p)
        BY <1>1, <2>2, RunOneCopy, LeaveStepsOneCopy DEF Fault
    <2> QED BY <1>1, <1>4, <2>1, <2>2, StartRunOneCopy
<1> QED BY <1>2, <1>3, <1>4 DEF Next

(* Running again creates nothing that is already there (mirror.go:109-166): with one
   run at a time, and GitHub's listing on one page, no schedule of edits, crashes,
   failed calls and lost cursors gives an item a second copy, mirroring or restoring,
   however many repositories and jobs there are. *)
THEOREM OneCopy ==
    ASSUME ~Overlap, From = "github" => MaxItems <= PageSize
    PROVE  Spec => []AtMostOneCopy
<1>1. Init => OneCopyInv
    BY InitOneCopy
<1>2. OneCopyInv /\ [Next]_vars => OneCopyInv'
    BY NextOneCopy
<1>3. OneCopyInv => AtMostOneCopy
    BY DEF OneCopyInv
<1> QED BY <1>1, <1>2, <1>3, PTL DEF Spec

=============================================================================
