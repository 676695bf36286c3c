------------------------- MODULE MirrorProgressProofs -------------------------
(* Proofs that Mirror only moves forward.  A copy never goes back to an older revision:
   what a run has listed of an item is no older than what any copy of it shows, because
   no other run writes meanwhile and the run takes two snapshots of an item in their
   order.  And a cursor keeps its promise: what changed up to it is in the target,
   because a run starts where the last promise ends and, of all that changed before it
   started, each item is in the target, still listed, or in hand until it is done.
   Together: every step of Mirror is a step of Backup, or none that Backup sees. *)
EXTENDS MirrorNotesProofs

USE JobsAssumption, BoundsAssumption, TimeAssumption

-----------------------------------------------------------------------------
(* The invariant. *)

RevsBounded == \A r \in Repos : \A n \in DOMAIN src[r] : src[r][n].rev <= rev

CopiesBehind == \A r \in Repos : \A c \in DOMAIN tgt[r] :
    tgt[r][c].mark # 0 => tgt[r][c].rev <= src[r][tgt[r][c].mark].rev

(* What is in a batch lies between the copy and the item. *)
Between(r, batch) == \A b \in batch :
    b.rev <= src[r][b.n].rev /\ \A c \in Copies(r, b.n) : tgt[r][c].rev <= b.rev

(* GitLab's listings, taken in no order, hold an item once. *)
OncePerItem(batch) == From = "gitlab" => \A b, d \in batch : b.n = d.n => b = d

RevInv ==
    /\ EchoInv /\ Solo /\ RevsBounded /\ CopiesBehind
    /\ \A p \in Jobs : Between(work[p].repo, work[p].batch) /\ OncePerItem(work[p].batch)

LEMMA InitRevs == Init => RevInv
<1> SUFFICES ASSUME Init PROVE RevInv
    OBVIOUS
<1>1. Solo /\ RevsBounded /\ CopiesBehind
    BY DEF Init, Solo, RevsBounded, CopiesBehind
<1>2. \A p \in Jobs : Between(work[p].repo, work[p].batch) /\ OncePerItem(work[p].batch)
    BY DEF Init, NoWork, Between, OncePerItem
<1> QED BY <1>1, <1>2, InitEcho DEF RevInv

-----------------------------------------------------------------------------
(* What a step does to revisions. *)

SourceForward == \A r \in Repos : \A n \in DOMAIN src[r] : src[r][n].rev <= src'[r][n].rev

TargetForward == \A r \in Repos : \A c \in DOMAIN tgt[r] : tgt[r][c].rev <= tgt'[r][c].rev

(* The revisions the target shows stay, and it gets no copies. *)
TargetStill == \A r \in Repos :
    /\ DOMAIN tgt[r] \subseteq DOMAIN tgt'[r]
    /\ \A c \in DOMAIN tgt[r] : tgt'[r][c].rev = tgt[r][c].rev /\ tgt'[r][c].mark = tgt[r][c].mark
    /\ \A c \in DOMAIN tgt'[r] \ DOMAIN tgt[r] : tgt'[r][c].mark = 0

LEMMA Unmoved == ASSUME TypeOK, UNCHANGED src PROVE SourceForward
<1>1. \A r \in Repos : \A n \in DOMAIN src[r] : src[r][n].rev \in Nat
    BY SourceTyped DEF SourceItem
<1> QED BY <1>1 DEF SourceForward

LEMMA StillForward == ASSUME TypeOK, TargetStill PROVE TargetForward
<1>1. \A r \in Repos : \A c \in DOMAIN tgt[r] : tgt[r][c].rev \in Nat
    BY TargetTyped DEF TargetItem
<1> QED BY <1>1 DEF TargetStill, TargetForward

(* Item c of target r becomes i, which shows the same revision of the same item. *)
LEMMA StillWritten ==
    ASSUME TypeOK, NEW r \in Repos, NEW c, NEW i,
           tgt' = [tgt EXCEPT ![r] = [tgt[r] EXCEPT ![c] = i]],
           c \in DOMAIN tgt[r] => i.mark = tgt[r][c].mark /\ i.rev = tgt[r][c].rev
    PROVE  TargetStill
<1>1. Wrote(r, c, i)
    BY TargetWritten
<1> QED BY <1>1 DEF Wrote, TargetStill

LEMMA StillAppended ==
    ASSUME TypeOK, NEW r \in Repos, NEW i, tgt' = [tgt EXCEPT ![r] = Append(tgt[r], i)], i.mark = 0
    PROVE  TargetStill
<1>1. /\ \A q \in Repos \ {r} : tgt'[q] = tgt[q]
      /\ DOMAIN tgt[r] \subseteq DOMAIN tgt'[r]
      /\ \A c \in DOMAIN tgt'[r] : /\ c \in DOMAIN tgt[r] => tgt'[r][c] = tgt[r][c]
                                   /\ c \notin DOMAIN tgt[r] => tgt'[r][c] = i
    BY Appended
<1> QED BY <1>1 DEF TargetStill

LEMMA StateStill ==
    ASSUME TypeOK, NEW r \in Repos, NEW c, NEW s, tgt' = [tgt EXCEPT ![r][c].state = s]
    PROVE  TargetStill
<1>1. PICK i : i = [tgt[r][c] EXCEPT !.state = s]
    OBVIOUS
<1>2. tgt' = [tgt EXCEPT ![r] = [tgt[r] EXCEPT ![c] = i]]
    BY <1>1
<1>3. c \in DOMAIN tgt[r] => i.mark = tgt[r][c].mark /\ i.rev = tgt[r][c].rev
    BY <1>1, TargetTyped DEF TargetItem
<1> QED BY <1>2, <1>3, StillWritten

LEMMA NoteStill ==
    ASSUME TypeOK, NEW r \in Repos, NEW c, NEW k, tgt' = [tgt EXCEPT ![r][c].notes = Append(@, k)]
    PROVE  TargetStill
<1>1. PICK i : i = [tgt[r][c] EXCEPT !.notes = Append(@, k)]
    OBVIOUS
<1>2. tgt' = [tgt EXCEPT ![r] = [tgt[r] EXCEPT ![c] = i]]
    BY <1>1
<1>3. c \in DOMAIN tgt[r] => i.mark = tgt[r][c].mark /\ i.rev = tgt[r][c].rev
    BY <1>1, TargetTyped DEF TargetItem
<1> QED BY <1>2, <1>3, StillWritten

(* A change gives out a new revision, or none. *)
LEMMA ForgesForward ==
    ASSUME TypeInv, RevsBounded, Forges
    PROVE  SourceForward /\ RevsBounded' /\ TargetStill
<1>0. TypeOK /\ rev \in Nat /\ src \in [Repos -> Seq(SourceItem)]
    BY DEF TypeInv, TypeOK
<1>1. \A r \in Repos : \A n \in DOMAIN src[r] : src[r][n].rev \in Nat
    BY <1>0, SourceTyped DEF SourceItem
<1>2. ASSUME UNCHANGED tgt PROVE TargetStill
    BY <1>2 DEF TargetStill
<1>3. CASE UNCHANGED <<rev, src, tgt>>
    BY <1>0, <1>2, <1>3, Unmoved DEF RevsBounded
<1>4. ASSUME NEW r \in Repos, NEW n \in DOMAIN src[r], NEW i \in SourceItem, ItemTouched(r, n, i)
      PROVE  SourceForward /\ RevsBounded' /\ TargetStill
    <2>1. /\ src' = [src EXCEPT ![r] = [src[r] EXCEPT ![n] = i]] /\ rev' = rev + 1 /\ UNCHANGED tgt
          /\ i.rev \in {rev + 1, src[r][n].rev}
        BY <1>4 DEF ItemTouched
    <2>2. /\ \A q \in Repos : DOMAIN src'[q] = DOMAIN src[q]
          /\ \A q \in Repos : \A m \in DOMAIN src[q] : src'[q][m] = IF q = r /\ m = n THEN i ELSE src[q][m]
        BY <1>0, <2>1
    <2>3. src[r][n].rev <= i.rev /\ i.rev <= rev + 1
        <3>1. src[r][n].rev \in Nat /\ src[r][n].rev <= rev
            BY <1>1 DEF RevsBounded
        <3>2. PICK v \in Nat : v = src[r][n].rev
            BY <3>1
        <3>3. v <= v /\ (v <= rev => v <= rev + 1) /\ rev + 1 <= rev + 1
            BY <1>0
        <3> QED BY <2>1, <3>1, <3>2, <3>3
    <2>4. ASSUME NEW q \in Repos, NEW m \in DOMAIN src[q]
          PROVE  src[q][m].rev <= src'[q][m].rev /\ src'[q][m].rev <= rev'
        <3>1. CASE q = r /\ m = n
            BY <2>1, <2>2, <2>3, <3>1
        <3>2. CASE ~(q = r /\ m = n)
            <4>1. src'[q][m] = src[q][m] /\ src[q][m].rev <= rev /\ src[q][m].rev \in Nat
                BY <1>1, <2>2, <3>2 DEF RevsBounded
            <4>2. PICK v \in Nat : v = src[q][m].rev
                BY <4>1
            <4>3. v <= v /\ (v <= rev => v <= rev + 1)
                BY <1>0
            <4> QED BY <2>1, <4>1, <4>2, <4>3
        <3> QED BY <3>1, <3>2
    <2> QED BY <1>2, <2>1, <2>2, <2>4 DEF SourceForward, RevsBounded
<1>5. ASSUME NEW r \in Repos, NEW i \in SourceItem, ItemMade(r, i)
      PROVE  SourceForward /\ RevsBounded' /\ TargetStill
    <2>1. /\ src' = [src EXCEPT ![r] = Append(src[r], i)] /\ rev' = rev + 1 /\ UNCHANGED tgt
          /\ i.rev = rev + 1
        BY <1>5 DEF ItemMade
    <2>2. /\ src'[r] = Append(src[r], i) /\ \A q \in Repos \ {r} : src'[q] = src[q]
          /\ DOMAIN src[r] = 1..Len(src[r]) /\ Len(src[r]) \in Nat /\ src[r] \in Seq(SourceItem)
        BY <1>0, <2>1, LenProperties
    <2>3. /\ DOMAIN src'[r] = 1..(Len(src[r]) + 1)
          /\ \A m \in 1..Len(src[r]) : src'[r][m] = src[r][m]
          /\ src'[r][Len(src[r]) + 1] = i
        BY <2>2
    <2>4. ASSUME NEW q \in Repos, NEW m \in DOMAIN src'[q]
          PROVE  (m \in DOMAIN src[q] /\ src'[q][m] = src[q][m]) \/ src'[q][m] = i
        BY <2>2, <2>3
    <2>5. \A q \in Repos : \A m \in DOMAIN src[q] : src'[q][m] = src[q][m]
        BY <2>2, <2>3
    <2>6. SourceForward
        BY <1>1, <2>5 DEF SourceForward
    <2>7. \A q \in Repos : \A m \in DOMAIN src[q] : src[q][m].rev <= rev + 1
        BY <1>0, <1>1 DEF RevsBounded
    <2>8. RevsBounded'
        BY <1>0, <2>1, <2>4, <2>7 DEF RevsBounded
    <2> QED BY <1>2, <2>1, <2>6, <2>8
<1>6. CASE TargetWorked
    <2> DEFINE own == [mark |-> 0, rev |-> 0, state |-> "open", notes |-> <<>>]
    <2>1. PICK r \in Repos :
              /\ UNCHANGED src /\ rev' = rev + 1
              /\ \/ tgt' = [tgt EXCEPT ![r] = Append(@, own)]
                 \/ \E c \in DOMAIN tgt[r] : tgt' = [tgt EXCEPT ![r][c].notes = Append(@, 0)]
        BY <1>6 DEF TargetWorked
    <2>2. own.mark = 0
        OBVIOUS
    <2> HIDE DEF own
    <2>3. TargetStill
        BY <1>0, <2>1, <2>2, StillAppended, NoteStill
    <2>4. RevsBounded'
        <3>1. ASSUME NEW q \in Repos, NEW n \in DOMAIN src[q] PROVE src[q][n].rev <= rev + 1
            <4>1. src[q][n].rev \in Nat /\ src[q][n].rev <= rev
                BY <1>1 DEF RevsBounded
            <4> QED BY <1>0, <4>1
        <3> QED BY <2>1, <3>1 DEF RevsBounded
    <2> QED BY <1>0, <2>1, <2>3, <2>4, Unmoved
<1> QED BY <1>3, <1>4, <1>5, <1>6, ForgesKinds

-----------------------------------------------------------------------------
(* The invariant through a step that leaves the target's revisions alone. *)

LEMMA BehindKept ==
    ASSUME EchoInv, TypeOK', CopiesBehind, SourceForward, SourceGrows, TargetStill
    PROVE  CopiesBehind'
<1> SUFFICES ASSUME NEW r \in Repos, NEW c \in DOMAIN tgt'[r], tgt'[r][c].mark # 0
             PROVE  tgt'[r][c].rev <= src'[r][tgt'[r][c].mark].rev
    BY DEF CopiesBehind
<1>1. c \in DOMAIN tgt[r] /\ tgt'[r][c].rev = tgt[r][c].rev /\ tgt'[r][c].mark = tgt[r][c].mark
    BY DEF TargetStill
<1>2. PICK n : n = tgt[r][c].mark
    OBVIOUS
<1>3. n \in DOMAIN src[r] /\ n \in DOMAIN src'[r] /\ tgt[r][c].rev <= src[r][n].rev
    BY <1>1, <1>2 DEF CopiesBehind, EchoInv, Backed, CopiesBacked, SourceGrows
<1>4. src[r][n].rev \in Nat /\ src'[r][n].rev \in Nat /\ tgt[r][c].rev \in Nat
    <2>1. src[r][n] \in SourceItem /\ tgt[r][c] \in TargetItem
        BY <1>1, <1>3, SourceTyped, TargetTyped DEF EchoInv, TypeInv
    <2>2. src'[r][n] \in SourceItem
        <3>1. src'[r] \in Seq(SourceItem)
            BY DEF TypeOK
        <3> QED BY <1>3, <3>1, ElementOfSeq, LenProperties
    <2> QED BY <2>1, <2>2 DEF SourceItem, TargetItem
<1>5. src[r][n].rev <= src'[r][n].rev
    BY <1>3 DEF SourceForward
<1> QED BY <1>1, <1>2, <1>3, <1>4, <1>5

LEMMA BetweenKept ==
    ASSUME EchoInv, TypeOK', SourceForward, SourceGrows, TargetStill, NEW r \in Repos,
           NEW S \in SUBSET Snapshot, \A b \in S : b.n \in DOMAIN src[r], Between(r, S)
    PROVE  Between(r, S)'
<1> SUFFICES ASSUME NEW b \in S
             PROVE  b.rev <= src'[r][b.n].rev /\ \A c \in Copies(r, b.n)' : tgt'[r][c].rev <= b.rev
    BY DEF Between, Copies
<1>1. b.n \in DOMAIN src[r] /\ b.n # 0 /\ b.rev \in Nat
    BY SourceTyped DEF EchoInv, TypeInv, Snapshot
<1>2. \A c \in Copies(r, b.n)' : c \in Copies(r, b.n) /\ tgt'[r][c].rev = tgt[r][c].rev
    BY <1>1 DEF Copies, TargetStill
<1>3. \A c \in Copies(r, b.n) : tgt[r][c].rev <= b.rev
    BY DEF Between
<1>4. PICK n : n = b.n
    OBVIOUS
<1>5. src[r][n].rev \in Nat /\ src'[r][n].rev \in Nat
    <2>1. n \in DOMAIN src[r] /\ n \in DOMAIN src'[r]
        BY <1>1, <1>4 DEF SourceGrows
    <2>2. src[r][n] \in SourceItem
        BY <2>1, SourceTyped DEF EchoInv, TypeInv
    <2>3. src'[r] \in Seq(SourceItem)
        BY DEF TypeOK
    <2>4. src'[r][n] \in SourceItem
        BY <2>1, <2>3, ElementOfSeq, LenProperties
    <2> QED BY <2>2, <2>4 DEF SourceItem
<1>6. b.rev <= src[r][n].rev /\ src[r][n].rev <= src'[r][n].rev
    BY <1>1, <1>4 DEF Between, SourceForward
<1>7. b.rev <= src'[r][n].rev
    BY <1>1, <1>5, <1>6
<1> QED BY <1>2, <1>3, <1>4, <1>7

-----------------------------------------------------------------------------
(* What a step does to the batch. *)

Shrinks(p) ==
    /\ work'[p].batch \subseteq work[p].batch
    /\ work'[p].repo = work[p].repo \/ work'[p].batch = {}

Lists(p) ==
    /\ UNCHANGED tgt /\ work'[p].repo = work[p].repo
    /\ \A b \in work'[p].batch : b \in work[p].batch \/
           (Here(p) \in Repos /\ b.n \in DOMAIN src[Here(p)] /\ b = Snap(Here(p), b.n))
    /\ OncePerItem(work[p].batch) => OncePerItem(work'[p].batch)

LEMMA LeaveShrinks == ASSUME TypeInv, NEW p \in Jobs, work' = [work EXCEPT ![p] = NoWork] PROVE Shrinks(p)
<1>1. work'[p] = NoWork
    BY DEF TypeInv, TypeOK
<1> QED BY <1>1 DEF Shrinks, NoWork

LEMMA EndLists ==
    ASSUME TypeInv, NEW p \in Jobs, NEW got, EndListing(p, got)
    PROVE  Shrinks(p) \/ (work'[p].batch = got /\ work'[p].repo = work[p].repo)
<1>1. CASE LeaveRepo(p)
    BY <1>1, LeaveShrinks DEF LeaveRepo
<1>2. CASE work' = [work EXCEPT ![p].batch = got, ![p].page = 1]
    BY <1>2 DEF TypeInv, TypeOK, Work
<1> QED BY <1>1, <1>2 DEF EndListing

LEMMA SnapFields == \A r, n : Snap(r, n).n = n /\ Snap(r, n).rev = src[r][n].rev
BY DEF Snap

LEMMA ListSteps ==
    ASSUME TypeInv, NEW p \in Jobs, ListPage(p) \/ ListChanged(p) \/ ListEvents(p) \/ Fetch(p)
    PROVE  Shrinks(p) \/ Lists(p)
<1>0. /\ work \in [Jobs -> Work] /\ work[p] \in Work /\ UNCHANGED tgt
      /\ Here(p) \in Repos /\ Here(p) = work[p].repo
    <2>1. pc[p] \in InRepo
        BY DEF ListPage, ListChanged, ListEvents, Fetch, InRepo
    <2> QED BY <2>1, JobTyped, HereTyped DEF TypeInv, TypeOK, ListPage, ListChanged, ListEvents, Fetch, forges
<1> DEFINE r == Here(p)
<1>1. CASE ListPage(p)
    <2>1. PICK N : N = OnPage(r, pass[p].since, work[p].page)
        OBVIOUS
    <2>2. N \subseteq DOMAIN src[r]
        BY <2>1 DEF OnPage, Listed
    <2>3. PICK got : got = work[p].batch \cup {Snap(r, n) : n \in N}
        OBVIOUS
    <2>4. Shrinks(p) \/ (work'[p].batch = got /\ work'[p].repo = work[p].repo)
        <3>1. CASE EndListing(p, got)
            BY <3>1, EndLists
        <3>2. CASE work' = [work EXCEPT ![p].batch = got, ![p].page = @ + 1]
            BY <1>0, <3>2 DEF Work
        <3> QED BY <1>1, <2>1, <2>3, <3>1, <3>2 DEF ListPage
    <2>5. From # "gitlab"
        BY <1>1 DEF ListPage
    <2> QED BY <1>0, <2>2, <2>3, <2>4, <2>5, SnapFields DEF Lists, OncePerItem
<1>2. CASE ListChanged(p)
    <2>1. PICK N : N = Listed(r, pass[p].since)
        OBVIOUS
    <2>2. N \subseteq DOMAIN src[r]
        BY <2>1 DEF Listed
    <2>3. PICK got : got = {Snap(r, n) : n \in N}
        OBVIOUS
    <2>4. work'[p].batch = got /\ work'[p].repo = work[p].repo
        BY <1>0, <1>2, <2>1, <2>3 DEF ListChanged, Work
    <2>5. OncePerItem(got)
        BY <2>3, SnapFields DEF OncePerItem
    <2> QED BY <1>0, <2>2, <2>3, <2>4, <2>5, SnapFields DEF Lists
<1>3. CASE ListEvents(p)
    <2>1. work'[p].batch = work[p].batch /\ work'[p].repo = work[p].repo
        BY <1>0, <1>3 DEF ListEvents, Work
    <2> QED BY <2>1 DEF Shrinks
<1>4. ASSUME NEW n, work' = [work EXCEPT ![p].commented = @ \ {n},
                               ![p].batch = @ \cup {Snap(Here(p), m) : m \in Unlisted(p, n)}]
      PROVE  Lists(p)
    <2>1. PICK N : N = Unlisted(p, n)
        OBVIOUS
    <2>2. \A m \in N : m \in DOMAIN src[r] /\ m = n /\ \A b \in work[p].batch : b.n # n
        BY <2>1 DEF Unlisted
    <2>3. PICK got : got = work[p].batch \cup {Snap(r, m) : m \in N}
        OBVIOUS
    <2>4. work'[p].batch = got /\ work'[p].repo = work[p].repo
        BY <1>0, <1>4, <2>1, <2>3 DEF Work
    <2>5. ASSUME OncePerItem(work[p].batch), From = "gitlab", NEW b \in got, NEW d \in got, b.n = d.n
          PROVE  b = d
        BY <2>2, <2>3, <2>5, SnapFields DEF OncePerItem
    <2>6. \A b \in got : b \in work[p].batch \/ (b.n \in DOMAIN src[r] /\ b = Snap(r, b.n))
        BY <2>2, <2>3, SnapFields
    <2> QED BY <1>0, <2>4, <2>5, <2>6 DEF Lists, OncePerItem
<1>5. CASE EndListing(p, work[p].batch)
    BY <1>5, EndLists DEF Shrinks
<1> QED BY <1>1, <1>2, <1>3, <1>4, <1>5 DEF Fetch

LEMMA BeginShrinks ==
    ASSUME TypeInv, NEW p \in Jobs, NEW b, NEW ref, NEW l, Begin(p, b, ref, l)
    PROVE  Shrinks(p) /\ work'[p].batch = work[p].batch \ {b} /\ work'[p].repo = work[p].repo
BY DEF Begin, TypeInv, TypeOK, Work, Shrinks

LEMMA BatchSteps == ASSUME TypeInv, NEW p \in Jobs, StartRun(p) \/ Step(p) \/ Fault(p) PROVE Shrinks(p) \/ Lists(p)
<1>0. work \in [Jobs -> Work] /\ work[p] \in Work
    BY JobTyped DEF TypeInv, TypeOK
<1>1. CASE UNCHANGED work
    BY <1>1 DEF Shrinks
<1>2. CASE StartRun(p) \/ FindRepos(p) \/ FinishRun(p) \/ FailRun(p) \/ EnsureRepo(p) \/ EnsureLabels(p) \/ CloseItem(p)
    BY <1>1, <1>2 DEF StartRun, FindRepos, FinishRun, FailRun, EnsureRepo, EnsureLabels, CloseItem
<1>3. CASE NextRepo(p)
    <2>1. pc[p] \notin InRepo
        BY <1>3 DEF NextRepo, InRepo
    <2>2. work[p].batch = {}
        BY <2>1, OutsideEmpty
    <2>3. work'[p].batch = work[p].batch
        BY <1>0, <1>3 DEF NextRepo, Work
    <2> QED BY <2>2, <2>3 DEF Shrinks
<1>4. CASE ReadOrigins(p)
    <2>1. work'[p].batch = work[p].batch /\ work'[p].repo = work[p].repo
        BY <1>0, <1>4 DEF ReadOrigins, Work
    <2> QED BY <2>1 DEF Shrinks
<1>5. CASE Reflect(p) \/ Create(p) \/ Update(p)
    <2>1. PICK b, ref, l : Begin(p, b, ref, l)
        BY <1>5 DEF Reflect, Create, Update
    <2> QED BY <2>1, BeginShrinks
<1>6. CASE SourceComments(p) \/ TargetComments(p) \/ PostComment(p)
    <2>1. CASE ItemDone(p)
        <3>1. work'[p].batch = work[p].batch /\ work'[p].repo = work[p].repo
            BY <1>0, <2>1 DEF ItemDone, Work
        <3> QED BY <3>1 DEF Shrinks
    <2>2. ASSUME NEW N, work' = [work EXCEPT ![p].notes = N] PROVE Shrinks(p)
        <3>1. work'[p].batch = work[p].batch /\ work'[p].repo = work[p].repo
            BY <1>0, <2>2 DEF Work
        <3> QED BY <3>1 DEF Shrinks
    <2>3. \/ ItemDone(p)
          \/ \E N : work' = [work EXCEPT ![p].notes = N]
        BY <1>6 DEF SourceComments, TargetComments, PostComment
    <2> QED BY <2>1, <2>2, <2>3
<1>7. CASE FinishRepo(p) \/ FailRepo(p) \/ Crash(p)
    BY <1>7, LeaveShrinks DEF FinishRepo, FailRepo, Crash, LeaveRepo
<1> QED BY <1>2, <1>3, <1>4, <1>5, <1>6, <1>7, ListSteps DEF Step, Fault

(* Only the two writes of an item change what the target shows of one. *)
LEMMA StillSteps ==
    ASSUME TypeInv, NEW p \in Jobs, StartRun(p) \/ Step(p) \/ Fault(p), ~Create(p), ~Update(p)
    PROVE  TargetStill
<1>0. TypeOK /\ (pc[p] \in InRepo => Here(p) \in Repos)
    BY HereTyped DEF TypeInv
<1>1. CASE UNCHANGED tgt
    BY <1>1 DEF TargetStill
<1>2. CASE Reflect(p)
    BY <1>0, <1>2, StateStill DEF Reflect, InRepo
<1>3. CASE CloseItem(p)
    BY <1>0, <1>3, StateStill DEF CloseItem, InRepo
<1>4. CASE PostComment(p)
    BY <1>0, <1>1, <1>4, NoteStill DEF PostComment, InRepo
<1>5. CASE StartRun(p) \/ FindRepos(p) \/ NextRepo(p) \/ FinishRun(p) \/ FailRun(p)
    BY <1>1, <1>5 DEF StartRun, FindRepos, NextRepo, FinishRun, FailRun, forges
<1>6. CASE ListPage(p) \/ ListChanged(p) \/ ListEvents(p) \/ Fetch(p)
    BY <1>1, <1>6 DEF ListPage, ListChanged, ListEvents, Fetch, forges
<1>7. CASE EnsureRepo(p) \/ ReadOrigins(p) \/ EnsureLabels(p) \/ SourceComments(p) \/ TargetComments(p)
    BY <1>1, <1>7 DEF EnsureRepo, ReadOrigins, EnsureLabels, SourceComments, TargetComments, forges
<1>8. CASE FinishRepo(p) \/ FailRepo(p) \/ Crash(p)
    BY <1>1, <1>8 DEF FinishRepo, FailRepo, Crash, forges
<1> QED BY <1>2, <1>3, <1>4, <1>5, <1>6, <1>7, <1>8 DEF Step, Fault

-----------------------------------------------------------------------------
(* The two writes of an item. *)

(* Item c of target r shows revision v of the item it is a copy of. *)
Showed(r, c, v) == \A q \in Repos :
    /\ DOMAIN tgt'[q] = DOMAIN tgt[q]
    /\ \A d \in DOMAIN tgt[q] : /\ tgt'[q][d].mark = tgt[q][d].mark
                              /\ tgt'[q][d].rev = IF q = r /\ d = c THEN v ELSE tgt[q][d].rev

(* The target r has a new item c, a copy of item n at revision v. *)
Copied(r, c, n, v) == \A q \in Repos :
    /\ DOMAIN tgt[q] \subseteq DOMAIN tgt'[q]
    /\ \A d \in DOMAIN tgt[q] : tgt'[q][d] = tgt[q][d]
    /\ \A d \in DOMAIN tgt'[q] \ DOMAIN tgt[q] :
           q = r /\ d = c /\ tgt'[q][d].mark = n /\ tgt'[q][d].rev = v

LEMMA Writes ==
    ASSUME EchoInv, NEW p \in Jobs, NEW r, r = Here(p), Create(p) \/ Update(p)
    PROVE  \E b \in work[p].batch :
              /\ pc[p] = "issue" /\ IsFirst(b, work[p].batch)
              /\ work'[p].batch = work[p].batch \ {b} /\ work'[p].repo = r
              /\ (\E c \in Copies(r, b.n) : Showed(r, c, b.rev)) \/ (\E c : Copied(r, c, b.n, b.rev))
<1>0. TypeInv /\ TypeOK /\ tgt \in [Repos -> Seq(TargetItem)]
    BY DEF EchoInv, TypeInv, TypeOK
<1>1. CASE Create(p)
    <2>1. PICK b \in work[p].batch :
              /\ pc[p] = "issue" /\ IsFirst(b, work[p].batch)
              /\ tgt' = [tgt EXCEPT ![r] =
                    Append(@, [mark |-> b.n, rev |-> b.rev, state |-> "open", notes |-> <<>>])]
              /\ \E l : Begin(p, b, Len(tgt[r]) + 1, l)
        BY <1>1 DEF Create
    <2>2. PICK i : i = [mark |-> b.n, rev |-> b.rev, state |-> "open", notes |-> <<>>]
        OBVIOUS
    <2>3. tgt' = [tgt EXCEPT ![r] = Append(tgt[r], i)] /\ i.mark = b.n /\ i.rev = b.rev
        BY <2>1, <2>2
    <2>4. r \in Repos /\ r = work[p].repo
        BY <2>1, HandEcho
    <2>5. /\ \A q \in Repos \ {r} : tgt'[q] = tgt[q]
          /\ DOMAIN tgt[r] \subseteq DOMAIN tgt'[r]
          /\ \A c \in DOMAIN tgt'[r] :
                 /\ c \in DOMAIN tgt[r] => tgt'[r][c] = tgt[r][c]
                 /\ c \notin DOMAIN tgt[r] => c = Len(tgt[r]) + 1 /\ tgt'[r][c] = i
        <3>1. TypeOK /\ r \in Repos /\ tgt' = [tgt EXCEPT ![r] = Append(tgt[r], i)]
            BY <1>0, <2>3, <2>4
        <3> QED BY <3>1, Appended
    <2>6. Copied(r, Len(tgt[r]) + 1, b.n, b.rev)
        BY <2>3, <2>5 DEF Copied
    <2>7. work'[p].batch = work[p].batch \ {b} /\ work'[p].repo = r
        BY <1>0, <2>1, <2>4, BeginShrinks
    <2> QED BY <2>1, <2>6, <2>7
<1>2. CASE Update(p)
    <2>1. PICK b \in work[p].batch :
              /\ pc[p] = "issue" /\ IsFirst(b, work[p].batch) /\ work[p].origins[b.n] # 0
              /\ tgt' = [tgt EXCEPT ![r][work[p].origins[b.n]] = [@ EXCEPT !.rev = b.rev, !.state = b.state]]
              /\ Begin(p, b, work[p].origins[b.n], "comments")
        BY <1>2 DEF Update
    <2>2. PICK c : c = work[p].origins[b.n]
        OBVIOUS
    <2>3. PICK i : i = [tgt[r][c] EXCEPT !.rev = b.rev, !.state = b.state]
        OBVIOUS
    <2>4. tgt' = [tgt EXCEPT ![r] = [tgt[r] EXCEPT ![c] = i]]
        BY <2>1, <2>2, <2>3
    <2>5. r \in Repos /\ r = work[p].repo /\ c \in Copies(r, b.n)
        BY <2>1, <2>2, HandEcho
    <2>6. c \in DOMAIN tgt[r]
        BY <2>5 DEF Copies
    <2>7. i.mark = tgt[r][c].mark /\ i.rev = b.rev
        BY <1>0, <2>3, <2>5, <2>6, TargetTyped DEF TargetItem
    <2>8. Wrote(r, c, i)
        BY <1>0, <2>4, <2>5, <2>7, TargetWritten
    <2>9. Showed(r, c, b.rev)
        BY <2>7, <2>8 DEF Wrote, Showed
    <2>10. work'[p].batch = work[p].batch \ {b} /\ work'[p].repo = r
        BY <1>0, <2>1, <2>5, BeginShrinks
    <2> QED BY <2>1, <2>5, <2>9, <2>10
<1> QED BY <1>1, <1>2

(* Of two snapshots of an item the older one is taken first. *)
LEMMA LaterOnes ==
    ASSUME TypeOK, NEW p \in Jobs, NEW b \in work[p].batch, NEW d \in work[p].batch, d # b, d.n = b.n,
           IsFirst(b, work[p].batch), OncePerItem(work[p].batch)
    PROVE  b.rev <= d.rev
BY DEF IsFirst, OncePerItem

LEMMA WritesRevs ==
    ASSUME EchoInv, TypeOK', UNCHANGED <<rev, src>>, CopiesBehind, NEW p \in Jobs, Create(p) \/ Update(p),
           Between(work[p].repo, work[p].batch), OncePerItem(work[p].batch)
    PROVE  CopiesBehind' /\ TargetForward /\ Between(work[p].repo, work[p].batch)'
<1>1. PICK r, B : r = Here(p) /\ B = work[p].batch
    OBVIOUS
<1>2. PICK b \in B :
          /\ pc[p] = "issue" /\ IsFirst(b, B)
          /\ work'[p].batch = B \ {b} /\ work'[p].repo = r
          /\ (\E c \in Copies(r, b.n) : Showed(r, c, b.rev)) \/ (\E c : Copied(r, c, b.n, b.rev))
    BY <1>1, Writes
<1>3. /\ r \in Repos /\ r = work[p].repo /\ b.n \in DOMAIN src[r] /\ B \subseteq Snapshot
      /\ \A d \in B : d.n \in DOMAIN src[r] /\ d.rev \in Nat
      /\ b.rev <= src[r][b.n].rev
    <2>1. B \subseteq Snapshot /\ r \in Repos /\ r = work[p].repo /\ \A d \in B : d.n \in DOMAIN src[r]
        BY <1>1, <1>2, HandEcho, JobTyped DEF EchoInv, TypeInv, Work
    <2> QED BY <1>1, <1>2, <2>1 DEF Snapshot, Between
<1>4. \A q \in Repos : \A d \in DOMAIN tgt[q] : tgt[q][d].rev \in Nat
    BY TargetTyped DEF EchoInv, TypeInv, TargetItem
<1>5. \A d \in B : d # b /\ d.n = b.n => b.rev <= d.rev
    BY <1>1, <1>2, LaterOnes DEF EchoInv, TypeInv
<1>6. \A d \in B : \A c \in Copies(r, d.n) : tgt[r][c].rev <= d.rev
    BY <1>1, <1>3 DEF Between
<1>7. \A d \in B : d.rev <= src'[r][d.n].rev
    BY <1>1, <1>3 DEF Between
<1>8. ASSUME NEW c \in Copies(r, b.n), Showed(r, c, b.rev)
      PROVE  CopiesBehind' /\ TargetForward /\ Between(r, B \ {b})'
    <2>1. c \in DOMAIN tgt[r] /\ tgt[r][c].mark = b.n /\ tgt[r][c].rev <= b.rev
        BY <1>6, <1>8 DEF Copies
    <2>2. CopiesBehind'
        <3>1. ASSUME NEW q \in Repos, NEW d \in DOMAIN tgt'[q], tgt'[q][d].mark # 0
              PROVE  tgt'[q][d].rev <= src[q][tgt'[q][d].mark].rev
            <4>1. d \in DOMAIN tgt[q] /\ tgt'[q][d].mark = tgt[q][d].mark
                BY <1>8, <3>1 DEF Showed
            <4>2. CASE q = r /\ d = c
                BY <1>3, <1>8, <2>1, <4>1, <4>2 DEF Showed
            <4>3. CASE ~(q = r /\ d = c)
                BY <1>8, <3>1, <4>1, <4>3 DEF CopiesBehind, Showed
            <4> QED BY <4>2, <4>3
        <3> QED BY <3>1 DEF CopiesBehind
    <2>3. TargetForward
        BY <1>4, <1>8, <2>1 DEF TargetForward, Showed
    <2>4. ASSUME NEW d \in B \ {b}, NEW e \in Copies(r, d.n)' PROVE tgt'[r][e].rev <= d.rev
        <3>1. e \in Copies(r, d.n) /\ tgt'[r][e].rev = IF e = c THEN b.rev ELSE tgt[r][e].rev
            BY <1>3, <1>8 DEF Showed, Copies
        <3>2. CASE e = c
            BY <1>5, <2>1, <3>1, <3>2 DEF Copies
        <3> QED BY <1>6, <3>1, <3>2
    <2> QED BY <1>7, <2>2, <2>3, <2>4 DEF Between, Copies
<1>9. ASSUME NEW c, Copied(r, c, b.n, b.rev)
      PROVE  CopiesBehind' /\ TargetForward /\ Between(r, B \ {b})'
    <2>1. TargetForward
        BY <1>4, <1>9 DEF TargetForward, Copied
    <2>2. ASSUME NEW q \in Repos, NEW d \in DOMAIN tgt'[q], tgt'[q][d].mark # 0
          PROVE  tgt'[q][d].rev <= src[q][tgt'[q][d].mark].rev
        <3>1. CASE d \in DOMAIN tgt[q]
            BY <1>9, <2>2, <3>1 DEF CopiesBehind, Copied
        <3>2. CASE d \notin DOMAIN tgt[q]
            BY <1>3, <1>9, <3>2 DEF Copied
        <3> QED BY <3>1, <3>2
    <2>3. ASSUME NEW d \in B \ {b}, NEW e \in Copies(r, d.n)' PROVE tgt'[r][e].rev <= d.rev
        <3>1. CASE e \in DOMAIN tgt[r]
            <4>1. e \in Copies(r, d.n) /\ tgt'[r][e].rev = tgt[r][e].rev
                BY <1>3, <1>9, <2>3, <3>1 DEF Copied, Copies
            <4> QED BY <1>6, <4>1
        <3>2. CASE e \notin DOMAIN tgt[r]
            <4>1. b.n = d.n /\ tgt'[r][e].rev = b.rev
                BY <1>3, <1>9, <2>3, <3>2 DEF Copied, Copies
            <4> QED BY <1>5, <2>3, <4>1
        <3> QED BY <3>1, <3>2
    <2> QED BY <1>7, <2>1, <2>2, <2>3 DEF Between, Copies, CopiesBehind
<1> QED BY <1>2, <1>8, <1>9 DEF Between, Copies

-----------------------------------------------------------------------------
(* The theorem. *)

LEMMA SubsetsKept ==
    ASSUME NEW r, NEW S, NEW T \in SUBSET S
    PROVE  (Between(r, S) => Between(r, T)) /\ (OncePerItem(S) => OncePerItem(T))
BY DEF Between, OncePerItem

LEMMA EmptyBatch == \A r : Between(r, {}) /\ OncePerItem({})
BY DEF Between, OncePerItem

(* A step of run p that is no write of an item. *)
LEMMA QuietRevs ==
    ASSUME RevInv, EchoNext, NEW p \in Jobs, StartRun(p) \/ Step(p) \/ Fault(p), ~Create(p), ~Update(p),
           UNCHANGED <<rev, src>>
    PROVE  CopiesBehind' /\ TargetForward /\ Between(work[p].repo, work[p].batch)'
<1>1. /\ EchoInv /\ TypeInv /\ TypeOK /\ TypeOK' /\ SourceGrows /\ CopiesBehind
      /\ Between(work[p].repo, work[p].batch)
    BY DEF RevInv, EchoInv, EchoNext, TypeInv, Adds
<1>2. TargetStill /\ SourceForward
    BY <1>1, StillSteps, Unmoved
<1>3. CopiesBehind' /\ TargetForward
    BY <1>1, <1>2, BehindKept, StillForward
<1>4. PICK r, S : r = work'[p].repo /\ S = work'[p].batch
    OBVIOUS
<1>5. Between(r, S)'
    <2>1. CASE S = {}
        BY <2>1 DEF Between
    <2>2. CASE S # {}
        <3>1. /\ r \in Repos /\ S \subseteq Snapshot /\ \A b \in S : b.n \in DOMAIN src[r]
            <4>1. TypeInv'
                BY DEF EchoNext, EchoInv
            <4>2. work'[p] \in Work
                BY <4>1 DEF TypeInv, TypeOK
            <4> QED BY <1>4, <2>2, <4>1, <4>2 DEF TypeInv, Placed, Work
        <3>2. Between(r, S)
            <4>1. CASE Shrinks(p)
                BY <1>1, <1>4, <2>2, <4>1, SubsetsKept DEF Shrinks
            <4>2. CASE Lists(p)
                <5>1. r = work[p].repo /\ r = Here(p)
                    BY <1>4, <4>2 DEF Lists, Here
                <5>2. ASSUME NEW b \in S
                      PROVE  b.rev <= src[r][b.n].rev /\ \A c \in Copies(r, b.n) : tgt[r][c].rev <= b.rev
                    <6>1. CASE b \in work[p].batch
                        BY <1>1, <5>1, <6>1 DEF Between
                    <6>2. CASE b = Snap(r, b.n)
                        <7>1. b.rev = src[r][b.n].rev /\ b.n \in DOMAIN src[r] /\ b.rev \in Nat /\ b.n # 0
                            BY <1>1, <3>1, <5>2, <6>2, SnapFields, SourceTyped DEF Snapshot
                        <7>2. \A c \in Copies(r, b.n) : tgt[r][c].rev <= b.rev
                            BY <1>1, <3>1, <7>1 DEF CopiesBehind, Copies
                        <7> QED BY <7>1, <7>2
                    <6> QED BY <1>4, <4>2, <5>1, <6>1, <6>2 DEF Lists
                <5> QED BY <5>2 DEF Between
            <4> QED BY <1>1, <4>1, <4>2, BatchSteps
        <3> QED BY <1>1, <1>2, <3>1, <3>2, BetweenKept
    <2> QED BY <2>1, <2>2
<1> QED BY <1>3, <1>4, <1>5 DEF Between, Copies

LEMMA NextRevs ==
    ASSUME RevInv, ~Overlap, [Next]_vars
    PROVE  RevInv' /\ TargetForward
<1>1. /\ EchoInv /\ TypeInv /\ TypeOK /\ Solo /\ RevsBounded /\ CopiesBehind
      /\ EchoNext /\ EchoInv' /\ TypeInv' /\ TypeOK' /\ SourceGrows
    BY NextEcho DEF RevInv, EchoInv, EchoNext, TypeInv, Adds
<1>2. Solo'
    BY <1>1, NextSolo
<1>3. CASE UNCHANGED vars \/ Forges
    <2>1. SourceForward /\ RevsBounded' /\ TargetStill
        <3>1. CASE UNCHANGED vars
            BY <1>1, <3>1, Unmoved DEF vars, RevsBounded, TargetStill
        <3> QED BY <1>1, <1>3, <3>1, ForgesForward
    <2>2. CopiesBehind' /\ TargetForward
        BY <1>1, <2>1, BehindKept, StillForward
    <2>3. UNCHANGED work
        BY <1>1, <1>3, ForgesKinds DEF vars
    <2>4. ASSUME NEW q \in Jobs PROVE Between(work[q].repo, work[q].batch)' /\ OncePerItem(work[q].batch)'
        <3>1. PICK r, S : r = work[q].repo /\ S = work[q].batch
            OBVIOUS
        <3>2. Between(r, S) /\ OncePerItem(S) /\ S \subseteq Snapshot
              /\ \A b \in S : r \in Repos /\ b.n \in DOMAIN src[r]
            BY <1>1, <3>1, JobTyped DEF RevInv, TypeInv, Placed, Work
        <3>3. Between(r, S)'
            BY <1>1, <2>1, <3>2, BetweenKept DEF Between
        <3> QED BY <2>3, <3>1, <3>2, <3>3 DEF Between, Copies, OncePerItem
    <2> QED BY <1>1, <1>2, <2>1, <2>2, <2>4 DEF RevInv
<1>4. ASSUME NEW p \in Jobs, StartRun(p) \/ Step(p) \/ Fault(p)
      PROVE  RevInv' /\ TargetForward
    <2>1. UNCHANGED <<rev, src>>
        <3>1. CASE StartRun(p)
            BY <3>1 DEF StartRun, forges
        <3> QED BY <1>1, <1>4, <3>1, StepAlone DEF MovesAlone
    <2>2. CopiesBehind' /\ TargetForward /\ Between(work[p].repo, work[p].batch)'
        <3>1. CASE Create(p) \/ Update(p)
            BY <1>1, <2>1, <3>1, WritesRevs DEF RevInv
        <3> QED BY <1>1, <1>4, <2>1, <3>1, QuietRevs
    <2>3. OncePerItem(work[p].batch)'
        <3>1. OncePerItem(work[p].batch)
            BY DEF RevInv
        <3>2. OncePerItem(work'[p].batch)
            BY <1>1, <1>4, <3>1, BatchSteps, SubsetsKept DEF Shrinks, Lists
        <3> QED BY <3>2 DEF OncePerItem
    <2>4. ASSUME NEW q \in Jobs, q # p
          PROVE  Between(work[q].repo, work[q].batch)' /\ OncePerItem(work[q].batch)'
        <3>1. pc'[q] = "idle"
            <4>1. CASE StartRun(p)
                BY <1>1, <2>4, <4>1 DEF StartRun, TypeOK
            <4> QED BY <1>1, <1>4, <2>4, <4>1, StepAlone, AloneOthers
        <3>2. work'[q].batch = {}
            BY <1>1, <3>1 DEF TypeInv, Placed, InRepo
        <3> QED BY <3>2 DEF Between, OncePerItem
    <2>5. RevsBounded'
        BY <1>1, <2>1 DEF RevsBounded
    <2> QED BY <1>1, <1>2, <2>2, <2>3, <2>4, <2>5 DEF RevInv
<1> QED BY <1>3, <1>4 DEF Next

(* A copy never goes back to an older revision than it already showed, while one run
   at a time is at work: a run writes what it listed (mirror.go:100-131) and takes
   GitHub's pages in the order of the changes (github.go:127-135), GitLab's listings
   hold an item once (gitlab/source.go:62-104). *)
THEOREM NeverRegresses ==
    ASSUME ~Overlap
    PROVE  Spec => CopyNeverRegresses
<1>1. Init => RevInv
    BY InitRevs
<1>2. RevInv /\ [Next]_vars => RevInv'
    BY NextRevs
<1>3. RevInv /\ [Next]_vars => [TargetForward]_vars
    BY NextRevs
<1> QED BY <1>1, <1>2, <1>3, PTL DEF Spec, CopyNeverRegresses, TargetForward

-----------------------------------------------------------------------------
(* The cursor's promise. *)

(* Whatever changed up to t is in the target. *)
Caught(r, t) == \A n \in DOMAIN src[r] : LastChange(r, n) <= t => Mirrored(r, n)

(* Nothing is from the future, and on GitHub a comment is a change. *)
SourceTimes == \A r \in Repos : \A n \in DOMAIN src[r] :
    /\ Start <= src[r][n].at /\ src[r][n].at <= clock /\ src[r][n].noted <= clock
    /\ From = "github" => src[r][n].noted = 0

(* A cursor, and what a run was told to start from, is before the run. *)
RunTimes ==
    /\ \A f \in Paths : cursor[f] < clock
    /\ \A p \in Jobs : pc[p] # "idle" =>
           /\ pass[p].since < pass[p].started /\ pass[p].started <= clock
           /\ \A f \in Paths : cursor[f] < pass[p].started

(* Snapshot x is what its item still is, unless that was changed at t or later. *)
Current(r, x, t) ==
    \/ x.rev = src[r][x.n].rev /\ x.state = src[r][x.n].state
    \/ t <= src[r][x.n].at

(* What a run at l, started at t, has in hand, w. *)
Seen(l, w, t) ==
    /\ \A x \in w.batch : Current(w.repo, x, t)
    /\ l \in OnItem => Current(w.repo, w.item, t)
    /\ l = "close" => w.item.state = "closed"

(* The runs whose file makes a promise. *)
Serious(p) == PathOf[p] \in Unlimited /\ p \notin DryJobs

(* What changed up to a margin before the run, s, is in the target, or will be: its
   repository is to come, its item is listed, or in hand. *)
KeepsRepos(l, w, s) == l \notin {"idle", "repos"} => \A r \in Repos :
    r \in s.todo \/ r \in s.failed \/ r = w.repo \/ Caught(r, CursorAfter(s.started))

Covers(l, w, s, n) ==
    \/ Mirrored(w.repo, n)
    \/ \E x \in w.batch : x.n = n
    \/ l = "events" /\ s.since < src[w.repo][n].noted
    \/ l = "fetch" /\ n \in w.commented
    \/ l \in OnItem /\ n = w.item.n

KeepsItems(l, w, s) == l \in InRepo \ {"list"} => \A n \in DOMAIN src[w.repo] :
    LastChange(w.repo, n) <= CursorAfter(s.started) => Covers(l, w, s, n)

(* The copy c of item n is up to date, but for notes N and a call to close it. *)
Nearly(l, r, n, c, N) ==
    /\ IF l = "close" THEN src[r][n].state = "closed" ELSE tgt[r][c].state = src[r][n].state
    /\ src[r][n].mark = 0 => tgt[r][c].rev = src[r][n].rev
    /\ l \in {"have", "post"} => \A k : Original(r, n, k) => k \in N \/ Holds(r, c, k)

KeepsHand(l, w, s) == l \in OnItem /\ LastChange(w.repo, w.item.n) <= CursorAfter(s.started) =>
    Nearly(l, w.repo, w.item.n, w.ref, w.notes)

Keeps(l, w, s) ==
    /\ l # "idle" => \A r \in Repos : Caught(r, s.since)
    /\ KeepsRepos(l, w, s) /\ KeepsItems(l, w, s) /\ KeepsHand(l, w, s)

OnTheWay(p) == /\ Seen(pc[p], work[p], pass[p].started)
               /\ Serious(p) => Keeps(pc[p], work[p], pass[p])

ProgressInv ==
    /\ EchoInv /\ OneCopyInv /\ NothingSkipped /\ SourceTimes /\ RunTimes
    /\ \A p \in Jobs : OnTheWay(p)

LEMMA InitProgress == 0 < Margin /\ Init => ProgressInv
<1> SUFFICES ASSUME 0 < Margin, Init PROVE ProgressInv
    OBVIOUS
<1>1. EchoInv /\ OneCopyInv
    BY InitEcho, InitOneCopy
<1>2. NothingSkipped
    BY DEF Init, NothingSkipped
<1>3. SourceTimes /\ RunTimes
    BY DEF Init, SourceTimes, RunTimes
<1>4. ASSUME NEW p \in Jobs
      PROVE  Seen(pc[p], work[p], pass[p].started) /\ Keeps(pc[p], work[p], pass[p])
    <2>1. pc[p] = "idle" /\ work[p].batch = {}
        BY DEF Init, NoWork
    <2> QED BY <2>1 DEF Seen, Keeps, KeepsRepos, KeepsItems, KeepsHand, InRepo, OnItem
<1> QED BY <1>1, <1>2, <1>3, <1>4 DEF ProgressInv, OnTheWay

LEMMA TimesTyped ==
    ASSUME TypeOK, NEW r \in Repos, NEW n \in DOMAIN src[r]
    PROVE  /\ src[r][n].at \in Nat /\ src[r][n].noted \in Nat /\ LastChange(r, n) \in Nat
           /\ src[r][n].at <= LastChange(r, n) /\ src[r][n].noted <= LastChange(r, n)
           /\ LastChange(r, n) \in {src[r][n].at, src[r][n].noted}
<1>1. src[r][n].at \in Nat /\ src[r][n].noted \in Nat
    BY SourceTyped DEF SourceItem
<1> QED BY <1>1 DEF LastChange

-----------------------------------------------------------------------------
(* What is in the target stays in it until its item changes. *)

(* Item n of source r stays, and what is about it keeps its state and revision, or
   gets the item's. *)
Undisturbed(r, n) ==
    /\ n \in DOMAIN src[r] /\ src'[r][n] = src[r][n]
    /\ \A c \in Counterparts(r, n) :
           /\ tgt'[r][c].state \in {tgt[r][c].state, src[r][n].state}
           /\ tgt'[r][c].rev \in {tgt[r][c].rev, src[r][n].rev}

(* No item that was last changed before T is disturbed. *)
Calm(T) == \A r \in Repos : \A n \in DOMAIN src'[r] : LastChange(r, n)' < T => Undisturbed(r, n)

LEMMA CarriesKept ==
    ASSUME TargetGrows, NEW r \in Repos, NEW c \in DOMAIN tgt[r], NEW item, Carries(tgt[r][c], item)
    PROVE  Carries(tgt'[r][c], item)
BY DEF TargetGrows, Extends, Carries

LEMMA MirroredKept ==
    ASSUME SourceGrows, TargetGrows, NEW r \in Repos, NEW n, Undisturbed(r, n), Mirrored(r, n)
    PROVE  Mirrored(r, n)'
<1>1. PICK c \in Counterparts(r, n) :
          /\ tgt[r][c].state = src[r][n].state
          /\ src[r][n].mark = 0 => tgt[r][c].rev = src[r][n].rev
          /\ Carries(tgt[r][c], src[r][n])
    BY DEF Mirrored
<1>2. n \in DOMAIN src[r] /\ src'[r][n] = src[r][n] /\ c \in DOMAIN tgt[r]
    BY DEF Undisturbed, Counterparts
<1>3. c \in Counterparts(r, n)'
    BY <1>2, CounterpartsGrow
<1>4. /\ tgt'[r][c].state = src'[r][n].state
      /\ src'[r][n].mark = 0 => tgt'[r][c].rev = src'[r][n].rev
    BY <1>1, <1>2 DEF Undisturbed
<1>5. Carries(tgt'[r][c], src'[r][n])
    BY <1>1, <1>2, CarriesKept
<1> QED BY <1>3, <1>4, <1>5 DEF Mirrored

LEMMA LastChangeNext ==
    ASSUME TypeOK', NEW r \in Repos, NEW n \in DOMAIN src'[r]
    PROVE  LastChange(r, n)' \in Nat
<1>1. src'[r] \in Seq(SourceItem)
    BY DEF TypeOK
<1>2. src'[r][n] \in SourceItem
    BY <1>1, ElementOfSeq, LenProperties
<1> QED BY <1>2 DEF SourceItem, LastChange

(* An item that was last changed before T is what it was. *)
LEMMA CalmItem ==
    ASSUME TypeOK', NEW T \in Int, Calm(T), NEW t \in Int, t < T,
           NEW r \in Repos, NEW n \in DOMAIN src'[r], LastChange(r, n)' <= t
    PROVE  Undisturbed(r, n) /\ LastChange(r, n)' = LastChange(r, n)
<1>1. LastChange(r, n)' \in Nat
    BY LastChangeNext
<1>2. Undisturbed(r, n)
    BY <1>1 DEF Calm
<1> QED BY <1>2 DEF Undisturbed, LastChange

LEMMA CaughtKept ==
    ASSUME TypeOK', SourceGrows, TargetGrows, NEW T \in Int, Calm(T), NEW t \in Int, t < T,
           NEW r \in Repos, Caught(r, t)
    PROVE  Caught(r, t)'
<1> SUFFICES ASSUME NEW n \in DOMAIN src'[r], LastChange(r, n)' <= t
             PROVE  Mirrored(r, n)'
    BY DEF Caught, LastChange, Mirrored, Counterparts, Carries
<1>1. Undisturbed(r, n) /\ LastChange(r, n)' = LastChange(r, n)
    BY CalmItem
<1>2. Mirrored(r, n)
    BY <1>1 DEF Caught, Undisturbed
<1> QED BY <1>1, <1>2, MirroredKept

(* Step by step: what is caught up with, and what is to come, stays. *)
LEMMA ReposKept ==
    ASSUME TypeOK', SourceGrows, TargetGrows, NEW T \in Int, Calm(T), NEW l, NEW w, NEW s,
           CursorAfter(s.started) \in Int, CursorAfter(s.started) < T, KeepsRepos(l, w, s)
    PROVE  KeepsRepos(l, w, s)'
<1>1. ASSUME l \notin {"idle", "repos"}, NEW r \in Repos, r \notin s.todo, r \notin s.failed, r # w.repo
      PROVE  Caught(r, CursorAfter(s.started))'
    <2>1. Caught(r, CursorAfter(s.started))
        BY <1>1 DEF KeepsRepos
    <2>2. PICK t \in Int : t = CursorAfter(s.started)
        OBVIOUS
    <2>3. Caught(r, t)'
        BY <2>1, <2>2, CaughtKept
    <2> QED BY <2>2, <2>3 DEF Caught, LastChange, Mirrored, Counterparts, Carries, CursorAfter
<1> QED BY <1>1 DEF KeepsRepos

LEMMA ItemsKept ==
    ASSUME TypeOK', SourceGrows, TargetGrows, NEW T \in Int, Calm(T), NEW l, NEW w, NEW s,
           l \in InRepo => w.repo \in Repos,
           CursorAfter(s.started) \in Int, CursorAfter(s.started) < T, KeepsItems(l, w, s)
    PROVE  KeepsItems(l, w, s)'
<1>1. ASSUME l \in InRepo \ {"list"}, NEW n \in DOMAIN src'[w.repo],
             LastChange(w.repo, n)' <= CursorAfter(s.started)
      PROVE  Covers(l, w, s, n)'
    <2>1. PICK t \in Int, r \in Repos : t = CursorAfter(s.started) /\ r = w.repo
        BY <1>1
    <2>2. Undisturbed(r, n) /\ LastChange(r, n)' = LastChange(r, n)
        BY <1>1, <2>1, CalmItem
    <2>3. n \in DOMAIN src[r] /\ src'[r][n] = src[r][n]
        BY <2>2 DEF Undisturbed
    <2>4. Covers(l, w, s, n)
        BY <1>1, <2>1, <2>2, <2>3 DEF KeepsItems
    <2>5. Mirrored(r, n) => Mirrored(r, n)'
        BY <2>2, MirroredKept
    <2>6. Mirrored(w.repo, n) => Mirrored(w.repo, n)'
        BY <2>1, <2>5 DEF Mirrored, Counterparts, Carries
    <2>7. src'[w.repo][n].noted = src[w.repo][n].noted
        BY <2>1, <2>3
    <2> QED BY <2>4, <2>6, <2>7 DEF Covers
<1> QED BY <1>1 DEF KeepsItems, Covers, LastChange, CursorAfter

LEMMA HandKept ==
    ASSUME TypeOK', SourceGrows, TargetGrows, NEW T \in Int, Calm(T), NEW l, NEW w, NEW s,
           l \in OnItem => w.repo \in Repos /\ w.item.n \in DOMAIN src[w.repo]
                           /\ w.ref \in Counterparts(w.repo, w.item.n),
           CursorAfter(s.started) \in Int, CursorAfter(s.started) < T, KeepsHand(l, w, s)
    PROVE  KeepsHand(l, w, s)'
<1>1. ASSUME l \in OnItem, LastChange(w.repo, w.item.n)' <= CursorAfter(s.started)
      PROVE  Nearly(l, w.repo, w.item.n, w.ref, w.notes)'
    <2>1. PICK t, r, n, c : /\ t = CursorAfter(s.started) /\ t \in Int /\ r = w.repo /\ r \in Repos
                            /\ n = w.item.n /\ c = w.ref
        BY <1>1
    <2>2. n \in DOMAIN src[r] /\ n \in DOMAIN src'[r] /\ c \in Counterparts(r, n) /\ c \in DOMAIN tgt[r]
        BY <1>1, <2>1 DEF SourceGrows, Counterparts
    <2>3. Undisturbed(r, n) /\ LastChange(r, n)' = LastChange(r, n)
        BY <1>1, <2>1, <2>2, CalmItem
    <2>4. Nearly(l, r, n, c, w.notes)
        BY <1>1, <2>1, <2>3 DEF KeepsHand
    <2>5. /\ src'[r][n] = src[r][n]
          /\ tgt'[r][c].state \in {tgt[r][c].state, src[r][n].state}
          /\ tgt'[r][c].rev \in {tgt[r][c].rev, src[r][n].rev}
        BY <2>2, <2>3 DEF Undisturbed
    <2>6. \A k : Holds(r, c, k) => Holds(r, c, k)'
        BY <2>1, <2>2 DEF TargetGrows, Extends, Holds
    <2>7. Nearly(l, r, n, c, w.notes)'
        BY <2>4, <2>5, <2>6 DEF Nearly, Original
    <2> QED BY <2>1, <2>7 DEF Nearly, Original, Holds
<1> QED BY <1>1 DEF KeepsHand, LastChange, Nearly, Original, Holds, CursorAfter

-----------------------------------------------------------------------------
(* Whom a step disturbs. *)

LEMMA StillCalm == ASSUME UNCHANGED <<src, tgt>>, NEW T PROVE Calm(T)
BY DEF Calm, Undisturbed

(* Item c of target r becomes i, which shows what the item it is about is, or was
   shown before, unless that was changed at T or later. *)
LEMMA WroteCalm ==
    ASSUME UNCHANGED src, NEW r \in Repos, NEW c \in DOMAIN tgt[r], NEW i, Wrote(r, c, i), NEW T,
           \A n \in DOMAIN src[r] : c \in Counterparts(r, n) /\ LastChange(r, n) < T =>
               /\ i.state \in {tgt[r][c].state, src[r][n].state}
               /\ i.rev \in {tgt[r][c].rev, src[r][n].rev}
    PROVE  Calm(T)
<1> SUFFICES ASSUME NEW q \in Repos, NEW n \in DOMAIN src'[q], LastChange(q, n)' < T
             PROVE  Undisturbed(q, n)
    BY DEF Calm
<1>1. n \in DOMAIN src[q] /\ src'[q][n] = src[q][n] /\ LastChange(q, n) < T
    BY DEF LastChange
<1>2. ASSUME NEW d \in Counterparts(q, n)
      PROVE  /\ tgt'[q][d].state \in {tgt[q][d].state, src[q][n].state}
             /\ tgt'[q][d].rev \in {tgt[q][d].rev, src[q][n].rev}
    <2>1. d \in DOMAIN tgt[q]
        BY DEF Counterparts
    <2>2. CASE q = r /\ d = c
        BY <1>1, <2>1, <2>2 DEF Wrote
    <2>3. CASE ~(q = r /\ d = c)
        BY <2>1, <2>3 DEF Wrote
    <2> QED BY <2>2, <2>3
<1> QED BY <1>1, <1>2 DEF Undisturbed

(* The same of an item added to target r. *)
LEMMA AppendedCalm ==
    ASSUME TypeOK, UNCHANGED src, NEW r \in Repos, NEW i, tgt' = [tgt EXCEPT ![r] = Append(tgt[r], i)], NEW T
    PROVE  Calm(T)
<1>1. \A q \in Repos : \A d \in DOMAIN tgt[q] : tgt'[q][d] = tgt[q][d]
    BY Appended
<1> QED BY <1>1 DEF Calm, Undisturbed, Counterparts, LastChange

LEMMA OwnItemCalm ==
    ASSUME TypeOK, UNCHANGED src, NEW r \in Repos, NEW c \in DOMAIN tgt[r], NEW k, NEW T,
           tgt' = [tgt EXCEPT ![r][c].notes = Append(@, k)]
    PROVE  Calm(T)
<1>1. PICK i : i = [tgt[r][c] EXCEPT !.notes = Append(@, k)]
    OBVIOUS
<1>2. tgt' = [tgt EXCEPT ![r] = [tgt[r] EXCEPT ![c] = i]]
    BY <1>1
<1>3. i.mark = tgt[r][c].mark /\ i.state = tgt[r][c].state /\ i.rev = tgt[r][c].rev
    BY <1>1, TargetTyped DEF TargetItem
<1>4. Wrote(r, c, i)
    BY <1>2, <1>3, TargetWritten
<1> QED BY <1>3, <1>4, WroteCalm

(* A changed item carries the time of its change. *)
SourceStamped == \A r \in Repos : \A n \in DOMAIN src[r] :
    \/ /\ src'[r][n].rev = src[r][n].rev /\ src'[r][n].state = src[r][n].state
       /\ src'[r][n].at = src[r][n].at
    \/ src'[r][n].at = clock

LEMMA TouchedCalm ==
    ASSUME TypeInv, SourceTimes, NEW r \in Repos, NEW n \in DOMAIN src[r], NEW i \in SourceItem, ItemTouched(r, n, i)
    PROVE  Calm(clock) /\ SourceStamped /\ SourceTimes'
<1>1. src \in [Repos -> Seq(SourceItem)] /\ clock \in Nat /\ Start <= clock
    BY DEF TypeInv, TypeOK, Placed
<1>2. src' = [src EXCEPT ![r] = [src[r] EXCEPT ![n] = i]] /\ UNCHANGED <<clock, tgt>>
    BY DEF ItemTouched
<1>3. /\ \A q \in Repos : DOMAIN src'[q] = DOMAIN src[q]
      /\ \A q \in Repos : \A m \in DOMAIN src[q] : src'[q][m] = IF q = r /\ m = n THEN i ELSE src[q][m]
    BY <1>1, <1>2
<1>4. \/ i.at = clock /\ i.noted = src[r][n].noted
      \/ From = "gitlab" /\ i.rev = src[r][n].rev /\ i.at = src[r][n].at /\ i.noted = clock /\ i.state = src[r][n].state
    BY DEF ItemTouched
<1>5. /\ Start <= i.at /\ i.at <= clock /\ i.noted <= clock
      /\ From = "github" => i.noted = 0
    BY <1>1, <1>4 DEF SourceTimes
<1>6. i.at \in Nat /\ i.noted \in Nat
    BY DEF SourceItem
<1>7. (IF i.noted > i.at THEN i.noted ELSE i.at) = clock
    BY <1>1, <1>4, <1>5, <1>6
<1>8. Calm(clock)
    <2> SUFFICES ASSUME NEW q \in Repos, NEW m \in DOMAIN src'[q], LastChange(q, m)' < clock
                 PROVE  Undisturbed(q, m)
        BY DEF Calm
    <2>1. ~(q = r /\ m = n)
        <3>1. ASSUME q = r, m = n PROVE FALSE
            <4>1. src'[q][m] = i
                BY <1>3, <3>1
            <4>2. LastChange(q, m)' = clock
                BY <1>7, <4>1 DEF LastChange
            <4> QED BY <1>1, <4>2
        <3> QED BY <3>1
    <2>2. m \in DOMAIN src[q] /\ src'[q][m] = src[q][m]
        BY <1>3, <2>1
    <2> QED BY <1>2, <2>2 DEF Undisturbed
<1>9. SourceStamped
    BY <1>3, <1>4 DEF SourceStamped
<1>10. SourceTimes'
    BY <1>2, <1>3, <1>5 DEF SourceTimes
<1> QED BY <1>8, <1>9, <1>10

LEMMA MadeCalm ==
    ASSUME TypeInv, SourceTimes, NEW r \in Repos, NEW i \in SourceItem, ItemMade(r, i)
    PROVE  Calm(clock) /\ SourceStamped /\ SourceTimes'
<1>1. src \in [Repos -> Seq(SourceItem)] /\ clock \in Nat /\ Start <= clock
    BY DEF TypeInv, TypeOK, Placed
<1>2. src' = [src EXCEPT ![r] = Append(src[r], i)] /\ UNCHANGED <<clock, tgt>>
      /\ i.at = clock /\ i.noted = 0
    BY DEF ItemMade
<1>3. /\ src'[r] = Append(src[r], i) /\ \A q \in Repos \ {r} : src'[q] = src[q]
      /\ DOMAIN src[r] = 1..Len(src[r]) /\ Len(src[r]) \in Nat /\ src[r] \in Seq(SourceItem)
    BY <1>1, <1>2, LenProperties
<1>4. /\ DOMAIN src'[r] = 1..(Len(src[r]) + 1)
      /\ \A m \in 1..Len(src[r]) : src'[r][m] = src[r][m]
      /\ src'[r][Len(src[r]) + 1] = i
    BY <1>3
<1>5. ASSUME NEW q \in Repos, NEW m \in DOMAIN src'[q]
      PROVE  (m \in DOMAIN src[q] /\ src'[q][m] = src[q][m]) \/ src'[q][m] = i
    BY <1>3, <1>4
<1>6. \A q \in Repos : \A m \in DOMAIN src[q] : src'[q][m] = src[q][m]
    BY <1>3, <1>4
<1>7. (IF i.noted > i.at THEN i.noted ELSE i.at) = clock
    BY <1>1, <1>2
<1>8. Calm(clock)
    <2> SUFFICES ASSUME NEW q \in Repos, NEW m \in DOMAIN src'[q], LastChange(q, m)' < clock
                 PROVE  Undisturbed(q, m)
        BY DEF Calm
    <2>1. src'[q][m] # i
        <3>1. ASSUME src'[q][m] = i PROVE FALSE
            <4>1. LastChange(q, m)' = clock
                BY <1>7, <3>1 DEF LastChange
            <4> QED BY <1>1, <4>1
        <3> QED BY <3>1
    <2> QED BY <1>2, <1>5, <2>1 DEF Undisturbed
<1>9. SourceStamped
    BY <1>6 DEF SourceStamped
<1>10. SourceTimes'
    <2>1. /\ Start <= i.at /\ i.at <= clock /\ i.noted <= clock
          /\ From = "github" => i.noted = 0
        BY <1>1, <1>2
    <2> QED BY <1>2, <1>5, <2>1 DEF SourceTimes
<1> QED BY <1>8, <1>9, <1>10

LEMMA ForgesCalm ==
    ASSUME TypeInv, SourceTimes, Forges
    PROVE  Calm(clock) /\ SourceStamped /\ SourceTimes' /\ clock' \in {clock, clock + 1}
<1>0. TypeOK /\ clock \in Nat
    BY DEF TypeInv, TypeOK
<1>1. ASSUME UNCHANGED src PROVE SourceStamped
    BY <1>1 DEF SourceStamped
<1>2. ASSUME UNCHANGED src, clock' \in {clock, clock + 1} PROVE SourceTimes'
    <2> SUFFICES ASSUME NEW r \in Repos, NEW n \in DOMAIN src[r]
                 PROVE  /\ Start <= src[r][n].at /\ src[r][n].at <= clock' /\ src[r][n].noted <= clock'
                        /\ From = "github" => src[r][n].noted = 0
        BY <1>2 DEF SourceTimes
    <2>1. src[r][n].at \in Nat /\ src[r][n].noted \in Nat
        BY <1>0, TimesTyped
    <2>2. /\ Start <= src[r][n].at /\ src[r][n].at <= clock /\ src[r][n].noted <= clock
          /\ From = "github" => src[r][n].noted = 0
        BY DEF SourceTimes
    <2> QED BY <1>0, <1>2, <2>1, <2>2
<1>3. CASE UNCHANGED <<rev, src, tgt>> /\ clock' \in {clock, clock + 1}
    BY <1>1, <1>2, <1>3, StillCalm
<1>4. CASE \E r \in Repos : \E n \in DOMAIN src[r] : \E i \in SourceItem : ItemTouched(r, n, i)
    <2>1. UNCHANGED clock
        BY <1>4 DEF ItemTouched
    <2> QED BY <1>4, <2>1, TouchedCalm
<1>5. CASE \E r \in Repos : \E i \in SourceItem : ItemMade(r, i)
    <2>1. UNCHANGED clock
        BY <1>5 DEF ItemMade
    <2> QED BY <1>5, <2>1, MadeCalm
<1>6. CASE TargetWorked
    <2>1. UNCHANGED <<clock, src>> /\ \E r \in Repos :
              \/ \E i : tgt' = [tgt EXCEPT ![r] = Append(tgt[r], i)]
              \/ \E c \in DOMAIN tgt[r] : tgt' = [tgt EXCEPT ![r][c].notes = Append(@, 0)]
        BY <1>6 DEF TargetWorked
    <2>2. Calm(clock)
        BY <1>0, <2>1, AppendedCalm, OwnItemCalm
    <2> QED BY <1>1, <1>2, <2>1, <2>2
<1> QED BY <1>3, <1>4, <1>5, <1>6, ForgesKinds

-----------------------------------------------------------------------------
(* The invariant through a step. *)

(* What a run at l with w and s in hand keeps is about the forges alone. *)
LEMMA KeepsPrimed ==
    ASSUME NEW q \in Jobs, NEW l, NEW w, NEW s, pc'[q] = l, work'[q] = w, pass'[q] = s
    PROVE  /\ Keeps(l, w, s)' => Keeps(pc[q], work[q], pass[q])'
           /\ Seen(l, w, s.started)' => Seen(pc[q], work[q], pass[q].started)'
<1>1. ASSUME Seen(l, w, s.started)' PROVE Seen(pc[q], work[q], pass[q].started)'
    BY <1>1 DEF Seen, Current
<1>2. ASSUME KeepsRepos(l, w, s)' PROVE KeepsRepos(pc[q], work[q], pass[q])'
    BY <1>2 DEF KeepsRepos, Caught, LastChange, Mirrored, Counterparts, Carries, CursorAfter
<1>3. ASSUME KeepsItems(l, w, s)' PROVE KeepsItems(pc[q], work[q], pass[q])'
    BY <1>3 DEF KeepsItems, Covers, LastChange, Mirrored, Counterparts, Carries, CursorAfter
<1>4. ASSUME KeepsHand(l, w, s)' PROVE KeepsHand(pc[q], work[q], pass[q])'
    BY <1>4 DEF KeepsHand, Nearly, LastChange, Original, Holds, CursorAfter
<1>5. ASSUME l # "idle" => \A r \in Repos : Caught(r, s.since)'
      PROVE  pc'[q] # "idle" => \A r \in Repos : Caught(r, pass[q].since)'
    BY <1>5 DEF Caught, LastChange, Mirrored, Counterparts, Carries
<1> QED BY <1>1, <1>2, <1>3, <1>4, <1>5 DEF Keeps

LEMMA SeenKept ==
    ASSUME SourceStamped, NEW l, NEW w, Placing(l, w), NEW t \in Int, t <= clock, Seen(l, w, t)
    PROVE  Seen(l, w, t)'
<1>1. ASSUME NEW x, NEW r \in Repos, x.n \in DOMAIN src[r], Current(r, x, t) PROVE Current(r, x, t)'
    BY <1>1 DEF Current, SourceStamped
<1>2. ASSUME NEW x \in w.batch PROVE Current(w.repo, x, t)'
    <2>1. w.repo \in Repos /\ x.n \in DOMAIN src[w.repo] /\ Current(w.repo, x, t)
        BY DEF Placing, Seen
    <2> QED BY <1>1, <2>1 DEF Current
<1>3. ASSUME l \in OnItem PROVE Current(w.repo, w.item, t)'
    <2>1. w.repo \in Repos /\ w.item.n \in DOMAIN src[w.repo] /\ Current(w.repo, w.item, t)
        BY <1>3 DEF Placing, Seen, Informed, OnItem
    <2> QED BY <1>1, <2>1 DEF Current
<1> QED BY <1>2, <1>3 DEF Seen, Current

LEMMA KeepsKept ==
    ASSUME TypeOK', SourceGrows, TargetGrows, NEW T \in Int, Calm(T), NEW l, NEW w, NEW s,
           l \in InRepo => w.repo \in Repos,
           l \in OnItem => /\ w.item.n \in DOMAIN src[w.repo]
                           /\ w.ref \in Counterparts(w.repo, w.item.n),
           l # "idle" => /\ s.since \in Int /\ s.since < T
                         /\ CursorAfter(s.started) \in Int /\ CursorAfter(s.started) < T,
           Keeps(l, w, s)
    PROVE  Keeps(l, w, s)'
<1>1. CASE l = "idle"
    BY <1>1 DEF Keeps, KeepsRepos, KeepsItems, KeepsHand, InRepo, OnItem
<1>2. CASE l # "idle"
    <2>1. KeepsRepos(l, w, s)' /\ KeepsItems(l, w, s)' /\ KeepsHand(l, w, s)'
        BY <1>2, ReposKept, ItemsKept, HandKept DEF Keeps, InRepo, OnItem
    <2>2. PICK t \in Int : t = s.since
        BY <1>2
    <2>3. \A r \in Repos : Caught(r, t)'
        BY <1>2, <2>2, CaughtKept DEF Keeps
    <2>4. \A r \in Repos : Caught(r, s.since)'
        BY <2>2, <2>3 DEF Caught, LastChange, Mirrored, Counterparts, Carries
    <2> QED BY <2>1, <2>4 DEF Keeps
<1> QED BY <1>1, <1>2

LEMMA NothingBefore == ASSUME TypeOK, SourceTimes, NEW r \in Repos PROVE Caught(r, 0)
<1> SUFFICES ASSUME NEW n \in DOMAIN src[r], LastChange(r, n) <= 0 PROVE FALSE
    BY DEF Caught
<1>1. src[r][n].at \in Nat /\ src[r][n].at <= LastChange(r, n) /\ LastChange(r, n) \in Nat
    BY TimesTyped
<1>2. Start <= src[r][n].at
    BY DEF SourceTimes
<1> QED BY <1>1, <1>2

(* A promise that is left alone, or taken back, holds on. *)
LEMMA PromiseKept ==
    ASSUME TypeInv, TypeInv', SourceTimes, SourceGrows, TargetGrows, NEW T \in Nat \ {0}, Calm(T), NothingSkipped,
           NEW f \in Unlimited, cursor[f] < T, cursor'[f] \in {cursor[f], 0}, NEW r \in Repos
    PROVE  Caught(r, cursor[f])'
<1>1. f \in Paths /\ cursor[f] \in Nat
    BY DEF TypeInv, TypeOK, Unlimited
<1>2. Caught(r, cursor[f]) /\ Caught(r, 0)
    BY NothingBefore DEF NothingSkipped, Caught, Unlimited, TypeInv
<1>3. PICK t \in Nat : t = cursor'[f]
    BY <1>1
<1>4. Caught(r, t) /\ t < T
    BY <1>1, <1>2, <1>3
<1>5. Caught(r, t)'
    BY <1>4, CaughtKept DEF TypeInv
<1> QED BY <1>3, <1>5 DEF Caught, LastChange, Mirrored, Counterparts, Carries

LEMMA PromisesKept ==
    ASSUME \A f \in Unlimited : \A r \in Repos : Caught(r, cursor[f])'
    PROVE  NothingSkipped'
BY DEF NothingSkipped, Caught, Unlimited

(* A run that is in flight, seen from where it is. *)
LEMMA InFlight ==
    ASSUME ProgressInv, 0 < Margin, NEW p \in Jobs, pc[p] # "idle"
    PROVE  /\ pass[p].started \in Nat \ {0} /\ pass[p].started <= clock /\ clock \in Nat
           /\ pass[p].since \in Nat /\ pass[p].since < pass[p].started
           /\ CursorAfter(pass[p].started) \in Nat /\ CursorAfter(pass[p].started) < pass[p].started
           /\ \A f \in Paths : cursor[f] \in Nat /\ cursor[f] < pass[p].started
           /\ pc[p] \in InRepo => Here(p) \in Repos /\ Here(p) = work[p].repo
           /\ Seen(pc[p], work[p], pass[p].started)
<1>1. TypeInv /\ RunTimes /\ pass[p] \in Pass /\ clock \in Nat /\ cursor \in [Paths -> Nat]
    BY DEF ProgressInv, EchoInv, TypeInv, TypeOK
<1>2. pass[p].started \in Nat /\ pass[p].since \in Nat /\ Start <= pass[p].started
    BY <1>1 DEF Pass, TypeInv, Placed
<1>3. Margin < Start /\ Margin \in Nat /\ Start \in Nat
    OBVIOUS
<1>4. /\ pass[p].started \in Nat \ {0}
      /\ CursorAfter(pass[p].started) \in Nat /\ CursorAfter(pass[p].started) < pass[p].started
    BY <1>2, <1>3 DEF CursorAfter
<1> QED BY <1>1, <1>2, <1>4, HereTyped DEF RunTimes, ProgressInv, OnTheWay

LEMMA ForgesProgress ==
    ASSUME ProgressInv, EchoNext, OneCopyInv', 0 < Margin, Forges
    PROVE  ProgressInv'
<1>1. /\ TypeInv /\ TypeInv' /\ EchoInv' /\ SourceGrows /\ TargetGrows /\ SourceTimes /\ RunTimes
    BY DEF ProgressInv, EchoInv, EchoNext, Adds
<1>2. /\ UNCHANGED <<pc, pass, work>>
      /\ UNCHANGED cursor \/ \E f \in Paths : cursor' = [cursor EXCEPT ![f] = 0]
      /\ Calm(clock) /\ SourceStamped /\ SourceTimes' /\ clock' \in {clock, clock + 1}
    BY <1>1, ForgesKinds, ForgesCalm
<1>3. clock \in Nat \ {0} /\ cursor \in [Paths -> Nat]
    BY <1>1 DEF TypeInv, TypeOK, Placed
<1>4. \A f \in Paths : cursor'[f] \in {cursor[f], 0} /\ cursor[f] < clock /\ cursor[f] \in Nat
    BY <1>1, <1>2, <1>3 DEF RunTimes
<1>5. NothingSkipped'
    <2>1. Unlimited \subseteq Paths
        BY DEF Unlimited
    <2> QED BY <1>1, <1>2, <1>3, <1>4, <2>1, PromiseKept, PromisesKept DEF ProgressInv
<1>6. RunTimes'
    <2>1. \A f \in Paths : cursor'[f] < clock'
        BY <1>2, <1>3, <1>4
    <2>2. ASSUME NEW q \in Jobs, pc[q] # "idle"
          PROVE  /\ pass[q].since < pass[q].started /\ pass[q].started <= clock'
                 /\ \A f \in Paths : cursor'[f] < pass[q].started
        BY <1>2, <1>4, <2>2, InFlight
    <2> QED BY <1>2, <2>1, <2>2 DEF RunTimes
<1>7. ASSUME NEW q \in Jobs PROVE OnTheWay(q)'
    <2>1. PICK l, w, s : l = pc[q] /\ w = work[q] /\ s = pass[q]
        OBVIOUS
    <2>2. Placing(l, w) /\ Knows(l, w)
        BY <1>1, <2>1, JobPlaced DEF ProgressInv, EchoInv, Paired
    <2>3. l \in InRepo => w.repo \in Repos
        BY <1>1, <2>1 DEF TypeInv, Placed
    <2>4. l \in OnItem => w.item.n \in DOMAIN src[w.repo] /\ w.ref \in Counterparts(w.repo, w.item.n)
        BY <2>2 DEF Placing, Knows
    <2>5. l # "idle" => /\ s.started \in Int /\ s.started <= clock
                        /\ s.since \in Int /\ s.since < clock
                        /\ CursorAfter(s.started) \in Int /\ CursorAfter(s.started) < clock
        BY <2>1, InFlight
    <2>6. Seen(l, w, s.started) /\ (Serious(q) => Keeps(l, w, s))
        BY <2>1 DEF ProgressInv, OnTheWay
    <2>7. Seen(l, w, s.started)'
        <3>1. CASE l # "idle"
            <4>1. PICK t \in Int : t = s.started
                BY <2>5, <3>1
            <4>2. Seen(l, w, t)'
                BY <1>2, <2>2, <2>5, <2>6, <3>1, <4>1, SeenKept
            <4> QED BY <4>1, <4>2 DEF Seen, Current
        <3>2. CASE l = "idle"
            <4>1. w.batch = {}
                BY <1>1, <2>1, <3>2, OutsideEmpty DEF InRepo
            <4> QED BY <3>2, <4>1 DEF Seen, OnItem
        <3> QED BY <3>1, <3>2
    <2>8. Serious(q) => Keeps(l, w, s)'
        BY <1>1, <1>2, <1>3, <2>3, <2>4, <2>5, <2>6, KeepsKept DEF TypeInv
    <2>9. Serious(q)' <=> Serious(q)
        BY DEF Serious, Unlimited
    <2> QED BY <1>2, <2>1, <2>7, <2>8, <2>9, KeepsPrimed DEF OnTheWay
<1> QED BY <1>1, <1>2, <1>5, <1>6, <1>7 DEF ProgressInv

LEMMA IdleNext ==
    ASSUME NEW q \in Jobs, pc'[q] = "idle", work'[q].batch = {}
    PROVE  OnTheWay(q)'
BY DEF OnTheWay, Seen, Keeps, KeepsRepos, KeepsItems, KeepsHand, InRepo, OnItem

(* A step of run p that leaves it at l with w and s in hand. *)
LEMMA RunProgress ==
    ASSUME ProgressInv, EchoNext, OneCopyInv', 0 < Margin, UNCHANGED <<clock, src>>,
           NEW p \in Jobs, pc[p] # "idle", Calm(pass[p].started),
           NEW l, NEW w, NEW s, pc' = [pc EXCEPT ![p] = l], work' = [work EXCEPT ![p] = w],
           pass' = [pass EXCEPT ![p] = s],
           l # "idle" => s.started = pass[p].started /\ s.since = pass[p].since,
           l = "idle" => w.batch = {},
           l # "idle" => Seen(l, w, pass[p].started),
           Serious(p) => KeepsRepos(l, w, s) /\ KeepsItems(l, w, s) /\ KeepsHand(l, w, s)',
           NothingSkipped', \A f \in Paths : cursor'[f] < pass[p].started
    PROVE  ProgressInv'
<1>1. /\ TypeInv /\ TypeInv' /\ EchoInv' /\ SourceGrows /\ TargetGrows /\ SourceTimes /\ RunTimes /\ Solo
    BY DEF ProgressInv, EchoInv, EchoNext, Adds, OneCopyInv
<1>2. /\ pc \in [Jobs -> Places] /\ pass \in [Jobs -> Pass] /\ work \in [Jobs -> Work]
    BY <1>1 DEF TypeInv, TypeOK
<1>3. /\ pc'[p] = l /\ work'[p] = w /\ pass'[p] = s
      /\ \A q \in Jobs \ {p} : pc'[q] = "idle" /\ work'[q].batch = {}
    <2>1. ASSUME NEW q \in Jobs \ {p} PROVE pc'[q] = "idle" /\ work'[q].batch = {}
        <3>1. pc'[q] = pc[q] /\ work'[q] = work[q] /\ pc[q] = "idle"
            BY <1>1, <1>2 DEF Solo
        <3> QED BY <1>1, <3>1, OutsideEmpty DEF InRepo
    <2> QED BY <1>2, <2>1
<1>4. SourceTimes'
    BY <1>1 DEF SourceTimes
<1>5. /\ pass[p].started \in Nat \ {0} /\ pass[p].started <= clock /\ clock \in Nat
      /\ pass[p].since \in Nat /\ pass[p].since < pass[p].started
      /\ CursorAfter(pass[p].started) \in Nat /\ CursorAfter(pass[p].started) < pass[p].started
    BY InFlight
<1>6. RunTimes'
    <2>1. \A f \in Paths : cursor'[f] < clock'
        BY <1>1, <1>5 DEF TypeInv, TypeOK
    <2>2. ASSUME NEW q \in Jobs, pc'[q] # "idle"
          PROVE  /\ pass'[q].since < pass'[q].started /\ pass'[q].started <= clock'
                 /\ \A f \in Paths : cursor'[f] < pass'[q].started
        <3>1. q = p /\ l # "idle"
            BY <1>3, <2>2
        <3>2. pass'[q].since = pass[p].since /\ pass'[q].started = pass[p].started
            BY <1>3, <3>1
        <3> QED BY <1>5, <3>2
    <2> QED BY <2>1, <2>2 DEF RunTimes
<1>7. CASE l = "idle"
    BY <1>1, <1>3, <1>4, <1>6, <1>7, IdleNext DEF ProgressInv
<1>8. CASE l # "idle"
    <2>1. s.started = pass[p].started /\ s.since = pass[p].since /\ s.started \in Int
        BY <1>5, <1>8
    <2>2. Seen(l, w, s.started)'
        BY <1>8, <2>1 DEF Seen, Current
    <2>3. l \in InRepo => w.repo \in Repos
        BY <1>1, <1>3 DEF TypeInv, Placed
    <2>4. ASSUME Serious(p) PROVE Keeps(l, w, s)'
        <3>1. CursorAfter(s.started) \in Int /\ CursorAfter(s.started) < pass[p].started
            BY <1>5, <2>1
        <3>2. KeepsRepos(l, w, s)' /\ KeepsItems(l, w, s)'
            BY <1>1, <1>5, <2>3, <2>4, <3>1, ReposKept, ItemsKept DEF TypeInv
        <3>3. ASSUME NEW r \in Repos PROVE Caught(r, s.since)'
            <4>1. Caught(r, pass[p].since)
                BY <2>4 DEF ProgressInv, OnTheWay, Keeps
            <4>2. PICK t \in Int : t = s.since /\ t < pass[p].started /\ Caught(r, t)
                BY <1>5, <2>1, <4>1
            <4>3. Caught(r, t)'
                BY <1>1, <1>5, <4>2, CaughtKept DEF TypeInv
            <4> QED BY <4>2, <4>3 DEF Caught, LastChange, Mirrored, Counterparts, Carries
        <3> QED BY <2>4, <3>2, <3>3 DEF Keeps
    <2>5. Serious(p)' <=> Serious(p)
        BY DEF Serious, Unlimited
    <2>6. OnTheWay(p)'
        BY <1>3, <2>2, <2>4, <2>5, KeepsPrimed DEF OnTheWay
    <2>7. ASSUME NEW q \in Jobs \ {p} PROVE OnTheWay(q)'
        BY <1>3, IdleNext
    <2> QED BY <1>1, <1>4, <1>6, <2>6, <2>7 DEF ProgressInv
<1> QED BY <1>7, <1>8

(* The same when the cursors stay. *)
LEMMA ProgressStep ==
    ASSUME ProgressInv, EchoNext, OneCopyInv', 0 < Margin, UNCHANGED <<clock, src, cursor>>,
           NEW p \in Jobs, pc[p] # "idle", Calm(pass[p].started),
           NEW l, NEW w, NEW s, pc' = [pc EXCEPT ![p] = l], work' = [work EXCEPT ![p] = w],
           pass' = [pass EXCEPT ![p] = s],
           l # "idle" => s.started = pass[p].started /\ s.since = pass[p].since,
           l = "idle" => w.batch = {},
           l # "idle" => Seen(l, w, pass[p].started),
           Serious(p) => KeepsRepos(l, w, s) /\ KeepsItems(l, w, s) /\ KeepsHand(l, w, s)'
    PROVE  ProgressInv'
<1>1. /\ TypeInv /\ TypeInv' /\ SourceGrows /\ TargetGrows /\ SourceTimes /\ NothingSkipped
    BY DEF ProgressInv, EchoInv, EchoNext, Adds
<1>2. /\ pass[p].started \in Nat \ {0}
      /\ \A f \in Paths : cursor[f] < pass[p].started
    BY InFlight
<1>3. NothingSkipped'
    <2>1. Unlimited \subseteq Paths
        BY DEF Unlimited
    <2> QED BY <1>1, <1>2, <2>1, PromiseKept, PromisesKept
<1> QED BY <1>2, <1>3, RunProgress

(* The same of a step that leaves both forges alone. *)
LEMMA QuietProgress ==
    ASSUME ProgressInv, EchoNext, OneCopyInv', 0 < Margin, UNCHANGED <<clock, src, tgt, cursor>>,
           NEW p \in Jobs, pc[p] # "idle",
           NEW l, NEW w, NEW s, pc' = [pc EXCEPT ![p] = l], work' = [work EXCEPT ![p] = w],
           pass' = [pass EXCEPT ![p] = s],
           l # "idle" => s.started = pass[p].started /\ s.since = pass[p].since,
           l = "idle" => w.batch = {},
           l # "idle" => Seen(l, w, pass[p].started),
           Serious(p) => KeepsRepos(l, w, s) /\ KeepsItems(l, w, s) /\ KeepsHand(l, w, s)
    PROVE  ProgressInv'
<1>1. Calm(pass[p].started)
    BY StillCalm
<1>2. ASSUME KeepsHand(l, w, s) PROVE KeepsHand(l, w, s)'
    BY <1>2 DEF KeepsHand, Nearly, LastChange, Original, Holds, CursorAfter
<1> QED BY <1>1, <1>2, ProgressStep

-----------------------------------------------------------------------------
(* A run: it starts where a promise ends, and ends with one. *)

LEMMA StartRunProgress ==
    ASSUME ProgressInv, EchoNext, OneCopyInv', 0 < Margin, ~Overlap, NEW p \in Jobs, StartRun(p)
    PROVE  ProgressInv'
<1>1. /\ TypeInv /\ TypeInv' /\ EchoInv' /\ SourceTimes /\ RunTimes /\ NothingSkipped
    BY DEF ProgressInv, EchoInv, EchoNext
<1>2. /\ pc \in [Jobs -> Places] /\ pass \in [Jobs -> Pass] /\ work \in [Jobs -> Work]
      /\ clock \in Nat /\ cursor \in [Paths -> Nat] /\ Start <= clock
    BY <1>1 DEF TypeInv, TypeOK, Placed
<1>3. PICK s : s = [NoPass EXCEPT !.started = clock,
                       !.since = SinceFor(clock, LimitOf[p], cursor[PathOf[p]])]
    OBVIOUS
<1>4. s.started = clock /\ s.since = SinceFor(clock, LimitOf[p], cursor[PathOf[p]])
    BY <1>3 DEF NoPass
<1>5. /\ \A q \in Jobs : pc[q] = "idle"
      /\ pc' = [pc EXCEPT ![p] = "repos"] /\ pass' = [pass EXCEPT ![p] = s]
      /\ UNCHANGED <<clock, src, tgt, cursor, work>>
    BY <1>3 DEF StartRun, forges
<1>6. \A q \in Jobs : work[q].batch = {}
    BY <1>1, <1>5, OutsideEmpty DEF InRepo
<1>7. PathOf[p] \in Paths /\ LimitOf[p] \in Nat /\ LimitOf[p] < Start
    OBVIOUS
<1>8. s.since < clock
    <2>1. cursor[PathOf[p]] < clock /\ cursor[PathOf[p]] \in Nat
        BY <1>1, <1>2, <1>7 DEF RunTimes
    <2> QED BY <1>2, <1>4, <1>7, <2>1 DEF SinceFor
<1>9. /\ pc'[p] = "repos" /\ pass'[p] = s /\ \A q \in Jobs \ {p} : pc'[q] = "idle"
    BY <1>2, <1>5
<1>10. RunTimes'
    <2>1. \A f \in Paths : cursor[f] < clock
        BY <1>1 DEF RunTimes
    <2>2. ASSUME NEW q \in Jobs, pc'[q] # "idle"
          PROVE  /\ pass'[q].since < pass'[q].started /\ pass'[q].started <= clock
                 /\ \A f \in Paths : cursor[f] < pass'[q].started
        BY <1>2, <1>4, <1>8, <1>9, <2>1, <2>2
    <2> QED BY <1>5, <2>1, <2>2 DEF RunTimes
<1>11. SourceTimes' /\ NothingSkipped'
    BY <1>1, <1>5 DEF SourceTimes, NothingSkipped, LastChange, Mirrored, Counterparts, Carries
<1>12. ASSUME NEW q \in Jobs, q # p PROVE OnTheWay(q)'
    BY <1>5, <1>6, <1>9, <1>12, IdleNext
<1>13. OnTheWay(p)'
    <2>1. Seen(pc[p], work[p], pass[p].started)'
        BY <1>5, <1>6, <1>9 DEF Seen, OnItem
    <2>2. ASSUME Serious(p), NEW r \in Repos PROVE Caught(r, s.since)
        <3>1. LimitOf[p] = 0 /\ PathOf[p] \in Unlimited
            BY <2>2 DEF Serious, Unlimited
        <3>2. s.since = cursor[PathOf[p]] \/ s.since = 0
            BY <1>4, <3>1 DEF SinceFor
        <3>3. Caught(r, cursor[PathOf[p]]) /\ Caught(r, 0)
            BY <1>1, <3>1, NothingBefore DEF NothingSkipped, Unlimited, Caught, TypeInv
        <3> QED BY <3>2, <3>3
    <2>3. ASSUME Serious(p) PROVE Keeps(pc[p], work[p], pass[p])'
        <3>1. \A r \in Repos : Caught(r, pass[p].since)'
            BY <1>5, <1>9, <2>2, <2>3 DEF Caught, LastChange, Mirrored, Counterparts, Carries
        <3>2. pc'[p] \notin InRepo /\ pc'[p] \notin OnItem /\ pc'[p] \in {"idle", "repos"}
            BY <1>9 DEF InRepo, OnItem
        <3> QED BY <3>1, <3>2 DEF Keeps, KeepsRepos, KeepsItems, KeepsHand
    <2>4. Serious(p)' <=> Serious(p)
        BY DEF Serious, Unlimited
    <2> QED BY <2>1, <2>3, <2>4 DEF OnTheWay
<1> QED BY <1>1, <1>10, <1>11, <1>12, <1>13 DEF ProgressInv

(* What a run in flight, whose file makes a promise, has done and has to do. *)
LEMMA Kept ==
    ASSUME ProgressInv, NEW p \in Jobs, pc[p] # "idle", Serious(p)
    PROVE  /\ p \notin DryJobs /\ \A r \in Repos : Caught(r, pass[p].since)
           /\ KeepsRepos(pc[p], work[p], pass[p])
           /\ KeepsItems(pc[p], work[p], pass[p])
           /\ KeepsHand(pc[p], work[p], pass[p])
BY DEF ProgressInv, OnTheWay, Keeps, Serious

LEMMA EmptySeen == ASSUME NEW l, l \notin OnItem, NEW w, w.batch = {}, NEW t PROVE Seen(l, w, t)
BY DEF Seen, OnItem

LEMMA NothingInHand ==
    ASSUME NEW l, l \notin InRepo \ {"list"}, NEW w, NEW s
    PROVE  KeepsItems(l, w, s) /\ KeepsHand(l, w, s)
BY DEF KeepsItems, KeepsHand, InRepo, OnItem

LEMMA StopProgress ==
    ASSUME ProgressInv, EchoNext, OneCopyInv', 0 < Margin, NEW p \in Jobs, FailRun(p) \/ Crash(p)
    PROVE  ProgressInv'
<1>1. TypeInv
    BY DEF ProgressInv, EchoInv
<1>2. pc[p] # "idle" /\ UNCHANGED <<clock, src, tgt, cursor>>
    BY DEF FailRun, Crash, forges
<1>3. \E w : w.batch = {} /\ work' = [work EXCEPT ![p] = w]
    <2>1. CASE FailRun(p)
        <3>1. work[p].batch = {}
            BY <1>1, <2>1, OutsideEmpty DEF FailRun, InRepo
        <3> QED BY <1>1, <2>1, <3>1, Frame DEF FailRun
    <2>2. CASE Crash(p)
        BY <2>2 DEF Crash, NoWork
    <2> QED BY <2>1, <2>2
<1>4. pc' = [pc EXCEPT ![p] = "idle"] /\ pass' = [pass EXCEPT ![p] = NoPass]
    BY DEF FailRun, Crash
<1>5. \A w, s : /\ KeepsRepos("idle", w, s) /\ KeepsItems("idle", w, s) /\ KeepsHand("idle", w, s)
    BY DEF KeepsRepos, KeepsItems, KeepsHand, InRepo, OnItem
<1> QED BY <1>2, <1>3, <1>4, <1>5, QuietProgress

(* The search leaves out no repository with something to do. *)
LEMMA LeftOut ==
    ASSUME ProgressInv, 0 < Margin, Lag <= Margin, From = "github", NEW p \in Jobs, pc[p] # "idle", Serious(p),
           NEW D \in Discovered(pass[p].since), NEW r \in Repos, r \notin D
    PROVE  Caught(r, CursorAfter(pass[p].started))
<1> SUFFICES ASSUME NEW n \in DOMAIN src[r], LastChange(r, n) <= CursorAfter(pass[p].started)
             PROVE  Mirrored(r, n)
    BY DEF Caught
<1>1. TypeOK /\ SourceTimes
    BY DEF ProgressInv, EchoInv, TypeInv
<1>2. /\ src[r][n].at \in Nat /\ LastChange(r, n) \in Nat /\ src[r][n].at <= LastChange(r, n)
      /\ src[r][n].noted = 0
    BY <1>1, TimesTyped DEF SourceTimes
<1>3. LastChange(r, n) = src[r][n].at
    BY <1>2 DEF LastChange
<1>4. ~(pass[p].since < src[r][n].at /\ src[r][n].at <= clock - Lag)
    BY DEF Discovered
<1>5. src[r][n].at <= clock - Lag
    BY <1>2, InFlight DEF CursorAfter
<1>6. LastChange(r, n) <= pass[p].since
    BY <1>2, <1>3, <1>4, <1>5, InFlight
<1> QED BY <1>6, Kept DEF Caught

LEMMA FindReposProgress ==
    ASSUME ProgressInv, EchoNext, OneCopyInv', 0 < Margin, Lag <= Margin, NEW p \in Jobs, FindRepos(p)
    PROVE  ProgressInv'
<1>1. TypeInv /\ pass[p] \in Pass
    BY DEF ProgressInv, EchoInv, TypeInv, TypeOK
<1>2. PICK D : /\ pass' = [pass EXCEPT ![p].todo = D]
               /\ D = Repos \/ (From = "github" /\ D \in Discovered(pass[p].since))
    BY DEF FindRepos
<1>3. PICK s : s = [pass[p] EXCEPT !.todo = D]
    OBVIOUS
<1>4. s.started = pass[p].started /\ s.since = pass[p].since /\ s.todo = D
    BY <1>1, <1>3 DEF Pass
<1>5. /\ pc[p] # "idle" /\ pc[p] \notin InRepo
      /\ pc' = [pc EXCEPT ![p] = "next"] /\ pass' = [pass EXCEPT ![p] = s]
      /\ work' = [work EXCEPT ![p] = work[p]] /\ UNCHANGED <<clock, src, tgt, cursor>>
    BY <1>1, <1>2, <1>3, Frame DEF FindRepos, forges, InRepo
<1>6. Seen("next", work[p], pass[p].started)
    BY <1>1, <1>5, OutsideEmpty, EmptySeen DEF OnItem
<1>7. ASSUME Serious(p) PROVE KeepsRepos("next", work[p], s)
    <2>1. \A r \in Repos : r \in D \/ Caught(r, CursorAfter(pass[p].started))
        BY <1>2, <1>5, <1>7, LeftOut
    <2> QED BY <1>4, <2>1 DEF KeepsRepos
<1>8. KeepsItems("next", work[p], s) /\ KeepsHand("next", work[p], s)
    BY NothingInHand DEF InRepo
<1> QED BY <1>4, <1>5, <1>6, <1>7, <1>8, QuietProgress

LEMMA NextRepoProgress ==
    ASSUME ProgressInv, EchoNext, OneCopyInv', 0 < Margin, NEW p \in Jobs, NextRepo(p)
    PROVE  ProgressInv'
<1>1. TypeInv /\ pass[p] \in Pass /\ work[p] \in Work
    BY DEF ProgressInv, EchoInv, TypeInv, TypeOK
<1>2. PICK r \in pass[p].todo : /\ pass' = [pass EXCEPT ![p].todo = @ \ {r}]
                                /\ work' = [work EXCEPT ![p].repo = r]
    BY DEF NextRepo
<1>3. PICK s, w : s = [pass[p] EXCEPT !.todo = @ \ {r}] /\ w = [work[p] EXCEPT !.repo = r]
    OBVIOUS
<1>4. /\ s.started = pass[p].started /\ s.since = pass[p].since
      /\ s.todo = pass[p].todo \ {r} /\ s.failed = pass[p].failed
      /\ w.repo = r /\ w.batch = work[p].batch
    BY <1>1, <1>3 DEF Pass, Work
<1>5. /\ pc[p] = "next" /\ pc[p] \notin InRepo
      /\ pc' = [pc EXCEPT ![p] = "list"] /\ pass' = [pass EXCEPT ![p] = s]
      /\ work' = [work EXCEPT ![p] = w] /\ UNCHANGED <<clock, src, tgt, cursor>>
    BY <1>2, <1>3 DEF NextRepo, forges, InRepo
<1>6. Seen("list", w, pass[p].started)
    BY <1>1, <1>4, <1>5, OutsideEmpty, EmptySeen DEF OnItem
<1>7. ASSUME Serious(p) PROVE KeepsRepos("list", w, s)
    <2>1. KeepsRepos("next", work[p], pass[p])
        BY <1>5, <1>7, Kept
    <2>2. work[p].repo \notin Repos
        BY <1>1, <1>5 DEF TypeInv, Placed
    <2> QED BY <1>4, <2>1, <2>2 DEF KeepsRepos
<1>8. KeepsItems("list", w, s) /\ KeepsHand("list", w, s)
    BY NothingInHand DEF InRepo
<1> QED BY <1>4, <1>5, <1>6, <1>7, <1>8, QuietProgress

(* Run p leaves the repository it is in, which is failed or in the target by now. *)
LEMMA LeaveProgress ==
    ASSUME ProgressInv, EchoNext, OneCopyInv', 0 < Margin, UNCHANGED <<forges, cursor>>,
           NEW p \in Jobs, pc[p] \in InRepo, LeaveRepo(p), NEW s, pass' = [pass EXCEPT ![p] = s],
           s.started = pass[p].started, s.since = pass[p].since, s.todo = pass[p].todo,
           \/ s.failed = pass[p].failed /\ (Serious(p) => Caught(Here(p), CursorAfter(pass[p].started)))
           \/ s.failed = pass[p].failed \cup {Here(p)}
    PROVE  ProgressInv'
<1>1. /\ pc' = [pc EXCEPT ![p] = "next"] /\ work' = [work EXCEPT ![p] = NoWork] /\ NoWork.batch = {}
      /\ UNCHANGED <<clock, src, tgt, cursor>> /\ pc[p] \notin {"idle", "repos"}
    BY DEF LeaveRepo, NoWork, forges, InRepo
<1>2. Seen("next", NoWork, pass[p].started)
    BY <1>1, EmptySeen DEF OnItem
<1>3. ASSUME Serious(p) PROVE KeepsRepos("next", NoWork, s)
    <2>1. KeepsRepos(pc[p], work[p], pass[p])
        BY <1>1, <1>3, Kept
    <2> QED BY <1>1, <1>3, <2>1 DEF KeepsRepos, Here
<1>4. KeepsItems("next", NoWork, s) /\ KeepsHand("next", NoWork, s)
    BY NothingInHand DEF InRepo
<1> QED BY <1>1, <1>2, <1>3, <1>4, QuietProgress

LEMMA FailRepoProgress ==
    ASSUME ProgressInv, EchoNext, OneCopyInv', 0 < Margin, NEW p \in Jobs, FailRepo(p)
    PROVE  ProgressInv'
<1>1. TypeInv /\ pass[p] \in Pass /\ work[p] \in Work
    BY DEF ProgressInv, EchoInv, TypeInv, TypeOK
<1>2. PICK s : s = [pass[p] EXCEPT !.failed = @ \cup {Here(p)}]
    OBVIOUS
<1>3. /\ s.started = pass[p].started /\ s.since = pass[p].since /\ s.todo = pass[p].todo
      /\ s.failed = pass[p].failed \cup {Here(p)}
    BY <1>1, <1>2 DEF Pass
<1>4. pass' = [pass EXCEPT ![p] = s] /\ LeaveRepo(p) /\ UNCHANGED <<forges, cursor>>
    BY <1>2 DEF FailRepo
<1>5. pc[p] \in InRepo
    BY <1>1 DEF FailRepo, Here, Work, TypeInv, Placed
<1> QED BY <1>3, <1>4, <1>5, LeaveProgress

LEMMA FinishRepoProgress ==
    ASSUME ProgressInv, EchoNext, OneCopyInv', 0 < Margin, NEW p \in Jobs, FinishRepo(p)
    PROVE  ProgressInv'
<1>1. TypeInv
    BY DEF ProgressInv, EchoInv
<1>2. /\ pc[p] = "issue" /\ work[p].batch = {} /\ LeaveRepo(p) /\ UNCHANGED <<forges, cursor>>
      /\ pc[p] \in InRepo /\ pass' = [pass EXCEPT ![p] = pass[p]]
    BY <1>1, Frame DEF FinishRepo, InRepo
<1>3. ASSUME Serious(p) PROVE Caught(Here(p), CursorAfter(pass[p].started))
    <2>1. KeepsItems("issue", work[p], pass[p])
        BY <1>2, <1>3, Kept
    <2> QED BY <1>2, <2>1 DEF KeepsItems, Covers, Caught, Here, InRepo, OnItem
<1> QED BY <1>2, <1>3, LeaveProgress

LEMMA FinishRunProgress ==
    ASSUME ProgressInv, EchoNext, OneCopyInv', 0 < Margin, NEW p \in Jobs, FinishRun(p)
    PROVE  /\ ProgressInv'
           /\ Serious(p) => \A r \in Repos \ pass[p].failed : Caught(r, CursorAfter(pass[p].started))
<1>1. TypeInv /\ TypeInv' /\ NothingSkipped /\ cursor \in [Paths -> Nat]
    BY DEF ProgressInv, EchoInv, EchoNext, TypeInv, TypeOK
<1>2. /\ pc[p] = "next" /\ pc[p] # "idle" /\ pc[p] \notin InRepo /\ pass[p].todo = {}
      /\ pc' = [pc EXCEPT ![p] = "idle"] /\ pass' = [pass EXCEPT ![p] = NoPass]
      /\ work' = [work EXCEPT ![p] = work[p]] /\ UNCHANGED <<clock, src, tgt>>
      /\ \/ cursor' = cursor
         \/ Clean(p) /\ cursor' = [cursor EXCEPT ![PathOf[p]] = CursorAfter(pass[p].started)]
    BY <1>1, Frame DEF FinishRun, forges, InRepo
<1>3. work[p].batch = {}
    BY <1>1, <1>2, OutsideEmpty
<1>4. ASSUME Serious(p), NEW r \in Repos \ pass[p].failed PROVE Caught(r, CursorAfter(pass[p].started))
    <2>1. KeepsRepos("next", work[p], pass[p])
        BY <1>2, <1>4, Kept
    <2>2. work[p].repo \notin Repos
        BY <1>1, <1>2 DEF TypeInv, Placed
    <2> QED BY <1>2, <2>1, <2>2 DEF KeepsRepos
<1>5. \A f \in Paths : cursor'[f] \in {cursor[f], CursorAfter(pass[p].started)}
    BY <1>1, <1>2
<1>6. \A f \in Paths : cursor'[f] < pass[p].started
    BY <1>2, <1>5, InFlight
<1>7. NothingSkipped'
    <2> SUFFICES ASSUME NEW f \in Unlimited, NEW r \in Repos PROVE Caught(r, cursor[f])'
        BY PromisesKept
    <2>1. f \in Paths /\ (f = PathOf[p] /\ Clean(p) => Serious(p))
        BY DEF Unlimited, Serious, Clean
    <2>2. Caught(r, cursor[f])
        BY <1>1 DEF NothingSkipped, Unlimited, Caught
    <2>3. Caught(r, cursor'[f])
        BY <1>1, <1>2, <1>4, <2>1, <2>2 DEF Clean
    <2> QED BY <1>2, <2>3 DEF Caught, LastChange, Mirrored, Counterparts, Carries
<1>8. \A w, s : KeepsRepos("idle", w, s) /\ KeepsItems("idle", w, s) /\ KeepsHand("idle", w, s)'
    BY DEF KeepsRepos, KeepsItems, KeepsHand, InRepo, OnItem
<1>9. ProgressInv'
    <2>1. Calm(pass[p].started)
        BY <1>2, StillCalm
    <2> QED BY <1>2, <1>3, <1>6, <1>7, <1>8, <2>1, RunProgress
<1> QED BY <1>4, <1>9

-----------------------------------------------------------------------------
(* Inside a repository: what changed is listed. *)

(* A step of run p inside its repository that leaves both forges alone. *)
LEMMA InsideProgress ==
    ASSUME ProgressInv, EchoNext, OneCopyInv', 0 < Margin, UNCHANGED <<clock, src, tgt, cursor, pass>>,
           NEW p \in Jobs, pc[p] \in InRepo, NEW l \in InRepo, NEW w,
           pc' = [pc EXCEPT ![p] = l], work' = [work EXCEPT ![p] = w], w.repo = work[p].repo,
           Seen(l, w, pass[p].started),
           Serious(p) => KeepsItems(l, w, pass[p]) /\ KeepsHand(l, w, pass[p])
    PROVE  ProgressInv'
<1>1. pc[p] \notin {"idle", "repos"} /\ l # "idle"
    BY DEF InRepo
<1>2. pass' = [pass EXCEPT ![p] = pass[p]]
    BY Frame DEF ProgressInv, EchoInv
<1>3. ASSUME Serious(p) PROVE KeepsRepos(l, w, pass[p])
    <2>1. KeepsRepos(pc[p], work[p], pass[p])
        BY <1>1, <1>3, Kept
    <2> QED BY <1>1, <2>1 DEF KeepsRepos
<1> QED BY <1>1, <1>2, <1>3, QuietProgress

LEMMA EndListingProgress ==
    ASSUME ProgressInv, EchoNext, OneCopyInv', 0 < Margin, UNCHANGED <<forges, cursor, pass>>,
           NEW p \in Jobs, pc[p] \in InRepo, NEW got, EndListing(p, got),
           \A x \in got : Current(Here(p), x, pass[p].started),
           Serious(p) => \A n \in DOMAIN src[Here(p)] :
               LastChange(Here(p), n) <= CursorAfter(pass[p].started) =>
                   Mirrored(Here(p), n) \/ \E x \in got : x.n = n
    PROVE  ProgressInv'
<1>1. TypeInv /\ pass' = [pass EXCEPT ![p] = pass[p]] /\ work[p] \in Work
    BY Frame DEF ProgressInv, EchoInv
<1>2. CASE LeaveRepo(p) /\ (got = {} \/ p \in DryJobs)
    <2>1. ASSUME Serious(p) PROVE Caught(Here(p), CursorAfter(pass[p].started))
        <3>1. got = {}
            BY <1>2, <2>1 DEF Serious
        <3> QED BY <2>1, <3>1 DEF Caught
    <2> QED BY <1>1, <1>2, <2>1, LeaveProgress
<1>3. CASE ~LeaveRepo(p)
    <2>1. PICK w : w = [work[p] EXCEPT !.batch = got, !.page = 1]
        OBVIOUS
    <2>2. w.repo = work[p].repo /\ w.batch = got
        BY <1>1, <2>1 DEF Work
    <2>3. pc' = [pc EXCEPT ![p] = "ensure"] /\ work' = [work EXCEPT ![p] = w]
        BY <1>3, <2>1 DEF EndListing
    <2>4. Seen("ensure", w, pass[p].started)
        BY <2>2 DEF Seen, OnItem, Here
    <2>5. ASSUME Serious(p) PROVE KeepsItems("ensure", w, pass[p])
        BY <2>2, <2>5 DEF KeepsItems, Covers, Here
    <2>6. KeepsHand("ensure", w, pass[p]) /\ "ensure" \in InRepo
        BY DEF KeepsHand, OnItem, InRepo
    <2>7. UNCHANGED <<clock, src, tgt, cursor, pass>>
        BY DEF forges
    <2>8. PICK l \in InRepo : l = "ensure"
        BY <2>6
    <2> QED BY <2>2, <2>3, <2>4, <2>5, <2>6, <2>7, <2>8, InsideProgress
<1>4. LeaveRepo(p) => got = {} \/ p \in DryJobs
    <2>1. pc' = [pc EXCEPT ![p] = "next"] => pc' # [pc EXCEPT ![p] = "ensure"]
        BY <1>1 DEF TypeInv, TypeOK
    <2> QED BY <2>1 DEF EndListing, LeaveRepo
<1> QED BY <1>2, <1>3, <1>4

(* All that is listed is on the first page. *)
LEMMA FirstPage ==
    ASSUME TypeInv, NEW r \in Repos, MaxItems <= PageSize, NEW since, NEW n \in Listed(r, since)
    PROVE  n \in OnPage(r, since, 1)
<1> DEFINE upto == {m \in Listed(r, since) : src[r][m].rev <= src[r][n].rev}
<1>1. /\ Len(src[r]) \in Nat /\ DOMAIN src[r] = 1..Len(src[r])
      /\ src[r][n].rev \in Nat
    BY SourceTyped DEF TypeInv, Listed, SourceItem
<1>2. IsFiniteSet(Listed(r, since))
    <2>1. IsFiniteSet(1..Len(src[r]))
        BY <1>1, FS_Interval
    <2>2. Listed(r, since) \subseteq 1..Len(src[r])
        BY <1>1 DEF Listed
    <2> QED BY <2>1, <2>2, FS_Subset
<1>3. upto \subseteq Listed(r, since) /\ n \in upto
    BY <1>1
<1>4. /\ IsFiniteSet(upto) /\ Cardinality(upto) \in Nat
      /\ Cardinality(upto) <= Cardinality(Listed(r, since)) /\ Cardinality(upto) # 0
    <2>1. IsFiniteSet(upto) /\ Cardinality(upto) <= Cardinality(Listed(r, since))
        BY <1>2, <1>3, FS_Subset
    <2>2. Cardinality(upto) # 0
        BY <1>3, <2>1, FS_EmptySet
    <2> QED BY <2>1, <2>2, FS_CardinalityType
<1>5. Cardinality(Listed(r, since)) <= 1 * PageSize /\ Cardinality(Listed(r, since)) \in Nat
    BY <1>2, OnePage, FS_CardinalityType
<1>6. (1 - 1) * PageSize < Cardinality(upto) /\ Cardinality(upto) <= 1 * PageSize
    BY <1>4, <1>5
<1> QED BY <1>6 DEF OnPage

LEMMA FreshSnap == ASSUME NEW r, NEW n, NEW t PROVE Current(r, Snap(r, n), t) /\ Snap(r, n).n = n
BY DEF Current, Snap

LEMMA ListPageProgress ==
    ASSUME ProgressInv, EchoNext, OneCopyInv', 0 < Margin, From = "github" => MaxItems <= PageSize,
           NEW p \in Jobs, ListPage(p)
    PROVE  ProgressInv'
<1>0. PICK r, since : r = Here(p) /\ since = pass[p].since
    OBVIOUS
<1> DEFINE got == work[p].batch \cup {Snap(r, n) : n \in OnPage(r, since, work[p].page)}
<1>1. /\ pc[p] = "list" /\ pc[p] \in InRepo /\ pc[p] # "idle" /\ From = "github" /\ MaxItems <= PageSize
      /\ UNCHANGED <<forges, cursor, pass>> /\ TypeInv /\ SourceTimes
    BY DEF ListPage, InRepo, ProgressInv, EchoInv
<1>2. work[p].page = 1 /\ work[p].batch = {} /\ r \in Repos
    BY <1>0, <1>1, HereTyped DEF ProgressInv, OneCopyInv, KnowsCopies
<1>3. Cardinality(Listed(r, since)) <= work[p].page * PageSize
    BY <1>1, <1>2, OnePage
<1>4. EndListing(p, got)
    BY <1>0, <1>3 DEF ListPage
<1>5. \A x \in got : Current(Here(p), x, pass[p].started)
    BY <1>0, <1>2, FreshSnap
<1>6. ASSUME Serious(p), NEW n \in DOMAIN src[r], ~Mirrored(r, n)
      PROVE  \E x \in got : x.n = n
    <2>1. ~(LastChange(r, n) <= since)
        BY <1>0, <1>1, <1>2, <1>6, Kept DEF Caught
    <2>2. /\ src[r][n].at \in Nat /\ src[r][n].noted = 0 /\ since \in Nat
        BY <1>0, <1>1, <1>2, TimesTyped, InFlight DEF SourceTimes, TypeInv
    <2>3. src[r][n].at >= since
        BY <2>1, <2>2 DEF LastChange
    <2>4. n \in OnPage(r, since, 1)
        BY <1>1, <1>2, <2>3, FirstPage DEF Listed
    <2>5. Snap(r, n) \in got
        BY <1>2, <2>4
    <2> QED BY <2>5, FreshSnap
<1> HIDE DEF got
<1> QED BY <1>0, <1>1, <1>4, <1>5, <1>6, EndListingProgress

LEMMA ListChangedProgress ==
    ASSUME ProgressInv, EchoNext, OneCopyInv', 0 < Margin, NEW p \in Jobs, ListChanged(p)
    PROVE  ProgressInv'
<1>0. PICK r, since, got : r = Here(p) /\ since = pass[p].since /\ got = {Snap(r, n) : n \in Listed(r, since)}
    OBVIOUS
<1>1. /\ pc[p] = "list" /\ pc[p] \in InRepo /\ pc[p] # "idle" /\ "events" \in InRepo \ OnItem
      /\ pc' = [pc EXCEPT ![p] = "events"] /\ work' = [work EXCEPT ![p].batch = got]
      /\ UNCHANGED <<clock, src, tgt, cursor, pass>> /\ TypeInv
    BY <1>0 DEF ListChanged, InRepo, OnItem, ProgressInv, EchoInv, forges
<1>2. r \in Repos /\ r = work[p].repo /\ work[p] \in Work
    BY <1>0, <1>1, HereTyped
<1>3. PICK w : w = [work[p] EXCEPT !.batch = got]
    OBVIOUS
<1>4. w.repo = r /\ w.batch = got /\ work' = [work EXCEPT ![p] = w]
    BY <1>1, <1>2, <1>3 DEF Work
<1>5. Seen("events", w, pass[p].started)
    BY <1>0, <1>1, <1>4, FreshSnap DEF Seen
<1>6. ASSUME Serious(p) PROVE KeepsItems("events", w, pass[p])
    <2> SUFFICES ASSUME NEW n \in DOMAIN src[r] PROVE Covers("events", w, pass[p], n)
        BY <1>4 DEF KeepsItems
    <2>1. /\ src[r][n].at \in Nat /\ src[r][n].noted \in Nat /\ since \in Nat
        BY <1>0, <1>1, <1>2, TimesTyped, InFlight DEF TypeInv
    <2>2. CASE src[r][n].at >= since
        <3>1. Snap(r, n) \in w.batch
            BY <1>0, <1>4, <2>2 DEF Listed
        <3> QED BY <3>1, FreshSnap DEF Covers
    <2>3. CASE src[r][n].noted > since
        BY <1>0, <1>4, <2>1, <2>3 DEF Covers
    <2>4. CASE src[r][n].at < since /\ src[r][n].noted <= since
        <3>1. LastChange(r, n) <= since
            BY <2>1, <2>4 DEF LastChange
        <3> QED BY <1>0, <1>1, <1>2, <1>4, <1>6, <3>1, Kept DEF Caught, Covers
    <2> QED BY <2>1, <2>2, <2>3, <2>4
<1>7. KeepsHand("events", w, pass[p])
    BY DEF KeepsHand, OnItem
<1>8. PICK l \in InRepo : l = "events"
    BY <1>1
<1> QED BY <1>1, <1>2, <1>4, <1>5, <1>6, <1>7, <1>8, InsideProgress

LEMMA DayMonotone == ASSUME NEW t \in Int, NEW u \in Int, t <= u PROVE DayOf(t) <= DayOf(u) /\ DayOf(t) \in Int
<1>1. /\ t = Day * (t \div Day) + (t % Day) /\ 0 <= t % Day /\ t % Day < Day /\ t \div Day \in Int
      /\ u = Day * (u \div Day) + (u % Day) /\ 0 <= u % Day /\ u % Day < Day /\ u \div Day \in Int
    OBVIOUS
<1> QED BY <1>1, SMTT(30) DEF DayOf

LEMMA ListEventsProgress ==
    ASSUME ProgressInv, EchoNext, OneCopyInv', 0 < Margin, From = "gitlab" => Zone <= 0,
           NEW p \in Jobs, ListEvents(p)
    PROVE  ProgressInv'
<1>0. PICK r, since, N : r = Here(p) /\ since = pass[p].since /\ N = Commented(r, since)
    OBVIOUS
<1>1. /\ pc[p] = "events" /\ pc[p] \in InRepo /\ pc[p] # "idle" /\ "fetch" \in InRepo \ OnItem
      /\ pc' = [pc EXCEPT ![p] = "fetch"] /\ work' = [work EXCEPT ![p].commented = N]
      /\ UNCHANGED <<clock, src, tgt, cursor, pass>> /\ TypeInv
    BY <1>0 DEF ListEvents, InRepo, OnItem, ProgressInv, EchoInv, forges
<1>2. r \in Repos /\ r = work[p].repo /\ work[p] \in Work
    BY <1>0, <1>1, HereTyped
<1>3. PICK w : w = [work[p] EXCEPT !.commented = N]
    OBVIOUS
<1>4. /\ w.repo = r /\ w.batch = work[p].batch /\ w.commented = N
      /\ work' = [work EXCEPT ![p] = w]
    BY <1>1, <1>2, <1>3 DEF Work
<1>5. Seen("fetch", w, pass[p].started)
    <2>1. Seen("events", work[p], pass[p].started)
        BY <1>1, InFlight
    <2> QED BY <1>1, <1>2, <1>4, <2>1 DEF Seen
<1>6. ASSUME Serious(p) PROVE KeepsItems("fetch", w, pass[p])
    <2> SUFFICES ASSUME NEW n \in DOMAIN src[r], LastChange(r, n) <= CursorAfter(pass[p].started)
                 PROVE  Covers("fetch", w, pass[p], n)
        BY <1>4 DEF KeepsItems
    <2>1. Covers("events", work[p], pass[p], n)
        BY <1>1, <1>2, <1>6, Kept DEF KeepsItems, InRepo
    <2>2. ASSUME since < src[r][n].noted PROVE n \in N
        <3>1. src[r][n].noted \in Nat /\ since \in Nat
            BY <1>0, <1>1, <1>2, TimesTyped, InFlight DEF TypeInv
        <3>0. From = "gitlab"
            <4>1. From = "github" => src[r][n].noted = 0
                BY <1>2 DEF ProgressInv, SourceTimes
            <4> QED BY <2>2, <3>1, <4>1
        <3>2. since + Zone \in Int /\ since + Zone <= src[r][n].noted /\ src[r][n].noted > 0
            BY <2>2, <3>0, <3>1
        <3>3. DayOf(since + Zone) <= DayOf(src[r][n].noted)
              /\ DayOf(since + Zone) \in Int /\ DayOf(src[r][n].noted) \in Int
            BY <3>1, <3>2, DayMonotone
        <3>4. DayOf(src[r][n].noted) > DayOf(since + Zone) - 1
            BY <3>3
        <3> QED BY <1>0, <3>2, <3>4 DEF Commented
    <2> QED BY <1>0, <1>1, <1>2, <1>4, <2>1, <2>2 DEF Covers, OnItem
<1>7. KeepsHand("fetch", w, pass[p])
    BY DEF KeepsHand, OnItem
<1>8. PICK l \in InRepo : l = "fetch"
    BY <1>1
<1> QED BY <1>1, <1>2, <1>4, <1>5, <1>6, <1>7, <1>8, InsideProgress

LEMMA FetchProgress ==
    ASSUME ProgressInv, EchoNext, OneCopyInv', 0 < Margin, NEW p \in Jobs, Fetch(p)
    PROVE  ProgressInv'
<1>0. PICK r : r = Here(p)
    OBVIOUS
<1>1. /\ pc[p] = "fetch" /\ pc[p] \in InRepo /\ pc[p] # "idle" /\ "fetch" \in InRepo \ OnItem
      /\ UNCHANGED <<forges, cursor, pass>> /\ TypeInv
    BY DEF Fetch, InRepo, OnItem, ProgressInv, EchoInv
<1>2. r \in Repos /\ r = work[p].repo /\ work[p] \in Work
    BY <1>0, <1>1, HereTyped
<1>3. Seen("fetch", work[p], pass[p].started)
    BY <1>1, InFlight
<1>4. ASSUME Serious(p), NEW n \in DOMAIN src[r], LastChange(r, n) <= CursorAfter(pass[p].started)
      PROVE  Mirrored(r, n) \/ (\E x \in work[p].batch : x.n = n) \/ n \in work[p].commented
    <2>1. Covers("fetch", work[p], pass[p], n)
        BY <1>1, <1>2, <1>4, Kept DEF KeepsItems, InRepo
    <2> QED BY <1>2, <2>1 DEF Covers, OnItem
<1>5. ASSUME NEW n \in work[p].commented, UNCHANGED pc,
             work' = [work EXCEPT ![p].commented = @ \ {n},
                        ![p].batch = @ \cup {Snap(Here(p), m) : m \in Unlisted(p, n)}]
      PROVE  ProgressInv'
    <2>1. PICK got : got = work[p].batch \cup {Snap(r, m) : m \in Unlisted(p, n)}
        OBVIOUS
    <2>2. PICK w : w = [work[p] EXCEPT !.commented = @ \ {n}, !.batch = got]
        OBVIOUS
    <2>3. w.repo = r /\ w.batch = got /\ w.commented = work[p].commented \ {n}
        BY <1>2, <2>2 DEF Work
    <2>4. work' = [work EXCEPT ![p] = w] /\ pc' = [pc EXCEPT ![p] = "fetch"]
        <3>1. work' = [work EXCEPT ![p] = w]
            BY <1>0, <1>5, <2>1, <2>2
        <3>2. pc = [pc EXCEPT ![p] = pc[p]]
            BY <1>1, Frame
        <3> QED BY <1>1, <1>5, <3>1, <3>2
    <2>5. Seen("fetch", w, pass[p].started)
        BY <1>1, <1>2, <1>3, <2>1, <2>3, FreshSnap DEF Seen
    <2>6. ASSUME Serious(p) PROVE KeepsItems("fetch", w, pass[p])
        <3> SUFFICES ASSUME NEW m \in DOMAIN src[r], LastChange(r, m) <= CursorAfter(pass[p].started)
                     PROVE  Covers("fetch", w, pass[p], m)
            BY <2>3 DEF KeepsItems
        <3>1. m = n => \E x \in got : x.n = n
            <4>1. ASSUME NEW x \in work[p].batch, x.n = n PROVE \E y \in got : y.n = n
                BY <2>1, <4>1
            <4>2. ASSUME m = n, \A x \in work[p].batch : x.n # n PROVE \E y \in got : y.n = n
                <5>1. n \in Unlisted(p, n)
                    BY <1>0, <4>2 DEF Unlisted
                <5>2. Snap(r, n) \in got
                    BY <2>1, <5>1
                <5> QED BY <5>2, FreshSnap
            <4> QED BY <4>1, <4>2
        <3>2. \A x \in work[p].batch : x \in got
            BY <2>1
        <3> QED BY <1>4, <2>3, <2>6, <3>1, <3>2 DEF Covers
    <2>7. KeepsHand("fetch", w, pass[p]) /\ UNCHANGED <<clock, src, tgt, cursor, pass>>
        BY <1>1 DEF KeepsHand, OnItem, forges
    <2>8. PICK l \in InRepo : l = "fetch"
        BY <1>1
    <2> QED BY <1>1, <1>2, <2>3, <2>4, <2>5, <2>6, <2>7, <2>8, InsideProgress
<1>6. CASE work[p].commented = {} /\ EndListing(p, work[p].batch)
    <2>1. \A x \in work[p].batch : Current(Here(p), x, pass[p].started)
        BY <1>0, <1>2, <1>3 DEF Seen
    <2> QED BY <1>0, <1>1, <1>4, <1>6, <2>1, EndListingProgress
<1> QED BY <1>5, <1>6 DEF Fetch

(* A step that prepares the target for what is listed. *)
LEMMA PrepareProgress ==
    ASSUME ProgressInv, EchoNext, OneCopyInv', 0 < Margin,
           NEW p \in Jobs, EnsureRepo(p) \/ ReadOrigins(p) \/ EnsureLabels(p)
    PROVE  ProgressInv'
<1>1. /\ pc[p] \in {"ensure", "origins", "labels"} /\ pc[p] \in InRepo /\ pc[p] # "idle"
      /\ UNCHANGED <<clock, src, tgt, cursor, pass>> /\ TypeInv
    BY DEF EnsureRepo, ReadOrigins, EnsureLabels, InRepo, ProgressInv, EchoInv, forges, people
<1>2. work[p] \in Work /\ pc = [pc EXCEPT ![p] = pc[p]] /\ work = [work EXCEPT ![p] = work[p]]
    BY <1>1, Frame
<1>3. PICK w : /\ work' = [work EXCEPT ![p] = w]
               /\ w.repo = work[p].repo /\ w.batch = work[p].batch
    <2>1. CASE UNCHANGED work
        BY <1>2, <2>1
    <2>2. CASE ReadOrigins(p)
        <3>1. PICK w : w = [work[p] EXCEPT !.origins = OriginsOf(Here(p))]
            OBVIOUS
        <3>2. w.repo = work[p].repo /\ w.batch = work[p].batch
            BY <1>2, <3>1 DEF Work
        <3>3. work' = [work EXCEPT ![p] = w]
            BY <2>2, <3>1 DEF ReadOrigins
        <3> QED BY <3>2, <3>3
    <2> QED BY <2>1, <2>2 DEF EnsureRepo, EnsureLabels
<1>4. PICK l \in {"origins", "labels", "issue"} : pc' = [pc EXCEPT ![p] = l]
    BY <1>2 DEF EnsureRepo, ReadOrigins, EnsureLabels
<1>5. l \in InRepo /\ l \notin OnItem /\ l # "list"
    BY DEF InRepo, OnItem
<1>6. Seen(l, w, pass[p].started)
    BY <1>1, <1>3, <1>5, InFlight DEF Seen
<1>7. ASSUME Serious(p) PROVE KeepsItems(l, w, pass[p])
    <2>1. KeepsItems(pc[p], work[p], pass[p]) /\ pc[p] \in InRepo \ {"list", "events", "fetch"} /\ pc[p] \notin OnItem
        BY <1>1, <1>7, Kept DEF OnItem
    <2> QED BY <1>3, <1>5, <2>1 DEF KeepsItems, Covers
<1>8. KeepsHand(l, w, pass[p])
    BY <1>5 DEF KeepsHand
<1> QED BY <1>1, <1>3, <1>4, <1>5, <1>6, <1>7, <1>8, InsideProgress

-----------------------------------------------------------------------------
(* Item by item: what is listed is written. *)

(* Run p takes snapshot b, and writes what it is about, c, as it was when listed. *)
LEMMA BeginProgress ==
    ASSUME ProgressInv, EchoNext, OneCopyInv', 0 < Margin, NEW p \in Jobs, pc[p] = "issue",
           NEW b \in work[p].batch, NEW c, NEW l \in {"close", "comments"}, Begin(p, b, c, l),
           Calm(pass[p].started), l = "close" => b.state = "closed",
           NEW r, r = Here(p),
           Serious(p) /\ b.rev = src[r][b.n].rev /\ b.state = src[r][b.n].state =>
               /\ l = "comments" => tgt'[r][c].state = b.state
               /\ src[r][b.n].mark = 0 => tgt'[r][c].rev = b.rev
    PROVE  ProgressInv'
<1>1. /\ pc[p] \in InRepo /\ pc[p] # "idle" /\ TypeInv /\ UNCHANGED <<clock, src, cursor, pass>>
      /\ l \in InRepo \ {"list"} /\ l \in OnItem
    BY DEF InRepo, OnItem, Begin, people, ProgressInv, EchoInv
<1>2. /\ r \in Repos /\ r = work[p].repo /\ work[p] \in Work /\ b.n \in DOMAIN src[r]
      /\ pass' = [pass EXCEPT ![p] = pass[p]]
    BY <1>1, HereTyped, Frame
<1>3. PICK w : w = [work[p] EXCEPT !.batch = @ \ {b}, !.item = b, !.ref = c]
    OBVIOUS
<1>4. /\ w.repo = r /\ w.batch = work[p].batch \ {b} /\ w.item = b /\ w.ref = c
    BY <1>2, <1>3 DEF Work
<1>5. work' = [work EXCEPT ![p] = w] /\ pc' = [pc EXCEPT ![p] = l]
    BY <1>3 DEF Begin
<1>6. Seen("issue", work[p], pass[p].started)
    BY <1>1, InFlight
<1>7. Current(r, b, pass[p].started)
    BY <1>2, <1>6 DEF Seen
<1>8. Seen(l, w, pass[p].started)
    BY <1>2, <1>4, <1>6, <1>7 DEF Seen
<1>9. ASSUME Serious(p) PROVE KeepsRepos(l, w, pass[p])
    <2>1. KeepsRepos("issue", work[p], pass[p])
        BY <1>9, Kept
    <2> QED BY <1>2, <1>4, <2>1 DEF KeepsRepos
<1>10. ASSUME Serious(p) PROVE KeepsItems(l, w, pass[p])
    <2>1. KeepsItems("issue", work[p], pass[p]) /\ "issue" \in InRepo \ {"list"} /\ "issue" \notin OnItem
        BY <1>10, Kept DEF InRepo, OnItem
    <2> QED BY <1>1, <1>2, <1>4, <2>1 DEF KeepsItems, Covers
<1>11. ASSUME Serious(p) PROVE KeepsHand(l, w, pass[p])'
    <2> SUFFICES ASSUME LastChange(r, b.n) <= CursorAfter(pass[p].started)
                 PROVE  Nearly(l, r, b.n, c, w.notes)'
        BY <1>1, <1>4 DEF KeepsHand, LastChange, CursorAfter, Nearly, Original, Holds
    <2>1. src[r][b.n].at < pass[p].started
        BY <1>1, <1>2, TimesTyped, InFlight DEF TypeInv
    <2>2. b.rev = src[r][b.n].rev /\ b.state = src[r][b.n].state
        <3>1. src[r][b.n].at \in Nat
            BY <1>1, <1>2, TimesTyped DEF TypeInv
        <3> QED BY <1>1, <1>7, <2>1, <3>1, InFlight DEF Current
    <2> QED BY <1>1, <1>11, <2>2 DEF Nearly
<1> QED BY <1>1, <1>2, <1>5, <1>8, <1>9, <1>10, <1>11, ProgressStep

(* A snapshot in hand is what its item still is, unless that was changed meanwhile. *)
LEMMA StillListed ==
    ASSUME ProgressInv, 0 < Margin, NEW p \in Jobs, pc[p] = "issue", NEW b \in work[p].batch, NEW r, r = Here(p),
           LastChange(r, b.n) < pass[p].started
    PROVE  b.rev = src[r][b.n].rev /\ b.state = src[r][b.n].state
<1>1. /\ pc[p] \in InRepo /\ pc[p] # "idle" /\ TypeInv
    BY DEF InRepo, ProgressInv, EchoInv
<1>2. r \in Repos /\ r = work[p].repo /\ b.n \in DOMAIN src[r]
    BY <1>1, HereTyped
<1>3. Current(r, b, pass[p].started)
    BY <1>1, <1>2, InFlight DEF Seen
<1>4. src[r][b.n].at \in Nat /\ src[r][b.n].at <= LastChange(r, b.n) /\ LastChange(r, b.n) \in Nat
    BY <1>1, <1>2, TimesTyped DEF TypeInv
<1> QED BY <1>1, <1>3, <1>4, InFlight DEF Current

LEMMA ReflectProgress ==
    ASSUME ProgressInv, EchoNext, OneCopyInv', 0 < Margin, NEW p \in Jobs, Reflect(p)
    PROVE  ProgressInv'
<1>1. PICK r : r = Here(p)
    OBVIOUS
<1>2. PICK b \in work[p].batch : /\ pc[p] = "issue" /\ b.mark # 0
                                 /\ tgt' = [tgt EXCEPT ![r][b.mark].state = b.state]
                                 /\ Begin(p, b, b.mark, "comments")
    BY <1>1 DEF Reflect, IsCopyOfTarget
<1>3. PICK i, c : i = [tgt[r][b.mark] EXCEPT !.state = b.state] /\ c = b.mark
    OBVIOUS
<1>4. tgt' = [tgt EXCEPT ![r] = [tgt[r] EXCEPT ![c] = i]] /\ UNCHANGED src
    BY <1>2, <1>3 DEF Begin, people
<1>5. TypeOK /\ EchoInv /\ CopiesBacked /\ RestoresBacked
    BY DEF ProgressInv, EchoInv, TypeInv, Backed
<1>6. /\ r \in Repos /\ b.n \in DOMAIN src[r] /\ b.mark = src[r][b.n].mark
      /\ c \in DOMAIN tgt[r]
    BY <1>1, <1>2, <1>3, <1>5, HandEcho DEF RestoresBacked
<1>7. i.mark = tgt[r][c].mark /\ i.rev = tgt[r][c].rev /\ i.state = b.state
    <2>1. tgt[r][c] \in TargetItem
        BY <1>5, <1>6, TargetTyped
    <2> QED BY <1>3, <2>1 DEF TargetItem
<1>8. Wrote(r, c, i)
    BY <1>4, <1>5, <1>6, <1>7, TargetWritten
<1>9. c \in Counterparts(r, b.n)
    BY <1>2, <1>3, <1>6 DEF Counterparts
<1>10. Calm(pass[p].started)
    <2>1. ASSUME NEW n \in DOMAIN src[r], c \in Counterparts(r, n), LastChange(r, n) < pass[p].started
          PROVE  i.state = src[r][n].state
        <3>1. n = b.n
            BY <1>5, <1>6, <1>9, <2>1, OneSource
        <3> QED BY <1>1, <1>2, <1>7, <2>1, <3>1, StillListed
    <2> QED BY <1>4, <1>6, <1>7, <1>8, <2>1, WroteCalm
<1>11. tgt'[r][c].state = b.state
    BY <1>6, <1>7, <1>8 DEF Wrote
<1>12. PICK l \in {"close", "comments"} : l = "comments" /\ Begin(p, b, c, l)
    BY <1>2, <1>3
<1>13. Serious(p) /\ b.rev = src[r][b.n].rev /\ b.state = src[r][b.n].state =>
          /\ l = "comments" => tgt'[r][c].state = b.state
          /\ src[r][b.n].mark = 0 => tgt'[r][c].rev = b.rev
    BY <1>2, <1>6, <1>11
<1>14. pc[p] = "issue" /\ (l = "close" => b.state = "closed")
    BY <1>2, <1>12
<1> QED BY <1>1, <1>10, <1>12, <1>13, <1>14, BeginProgress

LEMMA UpdateProgress ==
    ASSUME ProgressInv, EchoNext, OneCopyInv', 0 < Margin, NEW p \in Jobs, Update(p)
    PROVE  ProgressInv'
<1>1. PICK r : r = Here(p)
    OBVIOUS
<1>2. PICK b \in work[p].batch :
          /\ pc[p] = "issue" /\ b.mark = 0 /\ work[p].origins[b.n] # 0
          /\ tgt' = [tgt EXCEPT ![r][work[p].origins[b.n]] = [@ EXCEPT !.rev = b.rev, !.state = b.state]]
          /\ Begin(p, b, work[p].origins[b.n], "comments")
    BY <1>1 DEF Update, IsCopyOfTarget
<1>3. PICK c : c = work[p].origins[b.n]
    OBVIOUS
<1>4. PICK i : i = [tgt[r][c] EXCEPT !.rev = b.rev, !.state = b.state]
    OBVIOUS
<1>5. tgt' = [tgt EXCEPT ![r] = [tgt[r] EXCEPT ![c] = i]] /\ UNCHANGED src
    BY <1>2, <1>3, <1>4 DEF Begin, people
<1>6. TypeOK /\ EchoInv /\ CopiesBacked /\ RestoresBacked
    BY DEF ProgressInv, EchoInv, TypeInv, Backed
<1>7. /\ r \in Repos /\ b.n \in DOMAIN src[r] /\ b.mark = src[r][b.n].mark
      /\ c \in Copies(r, b.n)
    BY <1>1, <1>2, <1>3, <1>6, HandEcho
<1>8. c \in DOMAIN tgt[r] /\ c \in Counterparts(r, b.n)
    BY <1>2, <1>7 DEF Copies, Counterparts
<1>9. i.mark = tgt[r][c].mark /\ i.rev = b.rev /\ i.state = b.state
    BY <1>4, <1>6, <1>7, <1>8, TargetTyped DEF TargetItem
<1>10. Wrote(r, c, i)
    BY <1>5, <1>6, <1>7, <1>9, TargetWritten
<1>11. Calm(pass[p].started)
    <2>1. ASSUME NEW n \in DOMAIN src[r], c \in Counterparts(r, n), LastChange(r, n) < pass[p].started
          PROVE  i.state = src[r][n].state /\ i.rev = src[r][n].rev
        <3>1. n = b.n
            BY <1>6, <1>7, <1>8, <2>1, OneSource
        <3> QED BY <1>1, <1>2, <1>9, <2>1, <3>1, StillListed
    <2> QED BY <1>5, <1>7, <1>8, <1>10, <2>1, WroteCalm
<1>12. tgt'[r][c].state = b.state /\ tgt'[r][c].rev = b.rev
    BY <1>7, <1>8, <1>9, <1>10 DEF Wrote
<1>13. PICK l \in {"close", "comments"} : l = "comments" /\ Begin(p, b, c, l)
    BY <1>2, <1>3
<1>14. Serious(p) /\ b.rev = src[r][b.n].rev /\ b.state = src[r][b.n].state =>
          /\ l = "comments" => tgt'[r][c].state = b.state
          /\ src[r][b.n].mark = 0 => tgt'[r][c].rev = b.rev
    BY <1>12
<1>15. pc[p] = "issue" /\ (l = "close" => b.state = "closed")
    BY <1>2, <1>13
<1> QED BY <1>1, <1>11, <1>13, <1>14, <1>15, BeginProgress

LEMMA CreateProgress ==
    ASSUME ProgressInv, EchoNext, OneCopyInv', 0 < Margin, NEW p \in Jobs, Create(p)
    PROVE  ProgressInv'
<1>1. PICK r : r = Here(p)
    OBVIOUS
<1>2. PICK b \in work[p].batch :
          /\ pc[p] = "issue" /\ b.mark = 0
          /\ tgt' = [tgt EXCEPT ![r] =
                Append(@, [mark |-> b.n, rev |-> b.rev, state |-> "open", notes |-> <<>>])]
          /\ Begin(p, b, Len(tgt[r]) + 1, IF b.state = "closed" THEN "close" ELSE "comments")
    BY <1>1 DEF Create, IsCopyOfTarget
<1>3. PICK i, c : i = [mark |-> b.n, rev |-> b.rev, state |-> "open", notes |-> <<>>] /\ c = Len(tgt[r]) + 1
    OBVIOUS
<1>4. PICK l \in {"close", "comments"} : /\ Begin(p, b, c, l)
                                         /\ l = IF b.state = "closed" THEN "close" ELSE "comments"
    BY <1>2, <1>3
<1>5. tgt' = [tgt EXCEPT ![r] = Append(tgt[r], i)] /\ UNCHANGED src /\ i.rev = b.rev /\ i.state = "open"
    BY <1>2, <1>3 DEF Begin, people
<1>6. TypeOK /\ EchoInv
    BY DEF ProgressInv, EchoInv, TypeInv
<1>7. r \in Repos /\ b.n \in DOMAIN src[r]
    BY <1>1, <1>2, <1>6, HandEcho
<1>8. b.state \in States
    <2>1. work[p] \in Work
        BY <1>6 DEF TypeOK
    <2> QED BY <2>1 DEF Work, Snapshot
<1>9. Calm(pass[p].started)
    BY <1>5, <1>6, <1>7, AppendedCalm
<1>10. tgt'[r][c] = i
    <2>1. tgt \in [Repos -> Seq(TargetItem)] /\ tgt[r] \in Seq(TargetItem) /\ Len(tgt[r]) \in Nat
        BY <1>6, <1>7, TargetTyped DEF TypeOK
    <2>2. tgt'[r] = Append(tgt[r], i)
        BY <1>5, <1>7, <2>1
    <2> QED BY <1>3, <2>1, <2>2
<1>11. (l = "comments" => tgt'[r][c].state = b.state) /\ (l = "close" => b.state = "closed")
       /\ tgt'[r][c].rev = b.rev
    BY <1>4, <1>5, <1>8, <1>10 DEF States
<1>12. Serious(p) /\ b.rev = src[r][b.n].rev /\ b.state = src[r][b.n].state =>
          /\ l = "comments" => tgt'[r][c].state = b.state
          /\ src[r][b.n].mark = 0 => tgt'[r][c].rev = b.rev
    BY <1>11
<1>13. pc[p] = "issue" /\ Begin(p, b, c, l) /\ (l = "close" => b.state = "closed")
    BY <1>2, <1>4, <1>11
<1> QED BY <1>1, <1>9, <1>12, <1>13, BeginProgress

(* Run p goes on with the item in hand, and has notes N to post. *)
LEMMA InHandProgress ==
    ASSUME ProgressInv, EchoNext, OneCopyInv', 0 < Margin, NEW p \in Jobs, pc[p] \in OnItem,
           UNCHANGED <<clock, src, cursor, pass>>, Calm(pass[p].started),
           NEW l \in OnItem \ {"close"}, NEW N, pc' = [pc EXCEPT ![p] = l],
           \/ work' = [work EXCEPT ![p].notes = N]
           \/ work' = work /\ N = work[p].notes,
           NEW r, NEW n, NEW c, r = Here(p), n = work[p].item.n, c = work[p].ref,
           LastChange(r, n) < pass[p].started /\ Nearly(pc[p], r, n, c, work[p].notes) => Nearly(l, r, n, c, N)'
    PROVE  ProgressInv'
<1>1. /\ pc[p] \in InRepo /\ pc[p] # "idle" /\ TypeInv /\ l \in InRepo \ {"list"} /\ pc[p] \in InRepo \ {"list", "repos"}
    BY DEF InRepo, OnItem, ProgressInv, EchoInv
<1>2. /\ r \in Repos /\ r = work[p].repo /\ work[p] \in Work /\ n \in DOMAIN src[r]
      /\ pass' = [pass EXCEPT ![p] = pass[p]] /\ work = [work EXCEPT ![p] = work[p]]
    BY <1>1, HereTyped, Frame
<1>3. PICK w : /\ work' = [work EXCEPT ![p] = w]
               /\ w.repo = r /\ w.batch = work[p].batch /\ w.item = work[p].item /\ w.ref = c /\ w.notes = N
    <2>1. CASE work' = [work EXCEPT ![p].notes = N]
        <3>1. PICK w : w = [work[p] EXCEPT !.notes = N]
            OBVIOUS
        <3>2. /\ w.repo = r /\ w.batch = work[p].batch /\ w.item = work[p].item /\ w.ref = c /\ w.notes = N
            BY <1>2, <3>1 DEF Work
        <3>3. work' = [work EXCEPT ![p] = w]
            BY <2>1, <3>1
        <3> QED BY <3>2, <3>3
    <2>2. CASE work' = work /\ N = work[p].notes
        BY <1>2, <2>2
    <2> QED BY <2>1, <2>2
<1>4. Seen(l, w, pass[p].started)
    BY <1>1, <1>2, <1>3, InFlight DEF Seen
<1>5. ASSUME Serious(p) PROVE KeepsRepos(l, w, pass[p])
    <2>1. KeepsRepos(pc[p], work[p], pass[p])
        BY <1>1, <1>5, Kept
    <2> QED BY <1>1, <1>2, <1>3, <2>1 DEF KeepsRepos
<1>6. ASSUME Serious(p) PROVE KeepsItems(l, w, pass[p])
    <2>1. KeepsItems(pc[p], work[p], pass[p]) /\ pc[p] \notin {"events", "fetch"}
        BY <1>1, <1>6, Kept DEF OnItem
    <2> QED BY <1>1, <1>2, <1>3, <2>1 DEF KeepsItems, Covers
<1>7. ASSUME Serious(p) PROVE KeepsHand(l, w, pass[p])'
    <2> SUFFICES ASSUME LastChange(r, n) <= CursorAfter(pass[p].started)
                 PROVE  Nearly(l, r, n, c, N)'
        BY <1>3 DEF KeepsHand, LastChange, CursorAfter, Nearly, Original, Holds
    <2>1. LastChange(r, n) \in Nat
        BY <1>1, <1>2, TimesTyped DEF TypeInv
    <2>2. Nearly(pc[p], r, n, c, work[p].notes)
        BY <1>1, <1>2, <1>7, Kept DEF KeepsHand
    <2> QED BY <1>1, <2>1, <2>2, InFlight
<1>8. l # "idle"
    BY DEF OnItem
<1> QED BY <1>1, <1>2, <1>3, <1>4, <1>5, <1>6, <1>7, <1>8, ProgressStep

LEMMA CloseItemProgress ==
    ASSUME ProgressInv, EchoNext, OneCopyInv', 0 < Margin, NEW p \in Jobs, CloseItem(p)
    PROVE  ProgressInv'
<1>1. PICK r, n, c, N : r = Here(p) /\ n = work[p].item.n /\ c = work[p].ref /\ N = work[p].notes
    OBVIOUS
<1>2. PICK i : i = [tgt[r][c] EXCEPT !.state = "closed"]
    OBVIOUS
<1>3. /\ pc[p] = "close" /\ pc[p] \in OnItem /\ pc[p] # "idle"
      /\ tgt' = [tgt EXCEPT ![r] = [tgt[r] EXCEPT ![c] = i]] /\ UNCHANGED <<clock, src, cursor, pass, work>>
    BY <1>1, <1>2 DEF CloseItem, people, OnItem
<1>4. TypeOK /\ EchoInv /\ CopiesBacked /\ RestoresBacked
    BY DEF ProgressInv, EchoInv, TypeInv, Backed
<1>5. r \in Repos /\ n \in DOMAIN src[r] /\ c \in Counterparts(r, n) /\ c \in DOMAIN tgt[r] /\ r = work[p].repo
    BY <1>1, <1>3, <1>4, ItemInHand
<1>6. i.mark = tgt[r][c].mark /\ i.rev = tgt[r][c].rev /\ i.state = "closed"
    <2>1. tgt[r][c] \in TargetItem
        BY <1>4, <1>5, TargetTyped
    <2> QED BY <1>2, <2>1 DEF TargetItem
<1>7. Wrote(r, c, i)
    BY <1>3, <1>4, <1>5, <1>6, TargetWritten
<1>8. ASSUME LastChange(r, n) < pass[p].started PROVE src[r][n].state = "closed"
    <2>1. Current(r, work[p].item, pass[p].started) /\ work[p].item.state = "closed"
        BY <1>3, <1>5, InFlight DEF Seen
    <2>2. src[r][n].at \in Nat /\ src[r][n].at <= LastChange(r, n) /\ LastChange(r, n) \in Nat
        BY <1>4, <1>5, TimesTyped
    <2> QED BY <1>1, <1>3, <1>8, <2>1, <2>2, InFlight DEF Current
<1>9. Calm(pass[p].started)
    <2>1. ASSUME NEW m \in DOMAIN src[r], c \in Counterparts(r, m), LastChange(r, m) < pass[p].started
          PROVE  i.state = src[r][m].state
        <3>1. m = n
            BY <1>4, <1>5, <2>1, OneSource
        <3> QED BY <1>6, <1>8, <2>1, <3>1
    <2> QED BY <1>3, <1>5, <1>6, <1>7, <2>1, WroteCalm
<1>10. PICK l \in OnItem \ {"close"} : l = "comments"
    BY DEF OnItem
<1>11. pc' = [pc EXCEPT ![p] = l]
    BY <1>10 DEF CloseItem
<1>12. LastChange(r, n) < pass[p].started /\ Nearly(pc[p], r, n, c, N) => Nearly(l, r, n, c, N)'
    <2>1. tgt'[r][c] = i
        BY <1>5, <1>7 DEF Wrote
    <2> QED BY <1>3, <1>6, <1>8, <1>10, <2>1 DEF Nearly
<1> QED BY <1>1, <1>3, <1>9, <1>10, <1>11, <1>12, InHandProgress

(* The item in hand is done: what it was when it was last changed is in the target. *)
LEMMA ItemDoneProgress ==
    ASSUME ProgressInv, EchoNext, OneCopyInv', 0 < Margin, UNCHANGED <<clock, src, tgt, cursor, pass>>,
           NEW p \in Jobs, pc[p] \in OnItem \ {"close"}, ItemDone(p), NEW r, NEW n, NEW c,
           r = Here(p), n = work[p].item.n, c = work[p].ref,
           Nearly(pc[p], r, n, c, work[p].notes) => \A k : Original(r, n, k) => Holds(r, c, k)
    PROVE  ProgressInv'
<1>1. /\ pc[p] \in InRepo \ {"list"} /\ pc[p] # "idle" /\ pc[p] \in OnItem /\ pc[p] \notin {"close", "events", "fetch"}
      /\ "issue" \notin OnItem
    BY DEF OnItem, InRepo
<1>2. TypeInv /\ EchoInv /\ work[p] \in Work
    BY DEF ProgressInv, EchoInv, TypeInv, TypeOK
<1>3. r \in Repos /\ n \in DOMAIN src[r] /\ c \in Counterparts(r, n) /\ r = work[p].repo
    BY <1>1, <1>2, ItemInHand
<1>4. PICK w : w = [work[p] EXCEPT !.item = NoItem, !.ref = 0, !.notes = {}]
    OBVIOUS
<1>5. work' = [work EXCEPT ![p] = w] /\ w.repo = r /\ w.batch = work[p].batch
    BY <1>2, <1>3, <1>4 DEF ItemDone, Work
<1>6. PICK l \in InRepo : l = "issue"
    BY DEF InRepo
<1>7. pc' = [pc EXCEPT ![p] = l] /\ l \notin OnItem
    BY <1>1, <1>6 DEF ItemDone
<1>8. Seen(l, w, pass[p].started)
    BY <1>1, <1>3, <1>5, <1>7, <1>6, InFlight DEF Seen
<1>9. ASSUME Serious(p) PROVE KeepsItems(l, w, pass[p])
    <2>1. KeepsItems(pc[p], work[p], pass[p]) /\ KeepsHand(pc[p], work[p], pass[p])
        BY <1>1, <1>9, Kept
    <2>2. ASSUME NEW m \in DOMAIN src[r], LastChange(r, m) <= CursorAfter(pass[p].started)
          PROVE  Mirrored(r, m) \/ \E x \in work[p].batch : x.n = m
        <3>1. Covers(pc[p], work[p], pass[p], m)
            BY <1>1, <1>3, <2>1, <2>2 DEF KeepsItems
        <3>2. m = n => Mirrored(r, m)
            <4>1. ASSUME m = n PROVE Mirrored(r, n)
                <5>1. Nearly(pc[p], r, n, c, work[p].notes)
                    BY <1>1, <1>3, <2>1, <2>2, <4>1 DEF KeepsHand
                <5>2. \A k \in DOMAIN src[r][n].notes : src[r][n].notes[k] = 0 => Holds(r, c, k)
                    BY <5>1 DEF Original
                <5>3. Carries(tgt[r][c], src[r][n])
                    BY <5>2 DEF Carries, Holds
                <5> QED BY <1>1, <1>3, <5>1, <5>3 DEF Nearly, Mirrored
            <4> QED BY <4>1
        <3> QED BY <1>1, <1>3, <3>1, <3>2 DEF Covers
    <2> QED BY <1>5, <2>2 DEF KeepsItems, Covers
<1>10. KeepsHand(l, w, pass[p])
    BY <1>7 DEF KeepsHand
<1> QED BY <1>1, <1>3, <1>5, <1>6, <1>7, <1>8, <1>9, <1>10, InsideProgress

LEMMA SourceCommentsProgress ==
    ASSUME ProgressInv, EchoNext, OneCopyInv', 0 < Margin, NEW p \in Jobs, SourceComments(p)
    PROVE  ProgressInv'
<1>1. PICK r, n, c, all : /\ r = Here(p) /\ n = work[p].item.n /\ c = work[p].ref
                          /\ all = DOMAIN src[r][n].notes
    OBVIOUS
<1>2. /\ pc[p] = "comments" /\ pc[p] \in OnItem \ {"close"} /\ UNCHANGED <<clock, src, tgt, cursor, pass>>
    BY DEF SourceComments, forges, OnItem
<1>3. \A k : Original(r, n, k) => k \in all
    BY <1>1 DEF Original
<1>4. CASE all = {} /\ ItemDone(p)
    BY <1>1, <1>2, <1>3, <1>4, ItemDoneProgress
<1>5. CASE work' = [work EXCEPT ![p].notes = all] /\ pc' = [pc EXCEPT ![p] = "have"]
    <2>1. PICK l \in OnItem \ {"close"} : l = "have"
        BY DEF OnItem
    <2>2. pc' = [pc EXCEPT ![p] = l] /\ Calm(pass[p].started) /\ pc[p] \in OnItem
        BY <1>2, <1>5, <2>1, StillCalm
    <2>3. Nearly(pc[p], r, n, c, work[p].notes) => Nearly(l, r, n, c, all)'
        BY <1>2, <1>3, <2>1 DEF Nearly, Original, Holds
    <2>4. work' = [work EXCEPT ![p].notes = all] \/ (work' = work /\ all = work[p].notes)
        BY <1>5
    <2> QED BY <1>1, <1>2, <2>2, <2>3, <2>4, InHandProgress
<1> QED BY <1>1, <1>4, <1>5 DEF SourceComments

LEMMA TargetCommentsProgress ==
    ASSUME ProgressInv, EchoNext, OneCopyInv', 0 < Margin, NEW p \in Jobs, TargetComments(p)
    PROVE  ProgressInv'
<1>1. PICK r, n, c, N : /\ r = Here(p) /\ n = work[p].item.n /\ c = work[p].ref
                        /\ N = ToPost(r, n, work[p].notes, Have(r, c))
    OBVIOUS
<1>2. /\ pc[p] = "have" /\ pc[p] \in OnItem /\ UNCHANGED <<clock, src, tgt, cursor, pass>>
      /\ work' = [work EXCEPT ![p].notes = N]
    BY <1>1 DEF TargetComments, forges, OnItem
<1>3. PICK l \in OnItem \ {"close"} : l = "post"
    BY DEF OnItem
<1>4. pc' = [pc EXCEPT ![p] = l] /\ Calm(pass[p].started)
    BY <1>2, <1>3, StillCalm DEF TargetComments
<1>5. ASSUME NEW k, Original(r, n, k), k \in work[p].notes PROVE k \in N \/ Holds(r, c, k)
    <2>1. k \in Have(r, c) => Holds(r, c, k)
        BY DEF Have, Holds
    <2> QED BY <1>1, <1>5, <2>1 DEF ToPost, Original
<1>6. Nearly(pc[p], r, n, c, work[p].notes) => Nearly(l, r, n, c, N)'
    BY <1>2, <1>3, <1>5 DEF Nearly, Original, Holds
<1>7. work' = [work EXCEPT ![p].notes = N] \/ (work' = work /\ N = work[p].notes)
    BY <1>2
<1> QED BY <1>1, <1>2, <1>3, <1>4, <1>6, <1>7, InHandProgress

LEMMA LastAppended ==
    ASSUME NEW s \in Seq(Nat), NEW k \in Nat
    PROVE  \E j \in DOMAIN Append(s, k) : Append(s, k)[j] = k
<1>1. Len(s) \in Nat
    BY LenProperties
<1>2. DOMAIN Append(s, k) = 1..(Len(s) + 1) /\ Append(s, k)[Len(s) + 1] = k
    BY AppendProperties
<1>3. Len(s) + 1 \in DOMAIN Append(s, k)
    BY <1>1, <1>2
<1> QED BY <1>2, <1>3

LEMMA PostCommentProgress ==
    ASSUME ProgressInv, EchoNext, OneCopyInv', 0 < Margin, NEW p \in Jobs, PostComment(p)
    PROVE  ProgressInv'
<1>1. PICK r, n, c : r = Here(p) /\ n = work[p].item.n /\ c = work[p].ref
    OBVIOUS
<1>2. /\ pc[p] = "post" /\ pc[p] \in OnItem \ {"close"} /\ UNCHANGED <<clock, src, cursor, pass>>
    BY DEF PostComment, people, OnItem
<1>3. TypeInv /\ TypeOK /\ EchoInv
    BY DEF ProgressInv, EchoInv, TypeInv
<1>4. r \in Repos /\ n \in DOMAIN src[r] /\ c \in DOMAIN tgt[r]
    BY <1>1, <1>2, <1>3, ItemInHand
<1>5. CASE work[p].notes = {} /\ ItemDone(p) /\ UNCHANGED tgt
    <2>1. Nearly(pc[p], r, n, c, work[p].notes) => \A k : Original(r, n, k) => Holds(r, c, k)
        BY <1>2, <1>5 DEF Nearly
    <2> QED BY <1>1, <1>2, <1>5, <2>1, ItemDoneProgress
<1>6. ASSUME NEW k \in work[p].notes, tgt' = [tgt EXCEPT ![r][c].notes = Append(@, k)],
             work' = [work EXCEPT ![p].notes = @ \ {k}], UNCHANGED pc
      PROVE  ProgressInv'
    <2>1. PICK l, N : l \in OnItem \ {"close"} /\ l = pc[p] /\ N = work[p].notes \ {k}
        BY <1>2
    <2>2. /\ pc' = [pc EXCEPT ![p] = l] /\ Calm(pass[p].started)
          /\ work' = [work EXCEPT ![p].notes = N] \/ (work' = work /\ N = work[p].notes)
        BY <1>2, <1>3, <1>4, <1>6, <2>1, OwnItemCalm, Frame
    <2>3. tgt[r][c] \in TargetItem /\ tgt[r][c].notes \in Seq(Nat) /\ tgt \in [Repos -> Seq(TargetItem)]
        BY <1>3, <1>4, TargetTyped DEF TypeOK
    <2>4. /\ tgt'[r][c].state = tgt[r][c].state /\ tgt'[r][c].rev = tgt[r][c].rev
          /\ tgt'[r][c].notes = Append(tgt[r][c].notes, k)
        BY <1>4, <1>6, <2>3 DEF TargetItem
    <2>5. \A j : Holds(r, c, j) \/ j = k => Holds(r, c, j)'
        <3>1. PICK s : s = tgt[r][c].notes /\ s \in Seq(Nat) /\ tgt'[r][c].notes = Append(s, k)
            BY <2>3, <2>4
        <3>2. k \in Nat
            BY <1>3 DEF TypeOK, Work
        <3>3. Extends(s, Append(s, k))
            BY <3>1, <3>2, NoteAppended
        <3>4. \E j \in DOMAIN Append(s, k) : Append(s, k)[j] = k
            BY <3>1, <3>2, LastAppended
        <3> QED BY <3>1, <3>3, <3>4 DEF Holds, Extends
    <2>6. LastChange(r, n) < pass[p].started /\ Nearly(pc[p], r, n, c, work[p].notes) => Nearly(l, r, n, c, N)'
        BY <1>2, <2>1, <2>4, <2>5 DEF Nearly, Original
    <2>7. pc[p] \in OnItem
        BY <1>2
    <2>8. l \in OnItem \ {"close"}
        BY <2>1
    <2> QED BY <1>1, <1>2, <2>2, <2>6, <2>7, <2>8, InHandProgress
<1> QED BY <1>1, <1>5, <1>6 DEF PostComment

-----------------------------------------------------------------------------
(* The promise. *)

LEMMA NextProgress ==
    ASSUME ProgressInv, ~Overlap, 0 < Margin, Lag <= Margin, From = "github" => MaxItems <= PageSize,
           From = "gitlab" => Zone <= 0, [Next]_vars
    PROVE  /\ ProgressInv'
           /\ \A p \in Jobs : FinishRun(p) /\ Serious(p) =>
                  \A r \in Repos \ pass[p].failed : Caught(r, CursorAfter(pass[p].started))
<1>1. EchoNext /\ OneCopyInv'
    BY NextEcho, NextOneCopy DEF ProgressInv
<1>2. ASSUME UNCHANGED vars PROVE ProgressInv'
    <2>1. UNCHANGED <<clock, src, tgt, cursor, pc, pass, work>>
        BY <1>2 DEF vars
    <2>2. NothingSkipped' /\ SourceTimes' /\ RunTimes'
        BY <2>1 DEF ProgressInv, NothingSkipped, SourceTimes, RunTimes, LastChange, Mirrored, Counterparts, Carries
    <2>3. ASSUME NEW p \in Jobs PROVE OnTheWay(p)'
        <3>1. PICK l, w, s : l = pc[p] /\ w = work[p] /\ s = pass[p]
            OBVIOUS
        <3>2. Seen(l, w, s.started) /\ (Serious(p) => Keeps(l, w, s))
            BY <3>1 DEF ProgressInv, OnTheWay
        <3>3. Seen(l, w, s.started)'
            BY <2>1, <3>2 DEF Seen, Current
        <3>4. ASSUME Keeps(l, w, s) PROVE Keeps(l, w, s)'
            <4>1. KeepsRepos(l, w, s)'
                BY <2>1, <3>4 DEF Keeps, KeepsRepos, Caught, LastChange, Mirrored, Counterparts, Carries, CursorAfter
            <4>2. KeepsItems(l, w, s)'
                BY <2>1, <3>4 DEF Keeps, KeepsItems, Covers, LastChange, Mirrored, Counterparts, Carries, CursorAfter
            <4>3. KeepsHand(l, w, s)'
                BY <2>1, <3>4 DEF Keeps, KeepsHand, Nearly, LastChange, Original, Holds, CursorAfter
            <4>4. (l # "idle" => \A r \in Repos : Caught(r, s.since))'
                BY <2>1, <3>4 DEF Keeps, Caught, LastChange, Mirrored, Counterparts, Carries
            <4> QED BY <4>1, <4>2, <4>3, <4>4 DEF Keeps
        <3>5. Serious(p)' <=> Serious(p)
            BY DEF Serious, Unlimited
        <3>6. pc'[p] = l /\ work'[p] = w /\ pass'[p] = s
            BY <2>1, <3>1
        <3> QED BY <3>2, <3>3, <3>4, <3>5, <3>6, KeepsPrimed DEF OnTheWay
    <2> QED BY <1>1, <2>2, <2>3 DEF EchoNext, ProgressInv
<1>3. ASSUME Forges PROVE ProgressInv'
    BY <1>1, <1>3, ForgesProgress
<1>4. ASSUME NEW p \in Jobs, StartRun(p) PROVE ProgressInv'
    BY <1>1, <1>4, StartRunProgress
<1>5. ASSUME NEW p \in Jobs, Step(p) PROVE ProgressInv'
    <2>1. CASE FindRepos(p) \/ NextRepo(p) \/ FinishRun(p)
        BY <1>1, <2>1, FindReposProgress, NextRepoProgress, FinishRunProgress
    <2>2. CASE ListPage(p) \/ ListChanged(p) \/ ListEvents(p) \/ Fetch(p)
        BY <1>1, <2>2, ListPageProgress, ListChangedProgress, ListEventsProgress, FetchProgress
    <2>3. CASE EnsureRepo(p) \/ ReadOrigins(p) \/ EnsureLabels(p) \/ FinishRepo(p)
        BY <1>1, <2>3, PrepareProgress, FinishRepoProgress
    <2>4. CASE Reflect(p) \/ Create(p) \/ Update(p)
        BY <1>1, <2>4, ReflectProgress, CreateProgress, UpdateProgress
    <2>5. CASE CloseItem(p) \/ SourceComments(p) \/ TargetComments(p) \/ PostComment(p)
        BY <1>1, <2>5, CloseItemProgress, SourceCommentsProgress, TargetCommentsProgress, PostCommentProgress
    <2> QED BY <1>5, <2>1, <2>2, <2>3, <2>4, <2>5 DEF Step
<1>6. ASSUME NEW p \in Jobs, Fault(p) PROVE ProgressInv'
    BY <1>1, <1>6, StopProgress, FailRepoProgress DEF Fault
<1>7. ProgressInv'
    BY <1>2, <1>3, <1>4, <1>5, <1>6 DEF Next
<1> QED BY <1>1, <1>7, FinishRunProgress

(* A cursor is a promise: whatever changed up to it is in the target (cmd/mirror.go:
   103-112), through crashes, failures, dry runs and changes made while a run reads.
   One run at a time; a search index no further behind than the cursor's margin
   (cmd/cursor.go:17-23); GitHub's listing on one page; a machine whose clock face is
   not ahead of GitLab's (gitlab/source.go:90-104). *)
THEOREM NothingIsSkipped ==
    ASSUME ~Overlap, 0 < Margin, Lag <= Margin, From = "github" => MaxItems <= PageSize,
           From = "gitlab" => Zone <= 0
    PROVE  Spec => []NothingSkipped
<1>1. Init => ProgressInv
    BY InitProgress
<1>2. ProgressInv /\ [Next]_vars => ProgressInv'
    BY NextProgress
<1>3. ProgressInv => NothingSkipped
    BY DEF ProgressInv
<1> QED BY <1>1, <1>2, <1>3, PTL DEF Spec

(* Under the same conditions a run of a job without a limit leaves nothing behind that
   changed before it started, a margin apart, in the repositories that did not fail in
   it, whatever happens to the others (mirror.go:33-36): it picks up what the limited
   jobs left (cmd/cursor.go:94-97), if no limited job shares its file. *)
THEOREM DailyPassIsComplete ==
    ASSUME ~Overlap, 0 < Margin, Lag <= Margin, From = "github" => MaxItems <= PageSize,
           From = "gitlab" => Zone <= 0, \A p \in Jobs : LimitOf[p] = 0 => PathOf[p] \in Unlimited
    PROVE  Spec => DailyPassPicksUpTheRest
<1> DEFINE LeavesNothing == \A p \in Jobs \ DryJobs :
        FinishRun(p) /\ LimitOf[p] = 0 =>
            \A r \in Repos \ pass[p].failed : \A n \in DOMAIN src[r] :
                LastChange(r, n) <= CursorAfter(pass[p].started) => Mirrored(r, n)
<1>1. Init => ProgressInv
    BY InitProgress
<1>2. ProgressInv /\ [Next]_vars => ProgressInv'
    BY NextProgress
<1>3. ProgressInv /\ [Next]_vars => [LeavesNothing]_vars
    BY NextProgress DEF Serious, Caught
<1> QED BY <1>1, <1>2, <1>3, PTL DEF Spec, DailyPassPicksUpTheRest

-----------------------------------------------------------------------------
(* The copies Backup sees. *)

CopiesIn(t, n) == {c \in DOMAIN t : t[c].mark = n}

NoneSeen == [rev |-> 0, state |-> "none", notes |-> <<>>]

(* The copy of item n that is seen in a target t. *)
SeenIn(t, n) ==
    CASE CopiesIn(t, n) = {}             -> NoneSeen
      [] Cardinality(CopiesIn(t, n)) = 1 -> Shown(t[CHOOSE c \in CopiesIn(t, n) : TRUE])
      [] OTHER                           -> [rev |-> 0, state |-> "several", notes |-> <<>>]

LEMMA SeenNow ==
    /\ CopiesSeen = [r \in Repos |-> [n \in Numbers |-> SeenIn(tgt[r], n)]]
    /\ CopiesSeen' = [r \in Repos |-> [n \in Numbers |-> SeenIn(tgt'[r], n)]]
BY DEF CopiesSeen, SeenIn, Copies, CopiesIn, NoneSeen

LEMMA SeenNone == ASSUME NEW t, NEW n, CopiesIn(t, n) = {} PROVE SeenIn(t, n) = NoneSeen
BY FS_EmptySet DEF SeenIn

LEMMA SeenOne == ASSUME NEW t, NEW n, NEW c, CopiesIn(t, n) = {c} PROVE SeenIn(t, n) = Shown(t[c])
<1>1. Cardinality(CopiesIn(t, n)) = 1
    BY FS_Singleton
<1>2. (CHOOSE d \in CopiesIn(t, n) : TRUE) = c
    OBVIOUS
<1> QED BY <1>1, <1>2 DEF SeenIn

(* Item c of target r is or becomes i, and nothing else of the target changes. *)
Turned(r, c, i) ==
    /\ c \in DOMAIN tgt'[r] /\ tgt'[r][c] = i
    /\ c \in DOMAIN tgt[r] => tgt[r][c].mark = i.mark
    /\ \A q \in Repos : \A d : ~(q = r /\ d = c) =>
           /\ d \in DOMAIN tgt'[q] <=> d \in DOMAIN tgt[q]
           /\ d \in DOMAIN tgt[q] => tgt'[q][d] = tgt[q][d]

LEMMA TurnedSeen ==
    ASSUME AtMostOneCopy, AtMostOneCopy', NEW r \in Repos, NEW c, NEW i, Turned(r, c, i)
    PROVE  /\ i.mark \notin Numbers => UNCHANGED CopiesSeen
           /\ i.mark \in Numbers => CopiesSeen' = [CopiesSeen EXCEPT ![r][i.mark] = Shown(i)]
<1>0. 0 \notin Numbers
    BY DEF Numbers
<1>1. ASSUME i.mark \in Numbers PROVE SeenIn(tgt'[r], i.mark) = Shown(i)
    <2>1. CopiesIn(tgt'[r], i.mark) = {c}
        BY <1>0, <1>1 DEF CopiesIn, Turned, AtMostOneCopy
    <2>2. tgt'[r][c] = i
        BY DEF Turned
    <2> QED BY <2>1, <2>2, SeenOne
<1>2. ASSUME NEW q \in Repos, NEW n \in Numbers, ~(q = r /\ n = i.mark)
      PROVE  SeenIn(tgt'[q], n) = SeenIn(tgt[q], n)
    <2>1. CopiesIn(tgt'[q], n) = CopiesIn(tgt[q], n)
        BY <1>2 DEF CopiesIn, Turned
    <2>2. \A d \in CopiesIn(tgt[q], n) : tgt'[q][d] = tgt[q][d]
        BY <1>2 DEF CopiesIn, Turned
    <2>3. CASE CopiesIn(tgt[q], n) = {}
        BY <2>1, <2>3, SeenNone
    <2>4. CASE CopiesIn(tgt[q], n) # {}
        <3>1. PICK d : d \in CopiesIn(tgt[q], n)
            BY <2>4
        <3>2. CopiesIn(tgt[q], n) = {d}
            BY <1>0, <1>2, <3>1 DEF CopiesIn, AtMostOneCopy
        <3> QED BY <2>1, <2>2, <3>1, <3>2, SeenOne
    <2> QED BY <2>3, <2>4
<1>3. CASE i.mark \notin Numbers
    <2>1. CopiesSeen' = CopiesSeen
        BY <1>2, <1>3, SeenNow
    <2> QED BY <1>3, <2>1
<1>4. CASE i.mark \in Numbers
    <2>1. PICK m \in Numbers : m = i.mark
        BY <1>4
    <2>2. CopiesSeen' = [CopiesSeen EXCEPT ![r][m] = Shown(i)]
        <3>1. \A q \in Repos : \A n \in Numbers :
                  SeenIn(tgt'[q], n) = IF q = r /\ n = m THEN Shown(i) ELSE SeenIn(tgt[q], n)
            BY <1>1, <1>2, <2>1
        <3>2. PICK old, new : /\ old = [q \in Repos |-> [n \in Numbers |-> SeenIn(tgt[q], n)]]
                              /\ new = [q \in Repos |-> [n \in Numbers |-> SeenIn(tgt'[q], n)]]
            OBVIOUS
        <3>3. \A q \in Repos : new[q] = [old EXCEPT ![r][m] = Shown(i)][q]
            <4>1. ASSUME NEW q \in Repos, q # r PROVE new[q] = old[q]
                BY <3>1, <3>2, <4>1
            <4>2. new[r] = [old[r] EXCEPT ![m] = Shown(i)]
                BY <3>1, <3>2
            <4> QED BY <3>2, <4>1, <4>2
        <3>4. new = [old EXCEPT ![r][m] = Shown(i)]
            BY <3>2, <3>3
        <3> QED BY <3>2, <3>4, SeenNow
    <2> QED BY <1>4, <2>1, <2>2
<1> QED BY <1>3, <1>4

LEMMA TurnedWrite ==
    ASSUME TypeOK, NEW r \in Repos, NEW c \in DOMAIN tgt[r], NEW i,
           tgt' = [tgt EXCEPT ![r] = [tgt[r] EXCEPT ![c] = i]], i.mark = tgt[r][c].mark
    PROVE  Turned(r, c, i)
<1>1. Wrote(r, c, i)
    BY TargetWritten
<1> QED BY <1>1 DEF Wrote, Turned

LEMMA TurnedAppend ==
    ASSUME TypeOK, NEW r \in Repos, NEW i, tgt' = [tgt EXCEPT ![r] = Append(tgt[r], i)]
    PROVE  Turned(r, Len(tgt[r]) + 1, i)
<1>1. PICK s : s = tgt[r] /\ s \in Seq(TargetItem) /\ Len(s) \in Nat /\ DOMAIN s = 1..Len(s)
    BY TargetTyped
<1>2. tgt \in [Repos -> Seq(TargetItem)]
    BY DEF TypeOK
<1>3. tgt'[r] = Append(s, i) /\ \A q \in Repos \ {r} : tgt'[q] = tgt[q]
    BY <1>1, <1>2
<1>4. /\ DOMAIN Append(s, i) = 1..(Len(s) + 1) /\ Append(s, i)[Len(s) + 1] = i
      /\ \A d \in 1..Len(s) : Append(s, i)[d] = s[d]
    BY <1>1
<1>5. /\ Len(s) + 1 \in 1..(Len(s) + 1) /\ Len(s) + 1 \notin 1..Len(s)
      /\ \A d : d # Len(s) + 1 => (d \in 1..(Len(s) + 1) <=> d \in 1..Len(s))
    BY <1>1
<1> QED BY <1>1, <1>3, <1>4, <1>5 DEF Turned

(* Every snapshot, and every item, is of a revision that was given out. *)
Dated ==
    /\ \A r \in Repos : \A n \in DOMAIN src[r] : 1 <= src[r][n].rev
    /\ \A p \in Jobs : \A b \in work[p].batch : 1 <= b.rev

LEMMA NextDated ==
    ASSUME TypeInv, Dated, From = "github", [Next]_vars
    PROVE  Dated'
<1>0. TypeOK /\ rev \in Nat /\ src \in [Repos -> Seq(SourceItem)]
    BY DEF TypeInv, TypeOK
<1>1. ASSUME UNCHANGED src PROVE \A r \in Repos : \A n \in DOMAIN src'[r] : 1 <= src'[r][n].rev
    BY <1>1 DEF Dated
<1>2. ASSUME UNCHANGED work PROVE \A p \in Jobs : \A b \in work'[p].batch : 1 <= b.rev
    BY <1>2 DEF Dated
<1>3. CASE UNCHANGED vars \/ Forges
    <2>1. UNCHANGED work
        BY <1>0, <1>3, ForgesKinds DEF vars
    <2>2. ASSUME NEW r \in Repos, NEW n \in DOMAIN src[r], NEW i \in SourceItem, ItemTouched(r, n, i)
          PROVE  \A q \in Repos : \A m \in DOMAIN src'[q] : 1 <= src'[q][m].rev
        <3>1. src' = [src EXCEPT ![r] = [src[r] EXCEPT ![n] = i]] /\ i.rev = rev + 1
            BY <2>2 DEF ItemTouched
        <3>2. /\ \A q \in Repos : DOMAIN src'[q] = DOMAIN src[q]
              /\ \A q \in Repos : \A m \in DOMAIN src[q] : src'[q][m] = IF q = r /\ m = n THEN i ELSE src[q][m]
            BY <1>0, <3>1
        <3> QED BY <1>0, <3>1, <3>2 DEF Dated
    <2>3. ASSUME NEW r \in Repos, NEW i \in SourceItem, ItemMade(r, i)
          PROVE  \A q \in Repos : \A m \in DOMAIN src'[q] : 1 <= src'[q][m].rev
        <3>1. src' = [src EXCEPT ![r] = Append(src[r], i)] /\ i.rev = rev + 1
            BY <2>3 DEF ItemMade
        <3>2. /\ src'[r] = Append(src[r], i) /\ \A q \in Repos \ {r} : src'[q] = src[q]
              /\ DOMAIN src[r] = 1..Len(src[r]) /\ Len(src[r]) \in Nat /\ src[r] \in Seq(SourceItem)
            BY <1>0, <3>1, LenProperties
        <3>3. /\ DOMAIN src'[r] = 1..(Len(src[r]) + 1)
              /\ \A m \in 1..Len(src[r]) : src'[r][m] = src[r][m]
              /\ src'[r][Len(src[r]) + 1] = i
            BY <3>2
        <3>4. \A q \in Repos : \A m \in DOMAIN src'[q] : (m \in DOMAIN src[q] /\ src'[q][m] = src[q][m]) \/ src'[q][m] = i
            BY <3>2, <3>3
        <3> QED BY <1>0, <3>1, <3>4 DEF Dated
    <2>4. \A q \in Repos : \A m \in DOMAIN src'[q] : 1 <= src'[q][m].rev
        BY <1>1, <1>3, <2>2, <2>3, ForgesKinds DEF vars, TargetWorked
    <2> QED BY <1>2, <2>1, <2>4 DEF Dated
<1>4. ASSUME NEW p \in Jobs, StartRun(p) \/ Step(p) \/ Fault(p) PROVE Dated'
    <2>1. UNCHANGED src /\ \A q \in Jobs \ {p} : work'[q] = work[q]
        <3>1. CASE StartRun(p)
            BY <3>1 DEF StartRun, forges
        <3> QED BY <1>4, <3>1, StepAlone DEF MovesAlone
    <2>2. \A b \in work'[p].batch : 1 <= b.rev
        BY <1>4, BatchSteps, SnapFields DEF Shrinks, Lists, Dated
    <2> QED BY <1>1, <2>1, <2>2 DEF Dated
<1> QED BY <1>3, <1>4 DEF Next

-----------------------------------------------------------------------------
(* Step by step: what Backup sees of a step of Mirror. *)

PromiseStill == \A f \in Unlimited : cursor'[f] = cursor[f]

LEMMA SourceParts ==
    /\ DOMAIN SourceSeen = Repos
    /\ \A r \in Repos : DOMAIN SourceSeen[r] = DOMAIN src[r]
    /\ \A r \in Repos : \A n \in DOMAIN src[r] :
           /\ SourceSeen[r][n].rev = src[r][n].rev
           /\ SourceSeen[r][n].at = LastChange(r, n)
           /\ SourceSeen[r][n].state = src[r][n].state
           /\ SourceSeen[r][n].own = (src[r][n].mark = 0)
           /\ SourceSeen[r][n].notes = [k \in DOMAIN src[r][n].notes |-> src[r][n].notes[k] = 0]
BY DEF SourceSeen

(* What leaves the copies and the promises alone is the people's. *)
LEMMA PeopleStep ==
    ASSUME SourceForward, SourceGrows, UNCHANGED CopiesSeen, PromiseStill
    PROVE  Promised!People
<1>1. /\ \A r \in Repos : DOMAIN SourceSeen'[r] = DOMAIN src'[r]
      /\ \A r \in Repos : \A n \in DOMAIN src'[r] :
             SourceSeen'[r][n].rev = src'[r][n].rev /\ DOMAIN SourceSeen'[r][n].notes = DOMAIN src'[r][n].notes
    BY DEF SourceSeen
<1>2. /\ \A r \in Repos : DOMAIN SourceSeen[r] = DOMAIN src[r]
      /\ \A r \in Repos : \A n \in DOMAIN src[r] :
             SourceSeen[r][n].rev = src[r][n].rev /\ DOMAIN SourceSeen[r][n].notes = DOMAIN src[r][n].notes
    BY DEF SourceSeen
<1>3. \A r \in Repos : \A n \in DOMAIN src[r] :
          /\ n \in DOMAIN src'[r] /\ src[r][n].rev <= src'[r][n].rev
          /\ \A k \in DOMAIN src[r][n].notes : k \in DOMAIN src'[r][n].notes
    BY DEF SourceForward, SourceGrows, Extends
<1>4. [f \in Unlimited |-> cursor[f]]' = [f \in Unlimited |-> cursor[f]]
    BY DEF PromiseStill, Unlimited
<1> QED BY <1>1, <1>2, <1>3, <1>4 DEF Promised!People

LEMMA WriteStep ==
    ASSUME UNCHANGED src, PromiseStill, NEW r \in Repos, NEW n \in DOMAIN src[r], src[r][n].mark = 0,
           NEW copy, CopiesSeen' = [CopiesSeen EXCEPT ![r][n] = copy]
    PROVE  Promised!Write(r, n, copy)
<1>1. n \in DOMAIN SourceSeen[r] /\ SourceSeen[r][n].own
    BY DEF SourceSeen
<1>2. SourceSeen' = SourceSeen
    BY DEF SourceSeen, LastChange
<1>3. [f \in Unlimited |-> cursor[f]]' = [f \in Unlimited |-> cursor[f]]
    BY DEF PromiseStill, Unlimited
<1> QED BY <1>1, <1>2, <1>3 DEF Promised!Write

(* Item c of target r was and is a copy of an item of the source's own, and became i. *)
CopyEdited(r, c, i) == \E n \in DOMAIN src[r] :
    /\ n = tgt[r][c].mark /\ n # 0 /\ src[r][n].mark = 0
    /\ CopiesSeen[r][n] = Shown(tgt[r][c])
    /\ CopiesSeen' = [CopiesSeen EXCEPT ![r][n] = Shown(i)]

(* An item of the target that is edited is a copy Backup sees, or none it knows of. *)
LEMMA EditSeen ==
    ASSUME TypeInv, CopiesBacked, AtMostOneCopy, AtMostOneCopy',
           NEW r \in Repos, NEW c \in DOMAIN tgt[r], NEW i,
           tgt' = [tgt EXCEPT ![r] = [tgt[r] EXCEPT ![c] = i]], i.mark = tgt[r][c].mark
    PROVE  UNCHANGED CopiesSeen \/ CopyEdited(r, c, i)
<1>1. Turned(r, c, i)
    BY TurnedWrite DEF TypeInv
<1>2. CASE i.mark \notin Numbers
    BY <1>1, <1>2, TurnedSeen
<1>3. CASE i.mark \in Numbers
    <2>1. PICK n \in Numbers : n = i.mark
        BY <1>3
    <2>2. n # 0 /\ n \in DOMAIN src[r] /\ src[r][n].mark = 0
        BY <2>1 DEF Numbers, CopiesBacked
    <2>3. CopiesIn(tgt[r], n) = {c}
        BY <2>1, <2>2 DEF CopiesIn, AtMostOneCopy
    <2>4. CopiesSeen[r][n] = Shown(tgt[r][c])
        BY <2>3, SeenOne, SeenNow
    <2>5. CopiesSeen' = [CopiesSeen EXCEPT ![r][n] = Shown(i)]
        BY <1>1, <2>1, TurnedSeen
    <2> QED BY <2>1, <2>2, <2>4, <2>5 DEF CopyEdited
<1> QED BY <1>2, <1>3

LEMMA ShownTyped ==
    ASSUME NEW i \in TargetItem
    PROVE  /\ Shown(i).rev = i.rev /\ Shown(i).state = i.state /\ Shown(i).notes = i.notes
           /\ Shown(i) # NoneSeen
<1>1. i.state # "none"
    BY DEF TargetItem, States
<1> QED BY <1>1 DEF Shown, NoneSeen

LEMMA NoCopyIs == Promised!NoCopy = NoneSeen
BY DEF Promised!NoCopy, NoneSeen

(* An item of the target becomes i: it gets another revision of the item it is a copy
   of, or another state. *)
LEMMA RefreshStep ==
    ASSUME TypeInv, CopiesBacked, AtMostOneCopy, AtMostOneCopy', UNCHANGED src, PromiseStill,
           NEW r \in Repos, NEW c \in DOMAIN tgt[r], NEW i,
           tgt' = [tgt EXCEPT ![r] = [tgt[r] EXCEPT ![c] = i]],
           i.mark = tgt[r][c].mark, i.notes = tgt[r][c].notes, i.rev \in Nat, i.state \in States,
           tgt[r][c].mark # 0 => tgt[r][c].rev <= i.rev /\ i.rev <= src[r][tgt[r][c].mark].rev
    PROVE  Promised!People \/ \E n \in DOMAIN SourceSeen[r] : Promised!Refresh(r, n)
<1>1. PICK old, v, s : old = tgt[r][c] /\ v = i.rev /\ s = i.state
    OBVIOUS
<1>2. old \in TargetItem
    BY <1>1, TargetTyped DEF TypeInv
<1>3. CASE UNCHANGED CopiesSeen
    BY <1>3, Unmoved, SourceKept, PeopleStep DEF TypeInv
<1>4. ASSUME NEW n \in DOMAIN src[r], n = old.mark, n # 0, src[r][n].mark = 0,
             CopiesSeen[r][n] = Shown(old), CopiesSeen' = [CopiesSeen EXCEPT ![r][n] = Shown(i)]
      PROVE  \E m \in DOMAIN SourceSeen[r] : Promised!Refresh(r, m)
    <2>1. n \in DOMAIN SourceSeen[r] /\ SourceSeen[r][n].rev = src[r][n].rev
        BY SourceParts
    <2>2. CopiesSeen[r][n].rev = old.rev /\ CopiesSeen[r][n] # Promised!NoCopy
        BY <1>2, <1>4, ShownTyped, NoCopyIs
    <2>3. [CopiesSeen[r][n] EXCEPT !.rev = v, !.state = s] = Shown(i)
        <3>1. PICK x : x = Shown(old) /\ x = [rev |-> old.rev, state |-> old.state, notes |-> old.notes]
            BY DEF Shown
        <3>2. Shown(i) = [rev |-> v, state |-> s, notes |-> old.notes]
            BY <1>1 DEF Shown
        <3>3. [x EXCEPT !.rev = v, !.state = s] = [[x EXCEPT !.rev = v] EXCEPT !.state = s]
            OBVIOUS
        <3>4. [x EXCEPT !.rev = v] = [rev |-> v, state |-> old.state, notes |-> old.notes]
            BY <3>1
        <3>5. PICK y : y = [rev |-> v, state |-> old.state, notes |-> old.notes]
            OBVIOUS
        <3>6. [y EXCEPT !.state = s] = [rev |-> v, state |-> s, notes |-> old.notes]
            BY <3>5
        <3>7. [x EXCEPT !.rev = v, !.state = s] = [rev |-> v, state |-> s, notes |-> old.notes]
            BY <3>3, <3>4, <3>5, <3>6
        <3> QED BY <1>4, <3>1, <3>2, <3>7
    <2>4. Promised!Write(r, n, [CopiesSeen[r][n] EXCEPT !.rev = v, !.state = s])
        BY <1>4, <2>3, WriteStep
    <2>5. v \in (CopiesSeen[r][n].rev)..(SourceSeen[r][n].rev)
        <3>1. src[r][n] \in SourceItem
            BY SourceTyped DEF TypeInv
        <3>2. src[r][n].rev \in Nat
            BY <3>1 DEF SourceItem
        <3>3. old.rev \in Nat
            BY <1>2 DEF TargetItem
        <3>4. v \in Nat
            BY <1>1
        <3> QED BY <1>1, <1>4, <2>1, <2>2, <3>2, <3>3, <3>4
    <2>6. s \in {"open", "closed"}
        BY <1>1 DEF States
    <2> QED BY <2>1, <2>2, <2>4, <2>5, <2>6 DEF Promised!Refresh
<1>5. UNCHANGED CopiesSeen \/ CopyEdited(r, c, i)
    BY EditSeen
<1> QED BY <1>1, <1>3, <1>4, <1>5 DEF CopyEdited

(* An item of the target gets a note: 0, or the next of the item it is a copy of. *)
LEMMA CommentStep ==
    ASSUME TypeInv, CopiesBacked, AtMostOneCopy, AtMostOneCopy', UNCHANGED src, PromiseStill,
           NEW r \in Repos, NEW c \in DOMAIN tgt[r], NEW k \in Nat,
           tgt' = [tgt EXCEPT ![r][c].notes = Append(@, k)],
           k # 0 => /\ \A j \in DOMAIN tgt[r][c].notes : tgt[r][c].notes[j] < k
                    /\ tgt[r][c].mark # 0 => Original(r, tgt[r][c].mark, k)
    PROVE  Promised!People \/ \E n \in DOMAIN SourceSeen[r] : Promised!Comment(r, n)
<1>1. PICK old, i : old = tgt[r][c] /\ i = [old EXCEPT !.notes = Append(@, k)]
    OBVIOUS
<1>2. old \in TargetItem
    BY <1>1, TargetTyped DEF TypeInv
<1>3. i.mark = old.mark /\ tgt' = [tgt EXCEPT ![r] = [tgt[r] EXCEPT ![c] = i]]
    BY <1>1, <1>2 DEF TargetItem
<1>4. CASE UNCHANGED CopiesSeen
    BY <1>4, Unmoved, SourceKept, PeopleStep DEF TypeInv
<1>5. ASSUME NEW n \in DOMAIN src[r], n = old.mark, n # 0, src[r][n].mark = 0,
             CopiesSeen[r][n] = Shown(old), CopiesSeen' = [CopiesSeen EXCEPT ![r][n] = Shown(i)]
      PROVE  \E m \in DOMAIN SourceSeen[r] : Promised!Comment(r, m)
    <2>1. /\ n \in DOMAIN SourceSeen[r]
          /\ SourceSeen[r][n].notes = [j \in DOMAIN src[r][n].notes |-> src[r][n].notes[j] = 0]
        BY SourceParts
    <2>2. CopiesSeen[r][n].notes = old.notes /\ CopiesSeen[r][n] # Promised!NoCopy
        BY <1>2, <1>5, ShownTyped, NoCopyIs
    <2>3. [CopiesSeen[r][n] EXCEPT !.notes = Append(@, k)] = Shown(i)
        <3>1. PICK x : x = Shown(old) /\ x = [rev |-> old.rev, state |-> old.state, notes |-> old.notes]
            BY DEF Shown
        <3>2. i.rev = old.rev /\ i.state = old.state /\ i.notes = Append(old.notes, k)
            BY <1>1, <1>2 DEF TargetItem
        <3>3. Shown(i) = [rev |-> old.rev, state |-> old.state, notes |-> Append(old.notes, k)]
            BY <3>2 DEF Shown
        <3>4. [x EXCEPT !.notes = Append(@, k)] = [rev |-> old.rev, state |-> old.state, notes |-> Append(old.notes, k)]
            <4>1. PICK d : d = Append(old.notes, k)
                OBVIOUS
            <4>2. x.notes = old.notes
                BY <3>1
            <4>3. PICK a, b : a = old.rev /\ b = old.state
                OBVIOUS
            <4>4. x = [rev |-> a, state |-> b, notes |-> old.notes]
                BY <3>1, <4>3
            <4>5. [x EXCEPT !.notes = d] = [rev |-> a, state |-> b, notes |-> d]
                BY <4>4
            <4> QED BY <4>1, <4>2, <4>3, <4>5
        <3> QED BY <1>5, <3>1, <3>3, <3>4
    <2>4. Promised!Write(r, n, [CopiesSeen[r][n] EXCEPT !.notes = Append(@, k)])
        BY <1>5, <2>3, WriteStep
    <2>5. /\ Len(SourceSeen[r][n].notes) \in Nat
          /\ DOMAIN src[r][n].notes = 1..Len(SourceSeen[r][n].notes)
        <3>1. PICK ns \in Seq(Nat) : ns = src[r][n].notes
            BY SourceTyped DEF TypeInv
        <3>2. DOMAIN ns = 1..Len(ns) /\ Len(ns) \in Nat
            BY LenProperties
        <3>3. DOMAIN [j \in DOMAIN ns |-> ns[j] = 0] = 1..Len(ns)
            BY <3>2
        <3>4. Len([j \in DOMAIN ns |-> ns[j] = 0]) = Len(ns)
            <4>1. [j \in DOMAIN ns |-> ns[j] = 0] = [j \in 1..Len(ns) |-> ns[j] = 0]
                BY <3>2
            <4>2. Len([j \in 1..Len(ns) |-> ns[j] = 0]) = Len(ns)
                BY <3>2
            <4> QED BY <4>1, <4>2
        <3> QED BY <2>1, <3>1, <3>2, <3>4
    <2>6. k # 0 => /\ SourceSeen[r][n].notes[k]
                   /\ \A j \in DOMAIN CopiesSeen[r][n].notes : CopiesSeen[r][n].notes[j] < k
        <3>1. k # 0 => k \in DOMAIN src[r][n].notes /\ src[r][n].notes[k] = 0
            BY <1>1, <1>5 DEF Original
        <3>2. k # 0 => SourceSeen[r][n].notes[k]
            BY <2>1, <3>1
        <3> QED BY <1>1, <2>2, <3>2
    <2>7. k \in 0..Len(SourceSeen[r][n].notes)
        BY <1>1, <1>5, <2>5 DEF Original
    <2> QED BY <2>1, <2>2, <2>4, <2>6, <2>7 DEF Promised!Comment
<1>6. UNCHANGED CopiesSeen \/ CopyEdited(r, c, i)
    <2>1. i.mark = tgt[r][c].mark
        BY <1>1, <1>3
    <2> QED BY <1>3, <2>1, EditSeen
<1> QED BY <1>1, <1>4, <1>5, <1>6 DEF CopyEdited

(* A position is recorded up to which everything is in the target. *)
LEMMA PromiseStep ==
    ASSUME TypeInv, AtMostOneCopy, UNCHANGED <<src, tgt>>, NEW f \in Unlimited, NEW t,
           cursor' = [cursor EXCEPT ![f] = t], \A r \in Repos : Caught(r, t)
    PROVE  Promised!Promise(f, t) /\ [g \in Unlimited |-> cursor[g]]'[f] = t
<1>1. ASSUME NEW r \in Repos, NEW n \in DOMAIN src[r], src[r][n].mark = 0, LastChange(r, n) <= t
      PROVE  Promised!UpToDate(r, n)
    <2>1. PICK c \in Counterparts(r, n) :
              /\ tgt[r][c].state = src[r][n].state
              /\ tgt[r][c].rev = src[r][n].rev
              /\ Carries(tgt[r][c], src[r][n])
        BY <1>1 DEF Caught, Mirrored
    <2>2. n \in Numbers /\ n # 0
        BY SourceTyped DEF TypeInv, Placed, Numbers
    <2>3. CopiesIn(tgt[r], n) = {c}
        BY <1>1, <2>1, <2>2 DEF CopiesIn, Counterparts, AtMostOneCopy
    <2>4. CopiesSeen[r][n] = Shown(tgt[r][c])
        BY <2>2, <2>3, SeenOne, SeenNow
    <2>5. /\ CopiesSeen[r][n].rev = src[r][n].rev /\ CopiesSeen[r][n].state = src[r][n].state
          /\ CopiesSeen[r][n].notes = tgt[r][c].notes
        BY <2>1, <2>4 DEF Shown
    <2>6. /\ SourceSeen[r][n].rev = src[r][n].rev /\ SourceSeen[r][n].state = src[r][n].state
          /\ SourceSeen[r][n].notes = [k \in DOMAIN src[r][n].notes |-> src[r][n].notes[k] = 0]
        BY SourceParts
    <2>7. \A k \in DOMAIN SourceSeen[r][n].notes : SourceSeen[r][n].notes[k] =>
              \E j \in DOMAIN CopiesSeen[r][n].notes : CopiesSeen[r][n].notes[j] = k
        <3>1. PICK notes, seen, own : /\ notes = src[r][n].notes /\ seen = CopiesSeen[r][n].notes
                                      /\ own = SourceSeen[r][n].notes
            OBVIOUS
        <3>2. own = [k \in DOMAIN notes |-> notes[k] = 0]
            BY <2>6, <3>1
        <3>3. \A k \in DOMAIN own : k \in DOMAIN notes /\ (own[k] => notes[k] = 0)
            BY <3>2
        <3>4. \A k \in DOMAIN notes : notes[k] = 0 => \E j \in DOMAIN seen : seen[j] = k
            BY <2>1, <2>5, <3>1 DEF Carries
        <3> QED BY <3>1, <3>3, <3>4
    <2> QED BY <2>5, <2>6, <2>7 DEF Promised!UpToDate
<1>2. \A r \in Repos : \A n \in DOMAIN SourceSeen[r] :
          SourceSeen[r][n].own /\ SourceSeen[r][n].at <= t => Promised!UpToDate(r, n)
    <2> SUFFICES ASSUME NEW r \in Repos, NEW n \in DOMAIN SourceSeen[r],
                        SourceSeen[r][n].own, SourceSeen[r][n].at <= t
                 PROVE  Promised!UpToDate(r, n)
        OBVIOUS
    <2>1. n \in DOMAIN src[r]
        BY SourceParts
    <2>2. SourceSeen[r][n].own = (src[r][n].mark = 0) /\ SourceSeen[r][n].at = LastChange(r, n)
        BY <2>1, SourceParts
    <2>3. src[r][n].mark = 0 /\ LastChange(r, n) <= t
        BY <2>2
    <2> QED BY <1>1, <2>1, <2>3
<1>3. f \in Paths /\ cursor \in [Paths -> Nat]
    BY DEF Unlimited, TypeInv, TypeOK
<1>4. [g \in Unlimited |-> cursor[g]]' = [[g \in Unlimited |-> cursor[g]] EXCEPT ![f] = t]
    <2>1. \A g \in Unlimited : cursor'[g] = IF g = f THEN t ELSE cursor[g]
        BY <1>3 DEF Unlimited
    <2>2. Unlimited' = Unlimited
        BY DEF Unlimited
    <2> QED BY <2>1, <2>2
<1>5. SourceSeen' = SourceSeen
    BY DEF SourceSeen, LastChange
<1>6. CopiesSeen' = CopiesSeen
    BY SeenNow
<1> QED BY <1>2, <1>4, <1>5, <1>6 DEF Promised!Promise

LEMMA PromiseKeptStep ==
    ASSUME TypeInv, UNCHANGED <<src, tgt>>, PromiseStill
    PROVE  Promised!People
BY SeenNow, Unmoved, SourceKept, PeopleStep DEF TypeInv

-----------------------------------------------------------------------------
(* The refinement. *)

BackupInv == ProgressInv /\ RevInv /\ OrderInv /\ Dated

LEMMA InitBackup == 0 < Margin /\ Init => BackupInv
BY InitProgress, InitRevs, InitOrder DEF BackupInv, Dated, Init, NoWork

LEMMA BackupParts ==
    ASSUME BackupInv
    PROVE  /\ TypeInv /\ TypeOK /\ EchoInv /\ AtMostOneCopy /\ CopiesBacked /\ RestoresBacked
           /\ SourceTimes /\ RevsBounded /\ CopiesBehind
           /\ \A p \in Jobs : Between(work[p].repo, work[p].batch)
BY DEF BackupInv, ProgressInv, RevInv, OneCopyInv, EchoInv, TypeInv, Backed

LEMMA BackupNext ==
    ASSUME BackupInv'
    PROVE  AtMostOneCopy'
BY DEF BackupInv, ProgressInv, OneCopyInv

LEMMA NextBackup ==
    ASSUME BackupInv, AllNotesListed, ~Overlap, From = "github", MaxItems <= PageSize, 0 < Margin,
           Lag <= Margin, [Next]_vars
    PROVE  BackupInv'
BY NextProgress, NextRevs, NextOrder, NextDated, BackupParts DEF BackupInv

(* The steps of Backup. *)
Recorded(f) == Promised!Promise(f, cursor'[f])

BackupStep ==
    \/ Promised!People
    \/ \E r \in Repos : \E n \in DOMAIN SourceSeen[r] :
           Promised!Make(r, n) \/ Promised!Refresh(r, n) \/ Promised!Comment(r, n)
    \/ \E f \in Unlimited : Promised!Promise(f, 0) \/ Recorded(f)

LEMMA CreateStep ==
    ASSUME BackupInv, BackupInv', NEW p \in Jobs, Create(p)
    PROVE  BackupStep
<1>1. PICK r : r = Here(p)
    OBVIOUS
<1>2. PICK b \in work[p].batch :
          /\ pc[p] = "issue" /\ b.mark = 0
          /\ tgt' = [tgt EXCEPT ![r] =
                Append(@, [mark |-> b.n, rev |-> b.rev, state |-> "open", notes |-> <<>>])]
          /\ UNCHANGED <<src, cursor>>
    BY <1>1 DEF Create, IsCopyOfTarget, Begin, people
<1>3. PICK i, c : i = [mark |-> b.n, rev |-> b.rev, state |-> "open", notes |-> <<>>] /\ c = Len(tgt[r]) + 1
    OBVIOUS
<1>4. r \in Repos /\ r = work[p].repo /\ b.n \in DOMAIN src[r] /\ b.n \in Numbers /\ src[r][b.n].mark = 0
    BY <1>1, <1>2, BackupParts, HandEcho
<1>5. Turned(r, c, i) /\ i.mark = b.n
    BY <1>2, <1>3, <1>4, BackupParts, TurnedAppend
<1>6. CopiesSeen' = [CopiesSeen EXCEPT ![r][b.n] = Shown(i)]
    BY <1>4, <1>5, BackupParts, BackupNext, TurnedSeen
<1>7. CopiesSeen[r][b.n] = Promised!NoCopy
    <2>1. c \notin DOMAIN tgt[r]
        <3>1. PICK s : s = tgt[r] /\ Len(s) \in Nat /\ DOMAIN s = 1..Len(s)
            BY <1>4, BackupParts, TargetTyped
        <3> QED BY <1>3, <3>1
    <2>2. b.n # 0
        BY <1>4 DEF Numbers
    <2>3. CopiesIn(tgt[r], b.n) = {}
        <3> SUFFICES ASSUME NEW d \in DOMAIN tgt[r], tgt[r][d].mark = b.n PROVE FALSE
            BY DEF CopiesIn
        <3>1. d # c /\ d \in DOMAIN tgt'[r] /\ tgt'[r][d] = tgt[r][d]
            BY <1>4, <1>5, <2>1 DEF Turned
        <3>2. c \in DOMAIN tgt'[r] /\ tgt'[r][c].mark = b.n
            BY <1>5 DEF Turned
        <3> QED BY <1>4, <2>2, <3>1, <3>2, BackupNext DEF AtMostOneCopy
    <2> QED BY <1>4, <2>3, SeenNone, SeenNow, NoCopyIs
<1>8. Promised!Write(r, b.n, [rev |-> b.rev, state |-> "open", notes |-> <<>>])
    <2>1. Shown(i) = [rev |-> b.rev, state |-> "open", notes |-> <<>>]
        BY <1>3 DEF Shown
    <2> QED BY <1>2, <1>4, <1>6, <2>1, WriteStep DEF PromiseStill
<1>9. b.rev \in 1..(SourceSeen[r][b.n].rev)
    <2>1. 1 <= b.rev /\ b.rev <= src[r][b.n].rev
        BY <1>4, BackupParts DEF BackupInv, Dated, Between
    <2>2. b.rev \in Nat
        <3>1. work[p] \in Work
            BY BackupParts DEF TypeOK
        <3> QED BY <3>1 DEF Work, Snapshot
    <2>3. src[r][b.n].rev \in Nat
        BY <1>4, BackupParts, SourceTyped DEF SourceItem
    <2>4. SourceSeen[r][b.n].rev = src[r][b.n].rev
        BY <1>4, SourceParts
    <2> QED BY <2>1, <2>2, <2>3, <2>4
<1>10. Promised!Make(r, b.n)
    BY <1>7, <1>8, <1>9 DEF Promised!Make
<1> QED BY <1>4, <1>10, SourceParts DEF BackupStep

LEMMA UpdateStep ==
    ASSUME BackupInv, BackupInv', NEW p \in Jobs, Update(p)
    PROVE  BackupStep
<1>1. PICK r : r = Here(p)
    OBVIOUS
<1>2. PICK b \in work[p].batch :
          /\ pc[p] = "issue" /\ b.mark = 0 /\ work[p].origins[b.n] # 0
          /\ tgt' = [tgt EXCEPT ![r][work[p].origins[b.n]] = [@ EXCEPT !.rev = b.rev, !.state = b.state]]
          /\ UNCHANGED <<src, cursor>>
    BY <1>1 DEF Update, IsCopyOfTarget, Begin, people
<1>3. PICK c : c = work[p].origins[b.n]
    OBVIOUS
<1>4. PICK i : i = [tgt[r][c] EXCEPT !.rev = b.rev, !.state = b.state]
    OBVIOUS
<1>5. tgt' = [tgt EXCEPT ![r] = [tgt[r] EXCEPT ![c] = i]]
    BY <1>2, <1>3, <1>4
<1>6. r \in Repos /\ r = work[p].repo /\ c \in Copies(r, b.n)
    BY <1>1, <1>2, <1>3, BackupParts, HandEcho
<1>7. c \in DOMAIN tgt[r] /\ tgt[r][c].mark = b.n
    BY <1>6 DEF Copies
<1>8. i.mark = tgt[r][c].mark /\ i.rev = b.rev /\ i.state = b.state /\ i.notes = tgt[r][c].notes
    BY <1>4, <1>6, <1>7, BackupParts, TargetTyped DEF TargetItem
<1>9. i.rev \in Nat /\ i.state \in States
    <2>1. work[p] \in Work
        BY BackupParts DEF TypeOK
    <2> QED BY <1>8, <2>1 DEF Work, Snapshot
<1>10. tgt[r][c].rev <= i.rev /\ i.rev <= src[r][tgt[r][c].mark].rev
    BY <1>6, <1>7, <1>8, BackupParts DEF Between
<1>11. Promised!People \/ \E n \in DOMAIN SourceSeen[r] : Promised!Refresh(r, n)
    BY <1>2, <1>5, <1>6, <1>7, <1>8, <1>9, <1>10, BackupParts, BackupNext, RefreshStep DEF PromiseStill
<1> QED BY <1>6, <1>11 DEF BackupStep

(* Setting the state of an item of the target, and nothing else. *)
LEMMA StateStep ==
    ASSUME BackupInv, BackupInv', UNCHANGED <<src, cursor>>, NEW r \in Repos, NEW c \in DOMAIN tgt[r],
           NEW s \in States, tgt' = [tgt EXCEPT ![r][c].state = s]
    PROVE  BackupStep
<1>1. PICK i : i = [tgt[r][c] EXCEPT !.state = s]
    OBVIOUS
<1>2. tgt' = [tgt EXCEPT ![r] = [tgt[r] EXCEPT ![c] = i]]
    BY <1>1
<1>3. tgt[r][c] \in TargetItem
    BY BackupParts, TargetTyped
<1>4. i.mark = tgt[r][c].mark /\ i.rev = tgt[r][c].rev /\ i.state = s /\ i.notes = tgt[r][c].notes
    BY <1>1, <1>3 DEF TargetItem
<1>5. i.rev \in Nat /\ i.state \in States
    BY <1>3, <1>4 DEF TargetItem
<1>6. tgt[r][c].mark # 0 => tgt[r][c].rev <= i.rev /\ i.rev <= src[r][tgt[r][c].mark].rev
    <2>1. tgt[r][c].rev <= i.rev
        BY <1>4, <1>5
    <2> QED BY <1>4, <2>1, BackupParts DEF CopiesBehind
<1>7. Promised!People \/ \E n \in DOMAIN SourceSeen[r] : Promised!Refresh(r, n)
    BY <1>2, <1>4, <1>5, <1>6, BackupParts, BackupNext, RefreshStep DEF PromiseStill
<1> QED BY <1>7 DEF BackupStep

LEMMA ReflectStep ==
    ASSUME BackupInv, BackupInv', NEW p \in Jobs, Reflect(p)
    PROVE  BackupStep
<1>1. PICK r : r = Here(p)
    OBVIOUS
<1>2. PICK b \in work[p].batch : /\ pc[p] = "issue" /\ b.mark # 0
                                 /\ tgt' = [tgt EXCEPT ![r][b.mark].state = b.state]
                                 /\ UNCHANGED <<src, cursor>>
    BY <1>1 DEF Reflect, IsCopyOfTarget, Begin, people
<1>3. r \in Repos /\ b.mark \in DOMAIN tgt[r]
    BY <1>1, <1>2, BackupParts, HandEcho DEF RestoresBacked
<1>4. b.state \in States
    <2>1. work[p] \in Work
        BY BackupParts DEF TypeOK
    <2> QED BY <2>1 DEF Work, Snapshot
<1> QED BY <1>2, <1>3, <1>4, StateStep

LEMMA CloseStep ==
    ASSUME BackupInv, BackupInv', NEW p \in Jobs, CloseItem(p)
    PROVE  BackupStep
<1>1. PICK r, c : r = Here(p) /\ c = work[p].ref
    OBVIOUS
<1>2. /\ pc[p] \in OnItem /\ tgt' = [tgt EXCEPT ![r][c].state = "closed"]
      /\ UNCHANGED <<src, cursor>>
    BY <1>1 DEF CloseItem, people, OnItem
<1>3. r \in Repos /\ c \in DOMAIN tgt[r]
    BY <1>1, <1>2, BackupParts, ItemInHand
<1> QED BY <1>2, <1>3, StateStep DEF States

LEMMA KeptStep ==
    ASSUME BackupInv, UNCHANGED <<src, tgt>>, PromiseStill
    PROVE  BackupStep
BY BackupParts, PromiseKeptStep DEF BackupStep

LEMMA PostStep ==
    ASSUME BackupInv, BackupInv', From = "github", NEW p \in Jobs, PostComment(p)
    PROVE  BackupStep
<1>1. PICK r, c : r = Here(p) /\ c = work[p].ref
    OBVIOUS
<1>2. pc[p] = "post" /\ pc[p] \in OnItem /\ UNCHANGED <<src, cursor>>
    BY DEF PostComment, people, OnItem
<1>3. r \in Repos /\ c \in DOMAIN tgt[r]
    BY <1>1, <1>2, BackupParts, ItemInHand
<1>4. CASE UNCHANGED tgt
    BY <1>2, <1>4, KeptStep DEF PromiseStill
<1>5. ASSUME NEW k \in work[p].notes, IsNext(k, work[p].notes), tgt' = [tgt EXCEPT ![r][c].notes = Append(@, k)]
      PROVE  BackupStep
    <2>1. Posts(p, r, c, k)
        BY <1>1, <1>2, <1>5 DEF Posts
    <2>2. \A j \in DOMAIN tgt[r][c].notes : tgt[r][c].notes[j] < k
        BY <2>1, PostedNext DEF BackupInv
    <2>3. PICK m : m = work[p].item.n
        OBVIOUS
    <2>4. m \in DOMAIN src[r] /\ c \in Counterparts(r, m) /\ Original(r, m, k)
        BY <2>1, <2>3, BackupParts, PostsOriginal
    <2>5. tgt[r][c].mark # 0 => Original(r, tgt[r][c].mark, k)
        <3>1. CASE src[r][m].mark = 0
            BY <2>4, <3>1 DEF Counterparts
        <3>2. CASE src[r][m].mark # 0
            BY <1>3, <2>4, <3>2, BackupParts DEF Counterparts, RestoresBacked
        <3> QED BY <3>1, <3>2
    <2>6. k \in Nat
        <3>1. work[p] \in Work
            BY BackupParts DEF TypeOK
        <3> QED BY <3>1 DEF Work
    <2>7. Promised!People \/ \E n \in DOMAIN SourceSeen[r] : Promised!Comment(r, n)
        BY <1>2, <1>3, <1>5, <2>2, <2>5, <2>6, BackupParts, BackupNext, CommentStep DEF PromiseStill
    <2> QED BY <1>3, <2>7 DEF BackupStep
<1> QED BY <1>1, <1>4, <1>5 DEF PostComment

LEMMA ForgesStep ==
    ASSUME BackupInv, BackupInv', Forges
    PROVE  BackupStep
<1>1. SourceForward /\ SourceGrows
    BY BackupParts, ForgesForward, ForgesAdds DEF Adds
<1>2. ASSUME PromiseStill, UNCHANGED tgt PROVE BackupStep
    <2>1. UNCHANGED CopiesSeen
        BY <1>2, SeenNow
    <2> QED BY <1>1, <1>2, <2>1, PeopleStep DEF BackupStep
<1>3. ASSUME NEW r \in Repos, OwnItem(r) PROVE BackupStep
    <2>1. PICK i : i = [mark |-> 0, rev |-> 0, state |-> "open", notes |-> <<>>]
        OBVIOUS
    <2>2. tgt' = [tgt EXCEPT ![r] = Append(tgt[r], i)] /\ UNCHANGED cursor
        BY <1>3, <2>1 DEF OwnItem, jobs
    <2>3. Turned(r, Len(tgt[r]) + 1, i) /\ i.mark \notin Numbers
        <3>1. Turned(r, Len(tgt[r]) + 1, i)
            BY <2>2, BackupParts, TurnedAppend
        <3> QED BY <2>1, <3>1 DEF Numbers
    <2>4. UNCHANGED CopiesSeen
        BY <2>3, BackupParts, BackupNext, TurnedSeen
    <2> QED BY <1>1, <2>2, <2>4, PeopleStep DEF BackupStep, PromiseStill
<1>4. ASSUME NEW r \in Repos, NEW c \in DOMAIN tgt[r], OwnNote(r, c) PROVE BackupStep
    <2>1. tgt' = [tgt EXCEPT ![r][c].notes = Append(@, 0)] /\ UNCHANGED <<src, cursor>>
        BY <1>4 DEF OwnNote, jobs
    <2>2. Promised!People \/ \E n \in DOMAIN SourceSeen[r] : Promised!Comment(r, n)
        BY <2>1, BackupParts, BackupNext, CommentStep DEF PromiseStill
    <2> QED BY <2>2 DEF BackupStep
<1>5. ASSUME NEW f \in Paths, LoseCursor(f) PROVE BackupStep
    <2>1. cursor' = [cursor EXCEPT ![f] = 0] /\ UNCHANGED <<src, tgt>>
        BY <1>5 DEF LoseCursor, forges
    <2>2. CASE f \in Unlimited
        <3>1. \A r \in Repos : Caught(r, 0)
            BY BackupParts, NothingBefore
        <3>2. Promised!Promise(f, 0)
            BY <2>1, <2>2, <3>1, BackupParts, PromiseStep
        <3> QED BY <2>2, <3>2 DEF BackupStep
    <2>3. CASE f \notin Unlimited
        <3>1. PromiseStill
            <4>1. cursor \in [Paths -> Nat]
                BY BackupParts DEF TypeOK
            <4> QED BY <2>1, <2>3, <4>1 DEF PromiseStill, Unlimited
        <3> QED BY <2>1, <3>1, KeptStep
    <2> QED BY <2>2, <2>3
<1>6. (\E f \in Paths : LoseCursor(f)) \/ (UNCHANGED cursor)
    <2>1. ASSUME NEW r, NEW items, Change(r, items) PROVE UNCHANGED cursor
        BY <2>1 DEF Change, jobs
    <2>2. ASSUME NEW r, NEW n, NEW k, Comment(r, n, k) PROVE UNCHANGED cursor
        BY <2>1, <2>2 DEF Comment
    <2>3. ASSUME NEW r, NEW n, NewItem(r) \/ EditItem(r, n) \/ CommentItem(r, n) \/ RestoredNote(r, n)
                              \/ RestoredItem(r, n)
          PROVE  UNCHANGED cursor
        BY <2>1, <2>2, <2>3 DEF NewItem, EditItem, CommentItem, RestoredNote, RestoredItem
    <2>4. ASSUME NEW r, NEW c, OwnItem(r) \/ OwnNote(r, c) PROVE UNCHANGED cursor
        BY <2>4 DEF OwnItem, OwnNote, jobs
    <2>5. Tick => UNCHANGED cursor
        BY DEF Tick, jobs
    <2> QED BY <2>3, <2>4, <2>5 DEF Forges
<1> QED BY <1>2, <1>3, <1>4, <1>5, <1>6, ForgesSteps DEF PromiseStill

LEMMA FinishStep ==
    ASSUME BackupInv, ~Overlap, From = "github", MaxItems <= PageSize, 0 < Margin, Lag <= Margin,
           NEW p \in Jobs, FinishRun(p)
    PROVE  BackupStep
<1>1. UNCHANGED <<src, tgt>>
    BY DEF FinishRun, forges
<1>2. CASE UNCHANGED cursor
    BY <1>1, <1>2, KeptStep DEF PromiseStill
<1>3. ASSUME Clean(p), cursor' = [cursor EXCEPT ![PathOf[p]] = CursorAfter(pass[p].started)] PROVE BackupStep
    <2>1. PICK f, t : f = PathOf[p] /\ t = CursorAfter(pass[p].started) /\ f \in Paths
        OBVIOUS
    <2>2. cursor' = [cursor EXCEPT ![f] = t]
        BY <1>3, <2>1
    <2>3. CASE f \in Unlimited
        <3>1. Serious(p)
            BY <1>3, <2>1, <2>3 DEF Serious, Clean
        <3>2. [Next]_vars /\ ProgressInv
            BY DEF Next, Step, BackupInv
        <3>3. \A r \in Repos : Caught(r, t)
            BY <1>3, <2>1, <3>1, <3>2, NextProgress DEF Clean
        <3>4. Promised!Promise(f, t) /\ [g \in Unlimited |-> cursor[g]]'[f] = t
            BY <1>1, <2>2, <2>3, <3>3, BackupParts, PromiseStep
        <3>5. cursor'[f] = t
            BY <2>1, <2>2, BackupParts DEF TypeOK
        <3>6. Recorded(f)
            BY <3>4, <3>5 DEF Recorded, Promised!Promise
        <3> QED BY <2>3, <3>6 DEF BackupStep
    <2>4. CASE f \notin Unlimited
        <3>1. PromiseStill
            <4>1. cursor \in [Paths -> Nat]
                BY BackupParts DEF TypeOK
            <4> QED BY <2>2, <2>4, <4>1 DEF PromiseStill, Unlimited
        <3> QED BY <1>1, <3>1, KeptStep
    <2> QED BY <2>3, <2>4
<1> QED BY <1>2, <1>3 DEF FinishRun

(* The rest of a run reads, prepares or gives up. *)
LEMMA QuietStep ==
    ASSUME NEW p \in Jobs,
           \/ StartRun(p) \/ FindRepos(p) \/ NextRepo(p) \/ ListPage(p) \/ ListChanged(p) \/ ListEvents(p)
           \/ Fetch(p) \/ EnsureRepo(p) \/ ReadOrigins(p) \/ EnsureLabels(p)
           \/ SourceComments(p) \/ TargetComments(p) \/ FinishRepo(p) \/ Fault(p)
    PROVE  UNCHANGED <<src, tgt, cursor>>
BY DEF StartRun, FindRepos, NextRepo, ListPage, ListChanged, ListEvents, Fetch, EnsureRepo, ReadOrigins,
       EnsureLabels, SourceComments, TargetComments, FinishRepo, Fault, FailRun, FailRepo, Crash, forges, people

LEMMA StepsBackup ==
    ASSUME BackupInv, BackupInv', ~Overlap, From = "github", MaxItems <= PageSize, 0 < Margin, Lag <= Margin,
           [Next]_vars
    PROVE  BackupStep
<1>1. CASE UNCHANGED vars
    BY <1>1, KeptStep DEF vars, PromiseStill
<1>2. CASE Forges
    BY <1>2, ForgesStep
<1>3. ASSUME NEW p \in Jobs, StartRun(p) \/ Step(p) \/ Fault(p) PROVE BackupStep
    <2>1. CASE FinishRun(p)
        BY <2>1, FinishStep
    <2>2. CASE Reflect(p) \/ Create(p) \/ CloseItem(p) \/ Update(p) \/ PostComment(p)
        BY <2>2, ReflectStep, CreateStep, CloseStep, UpdateStep, PostStep
    <2>3. ASSUME UNCHANGED <<src, tgt, cursor>> PROVE BackupStep
        BY <2>3, KeptStep DEF PromiseStill
    <2> QED BY <1>3, <2>1, <2>2, <2>3, QuietStep DEF Step
<1> QED BY <1>1, <1>2, <1>3 DEF Next

LEMMA StepsAreBackups == ASSUME BackupStep PROVE Promised!Next
<1>1. CASE Promised!People \/ \E r \in Repos : \E n \in DOMAIN SourceSeen[r] :
               Promised!Make(r, n) \/ Promised!Refresh(r, n) \/ Promised!Comment(r, n)
    BY <1>1 DEF Promised!Next
<1>2. ASSUME NEW f \in Unlimited, Promised!Promise(f, 0) PROVE Promised!Next
    BY <1>2 DEF Promised!Next
<1>3. ASSUME NEW g \in Unlimited, Recorded(g) PROVE Promised!Next
    <2>1. [f \in Unlimited |-> cursor[f]]'[g] = cursor'[g]
        BY DEF Unlimited
    <2> QED BY <1>3, <2>1 DEF Recorded, Promised!Next, Promised!Promise
<1> QED BY <1>1, <1>2, <1>3 DEF BackupStep

LEMMA InitSeen == Init => Promised!Init
<1> SUFFICES ASSUME Init PROVE Promised!Init
    OBVIOUS
<1>1. SourceSeen = [r \in Repos |-> <<>>]
    BY DEF Init, SourceSeen
<1>2. CopiesSeen = [r \in Repos |-> [n \in Numbers |-> Promised!NoCopy]]
    <2>1. \A r \in Repos : \A n \in Numbers : SeenIn(tgt[r], n) = Promised!NoCopy
        BY SeenNone, NoCopyIs DEF Init, CopiesIn
    <2> QED BY <2>1, SeenNow
<1>3. [f \in Unlimited |-> cursor[f]] = [f \in Unlimited |-> 0]
    BY DEF Init, Unlimited
<1> QED BY <1>1, <1>2, <1>3 DEF Promised!Init

(* The mirror implements the backup it promises (README.md:26-32, 58-66): seen from
   outside, whatever runs, faults and people do is people's work, or one copy of an item
   made, brought forward or given its next comment, or a position recorded up to which
   everything is copied.  One run at a time, from GitHub, whose listing fits on a page;
   a search index no further behind than the margin; no item with more comments than a
   run reads (gitlab/gitlab.go:522-546). *)
THEOREM BackupImplemented ==
    ASSUME ~Overlap, From = "github", MaxItems <= PageSize, 0 < Margin, Lag <= Margin
    PROVE  Spec /\ []AllNotesListed => ImplementsBackup
<1>1. Init => BackupInv /\ Promised!Init
    BY InitBackup, InitSeen
<1>2. BackupInv /\ AllNotesListed /\ [Next]_vars => BackupInv'
    BY NextBackup
<1>3. BackupInv /\ BackupInv' /\ [Next]_vars => [Promised!Next]_(Promised!vars)
    BY StepsBackup, StepsAreBackups
<1> QED BY <1>1, <1>2, <1>3, PTL DEF Spec, ImplementsBackup, Promised!Spec

=============================================================================
