------------------------------- MODULE Mirror -------------------------------
(***************************************************************************)
(* forge-mirror: jobs that copy the issues and pull requests of a source   *)
(* forge to a target forge, again and again, while people keep writing on  *)
(* both: a mirror (from GitHub to GitLab) or a restore (back).  Names      *)
(* follow the Go code; an action is one call on a forge (or one step       *)
(* between two calls) of mirror/mirror.go and of the adapters it drives.   *)
(*                                                                         *)
(* An item is an issue or a pull request; its number is its index in the   *)
(* repository.  Titles, bodies and labels are one revision number: what a  *)
(* copy shows is the revision it was rendered from.  A comment is a note,  *)
(* named by its position; a note of one side that carries a marker holds   *)
(* the name of the note of the other side it copies, any other note is 0.  *)
(***************************************************************************)
EXTENDS Integers, Sequences, FiniteSets

CONSTANTS
    Jobs,        \* scheduled invocations of `forge-mirror mirror` (CronJobs)
    DryJobs,     \* those configured with dryRun
    LimitOf,     \* config `since` of each job: how far back it may look, 0 is no limit
    Paths,       \* cursor files
    PathOf,      \* config `statePath` of each job
    Overlap,     \* may two runs be in flight at once
    Repos,
    NoRepo,
    PageSize,    \* items on a page of the source's listing
    NotesPage,   \* notes the target's listing of comments returns, the newest ones
    From,        \* the source: "github" when mirroring, "gitlab" when restoring
    Day,         \* instants in a day
    Zone,        \* how far the machine's clock face is ahead of the one GitLab has
    Margin,      \* cursorMargin
    Lag,         \* how far the source's search index may be behind
    Start,       \* the clock at the beginning
    MaxClock,    \* bound: the last instant modelled
    MaxItems,    \* bound: items in a source repository
    MaxRev       \* bound: changes made by people and by the restore

ASSUME JobsAssumption ==
    /\ DryJobs \subseteq Jobs
    /\ LimitOf \in [Jobs -> Nat]
    /\ PathOf \in [Jobs -> Paths]
    /\ Overlap \in BOOLEAN
    /\ From \in {"github", "gitlab"}
    /\ NoRepo \notin Repos
ASSUME BoundsAssumption ==
    /\ PageSize \in Nat \ {0}
    /\ NotesPage \in Nat \ {0}
    /\ MaxClock \in Nat /\ MaxItems \in Nat /\ MaxRev \in Nat
(* Instants are so far from the zero time that no window reaches back to it. *)
ASSUME TimeAssumption ==
    /\ Day \in Nat \ {0} /\ Zone \in Int
    /\ Margin \in Nat /\ Lag \in Nat /\ Start \in Nat
    /\ Margin < Start
    /\ \A p \in Jobs : LimitOf[p] < Start

VARIABLES
    clock,    \* the time both forges and the job's machine agree on
    rev,      \* the last revision given out
    src,      \* src[r]: the items of the source repository r, by number
    tgt,      \* tgt[r]: the items of the target repository r, by number
    project,  \* the repositories that exist in the target
    labels,   \* labels[r]: labels the target repository knows (item n carries label n)
    cursor,   \* cursor[f]: the lastRun recorded in file f, 0 when there is none
    pc,       \* pc[p]: where job p is
    pass,     \* pass[p]: what a run keeps for all its repositories
    work      \* work[p]: what it keeps for the repository it is in

forges == <<clock, rev, src, tgt, project, labels>>
people == <<clock, rev, src>>
vars == <<clock, rev, src, tgt, project, labels, cursor, pc, pass, work>>

States == {"open", "closed"}
Numbers == 1..MaxItems

(* One element of the slice Issues returns: an item as it was when listed. *)
Snapshot == [n : Nat, rev : Nat, state : States, mark : Nat]
NoItem == [n |-> 0, rev |-> 0, state |-> "open", mark |-> 0]

NoWork == [repo |-> NoRepo, page |-> 1, batch |-> {}, origins |-> [n \in Numbers |-> 0],
           commented |-> {}, item |-> NoItem, ref |-> 0, notes |-> {}]
NoPass == [started |-> 0, since |-> 0, failed |-> {}, todo |-> {}]

Init ==
    /\ clock = Start
    /\ rev = 0
    /\ src = [r \in Repos |-> <<>>]
    /\ tgt = [r \in Repos |-> <<>>]
    /\ project = {}
    /\ labels = [r \in Repos |-> {}]
    /\ cursor = [f \in Paths |-> 0]
    /\ pc = [p \in Jobs |-> "idle"]
    /\ pass = [p \in Jobs |-> NoPass]
    /\ work = [p \in Jobs |-> NoWork]

-----------------------------------------------------------------------------
(* The forges: people, and what restores of the other direction left behind. *)

jobs == <<cursor, pc, pass, work>>

Tick ==
    /\ clock < MaxClock
    /\ clock' = clock + 1
    /\ UNCHANGED <<rev, src, tgt, project, labels, jobs>>

(* A change of the source: a new revision, and `updated_at` is now.  The last
   changes are made early enough for the search index to show them. *)
Change(r, items) ==
    /\ rev < MaxRev
    /\ clock + Lag <= MaxClock
    /\ rev' = rev + 1
    /\ src' = [src EXCEPT ![r] = items]
    /\ UNCHANGED <<clock, tgt, project, labels, jobs>>

Fresh(state, mark) == [rev |-> rev + 1, at |-> clock, noted |-> 0, state |-> state,
                       mark |-> mark, notes |-> <<>>]

NewItem(r) ==
    /\ Len(src[r]) < MaxItems
    /\ Change(r, Append(src[r], Fresh("open", 0)))

EditItem(r, n) == \E s \in States :
    Change(r, [src[r] EXCEPT ![n] = [@ EXCEPT !.rev = rev + 1, !.at = clock, !.state = s]])

(* A comment, 0 when a person wrote it.  On GitHub it is a change of the item it is
   on; on GitLab it is not, and only the list of events knows of it. *)
Comment(r, n, k) ==
    Change(r, [src[r] EXCEPT ![n] =
        IF From = "github"
        THEN [src[r][n] EXCEPT !.rev = rev + 1, !.at = clock, !.notes = Append(@, k)]
        ELSE [src[r][n] EXCEPT !.noted = clock, !.notes = Append(@, k)]])

CommentItem(r, n) == Comment(r, n, 0)

(* An earlier run the other way made an item of the source from the target's own
   item c. *)
RestoredItem(r, c) ==
    /\ Len(src[r]) < MaxItems
    /\ tgt[r][c].mark = 0
    /\ \A n \in DOMAIN src[r] : src[r][n].mark # c
    /\ Change(r, Append(src[r], Fresh(tgt[r][c].state, c)))

(* The item of the target that is about the same thing as item n of the source. *)
Counterparts(r, n) == {c \in DOMAIN tgt[r] :
    IF src[r][n].mark = 0 THEN tgt[r][c].mark = n ELSE c = src[r][n].mark}

(* An earlier run the other way carried note k that somebody wrote in the target. *)
RestoredNote(r, n) == \E c \in Counterparts(r, n) : \E k \in DOMAIN tgt[r][c].notes :
    /\ tgt[r][c].notes[k] = 0
    /\ \A j \in DOMAIN src[r][n].notes : src[r][n].notes[j] # k
    /\ Comment(r, n, k)

(* People write in the target as well: items of their own, and notes on any item. *)
OwnItem(r) ==
    /\ rev < MaxRev
    /\ rev' = rev + 1
    /\ tgt' = [tgt EXCEPT ![r] = Append(@, [mark |-> 0, rev |-> 0, state |-> "open", notes |-> <<>>])]
    /\ project' = project \cup {r}
    /\ UNCHANGED <<clock, src, labels, jobs>>

OwnNote(r, c) ==
    /\ rev < MaxRev
    /\ rev' = rev + 1
    /\ tgt' = [tgt EXCEPT ![r][c].notes = Append(@, 0)]
    /\ UNCHANGED <<clock, src, project, labels, jobs>>

(* The state directory is lost, or holds something that cannot be read. *)
LoseCursor(f) ==
    /\ cursor[f] # 0
    /\ cursor' = [cursor EXCEPT ![f] = 0]
    /\ UNCHANGED <<forges, pc, pass, work>>

-----------------------------------------------------------------------------
(* A run, and which repositories it looks at. *)

(* Mutant: no limit taken for a limit of nothing. *)
SinceForNoLimitIsNow(now, limit, at) == IF at > now - limit THEN at ELSE now - limit

(* cmd/cursor.go sinceFor: `at` is what readCursor found. *)
SinceFor(now, limit, at) ==
    LET window == IF limit > 0 THEN now - limit ELSE 0
    IN  IF at > window THEN at ELSE window

StartRun(p) ==
    /\ pc[p] = "idle"
    /\ Overlap \/ \A q \in Jobs : pc[q] = "idle"
    /\ pass' = [pass EXCEPT ![p] = [NoPass EXCEPT !.started = clock,
                    !.since = SinceFor(clock, LimitOf[p], cursor[PathOf[p]])]]
    /\ pc' = [pc EXCEPT ![p] = "repos"]
    /\ UNCHANGED <<forges, cursor, work>>

(* The search index: every change after `since` that is old enough to be indexed
   is in, one that is younger may be. *)
Discovered(since) ==
    LET Changed(until) == {r \in Repos : \E n \in DOMAIN src[r] :
                                            since < src[r][n].at /\ src[r][n].at <= until}
    IN  {D \in SUBSET Changed(clock) : Changed(clock - Lag) \subseteq D}

(* The source names the repositories that changed, or has no usable answer (no
   cursor yet, named repositories, a search that failed, GitLab) and all are taken. *)
FindRepos(p) ==
    /\ pc[p] = "repos"
    /\ \/ pass' = [pass EXCEPT ![p].todo = Repos]
       \/ /\ From = "github" /\ pass[p].since > 0
          /\ \E D \in Discovered(pass[p].since) : pass' = [pass EXCEPT ![p].todo = D]
    /\ pc' = [pc EXCEPT ![p] = "next"]
    /\ UNCHANGED <<forges, cursor, work>>

NextRepo(p) == \E r \in pass[p].todo :
    /\ pc[p] = "next"
    /\ pass' = [pass EXCEPT ![p].todo = @ \ {r}]
    /\ work' = [work EXCEPT ![p].repo = r]
    /\ pc' = [pc EXCEPT ![p] = "list"]
    /\ UNCHANGED <<forges, cursor>>

(* Mutant: a dry run moves the cursor. *)
CleanEvenIfDry(p) == pass[p].failed = {}

(* May the cursor move past what this run read? *)
Clean(p) == pass[p].failed = {} /\ p \notin DryJobs

(* Mutants: no margin; a margin in the wrong unit. *)
CursorAtStart(started) == started
CursorAfterMinutes(started) == started - 60 * Margin

CursorAfter(started) == started - Margin

(* The cursor file is replaced as a whole, or writing it fails and it stays. *)
FinishRun(p) ==
    /\ pc[p] = "next" /\ pass[p].todo = {}
    /\ cursor' \in {cursor} \cup
         (IF Clean(p) THEN {[cursor EXCEPT ![PathOf[p]] = CursorAfter(pass[p].started)]} ELSE {})
    /\ pc' = [pc EXCEPT ![p] = "idle"]
    /\ pass' = [pass EXCEPT ![p] = NoPass]
    /\ UNCHANGED <<forges, work>>

-----------------------------------------------------------------------------
(* One repository: list, prepare the target, then item by item. *)

Here(p) == work[p].repo

LeaveRepo(p) ==
    /\ work' = [work EXCEPT ![p] = NoWork]
    /\ pc' = [pc EXCEPT ![p] = "next"]

(* Items changed at or after `since`; they are sorted by update, that is by rev. *)
Listed(r, since) == {n \in DOMAIN src[r] : src[r][n].at >= since}

(* Page `page` of that listing as it is now. *)
OnPage(r, since, page) ==
    {n \in Listed(r, since) :
        LET rank == Cardinality({m \in Listed(r, since) : src[r][m].rev <= src[r][n].rev})
        IN  (page - 1) * PageSize < rank /\ rank <= page * PageSize}

Snap(r, n) == [n |-> n, rev |-> src[r][n].rev, state |-> src[r][n].state, mark |-> src[r][n].mark]

(* What was listed is worth a look at the target, unless it is nothing or this is a
   dry run. *)
EndListing(p, got) ==
    \/ /\ got = {} \/ p \in DryJobs
       /\ LeaveRepo(p)
    \/ /\ got # {} /\ p \notin DryJobs
       /\ work' = [work EXCEPT ![p].batch = got, ![p].page = 1]
       /\ pc' = [pc EXCEPT ![p] = "ensure"]

(* One page of GitHub's listing. *)
ListPage(p) ==
    LET r     == Here(p)
        since == pass[p].since
        got   == work[p].batch \cup {Snap(r, n) : n \in OnPage(r, since, work[p].page)}
        last  == Cardinality(Listed(r, since)) <= work[p].page * PageSize
    IN  /\ pc[p] = "list" /\ From = "github"
        /\ \/ /\ ~last
              /\ work' = [work EXCEPT ![p].batch = got, ![p].page = @ + 1]
              /\ UNCHANGED pc
           \/ last /\ EndListing(p, got)
        /\ UNCHANGED <<forges, cursor, pass>>

(* GitLab's listings are in the order of creation, which no edit disturbs. *)
ListChanged(p) ==
    /\ pc[p] = "list" /\ From = "gitlab"
    /\ work' = [work EXCEPT ![p].batch =
                   {Snap(Here(p), n) : n \in Listed(Here(p), pass[p].since)}]
    /\ pc' = [pc EXCEPT ![p] = "events"]
    /\ UNCHANGED <<forges, cursor, pass>>

DayOf(t) == t \div Day

(* Mutant: the day itself is asked for, which GitLab excludes. *)
CommentedAfterTheDay(r, since) == {n \in DOMAIN src[r] :
    src[r][n].noted > 0 /\ (since > 0 => DayOf(src[r][n].noted) > DayOf(since + Zone))}

(* Items with a comment event after the day before `since`.  That day is read off
   the machine's clock face and taken by GitLab for one of its own. *)
Commented(r, since) == {n \in DOMAIN src[r] :
    src[r][n].noted > 0 /\ (since > 0 => DayOf(src[r][n].noted) > DayOf(since + Zone) - 1)}

ListEvents(p) ==
    /\ pc[p] = "events"
    /\ work' = [work EXCEPT ![p].commented = Commented(Here(p), pass[p].since)]
    /\ pc' = [pc EXCEPT ![p] = "fetch"]
    /\ UNCHANGED <<forges, cursor, pass>>

(* Nothing when it is listed already, or not there any more. *)
Unlisted(p, n) == {m \in DOMAIN src[Here(p)] : m = n /\ \A b \in work[p].batch : b.n # n}

(* Those not listed as changed are asked for one by one. *)
Fetch(p) ==
    /\ pc[p] = "fetch"
    /\ \/ \E n \in work[p].commented :
            /\ work' = [work EXCEPT ![p].commented = @ \ {n},
                  ![p].batch = @ \cup {Snap(Here(p), m) : m \in Unlisted(p, n)}]
            /\ UNCHANGED pc
       \/ /\ work[p].commented = {}
          /\ EndListing(p, work[p].batch)
    /\ UNCHANGED <<forges, cursor, pass>>

EnsureRepo(p) ==
    /\ pc[p] = "ensure"
    /\ project' = project \cup {Here(p)}
    /\ pc' = [pc EXCEPT ![p] = "origins"]
    /\ UNCHANGED <<people, tgt, labels, cursor, pass, work>>

Copies(r, n) == {c \in DOMAIN tgt[r] : tgt[r][c].mark = n}

(* Mutants: only open copies are listed; a copy is taken to have its item's number. *)
OpenOriginsOf(r) == [n \in Numbers |->
    IF \E c \in Copies(r, n) : tgt[r][c].state = "open"
    THEN CHOOSE c \in Copies(r, n) : tgt[r][c].state = "open" ELSE 0]
SameNumberOf(r) == [n \in Numbers |-> IF n \in DOMAIN tgt[r] /\ Copies(r, n) # {} THEN n ELSE 0]

(* The map Origins returns: the copy of each item, 0 when it has none.  Of two
   copies the one listed last, the oldest, is the one found. *)
OriginsOf(r) == [n \in Numbers |->
    IF Copies(r, n) = {} THEN 0
    ELSE CHOOSE c \in Copies(r, n) : \A d \in Copies(r, n) : c <= d]

ReadOrigins(p) ==
    /\ pc[p] = "origins"
    /\ work' = [work EXCEPT ![p].origins = OriginsOf(Here(p))]
    /\ pc' = [pc EXCEPT ![p] = "labels"]
    /\ UNCHANGED <<forges, cursor, pass>>

(* One label at a time; a run that ends in between leaves some of them. *)
EnsureLabels(p) ==
    LET missing == {b.n : b \in work[p].batch} \ labels[Here(p)]
    IN  /\ pc[p] = "labels"
        /\ \/ \E l \in missing : /\ labels' = [labels EXCEPT ![Here(p)] = @ \cup {l}]
                                 /\ UNCHANGED pc
           \/ /\ missing = {}
              /\ pc' = [pc EXCEPT ![p] = "issue"]
              /\ UNCHANGED labels
        /\ UNCHANGED <<people, tgt, project, cursor, pass, work>>

(* GitHub's items are taken in the order they were listed, GitLab's in that of a map. *)
IsFirst(b, batch) == From = "github" => \A c \in batch : b.rev <= c.rev

(* GitHub lists comments oldest first, GitLab newest first. *)
IsNext(k, notes) == \A j \in notes : IF From = "github" THEN k <= j ELSE k >= j

(* Mutant: a marker is not looked for. *)
CopiesUnnoticed(b) == FALSE

(* Is the item itself a copy of something the target holds? *)
IsCopyOfTarget(b) == b.mark # 0

Begin(p, b, ref, next) ==
    /\ work' = [work EXCEPT ![p].batch = @ \ {b}, ![p].item = b, ![p].ref = ref]
    /\ pc' = [pc EXCEPT ![p] = next]
    /\ UNCHANGED <<people, project, labels, cursor, pass>>

(* SetState on the original, which is the target's. *)
Reflect(p) == \E b \in work[p].batch :
    /\ pc[p] = "issue"
    /\ IsFirst(b, work[p].batch)
    /\ IsCopyOfTarget(b)
    /\ tgt' = [tgt EXCEPT ![Here(p)][b.mark].state = b.state]
    /\ Begin(p, b, b.mark, "comments")

(* A new item is open; a closed one takes a second call. *)
Create(p) == \E b \in work[p].batch :
    /\ pc[p] = "issue"
    /\ IsFirst(b, work[p].batch)
    /\ ~IsCopyOfTarget(b)
    /\ work[p].origins[b.n] = 0
    /\ tgt' = [tgt EXCEPT ![Here(p)] =
                  Append(@, [mark |-> b.n, rev |-> b.rev, state |-> "open", notes |-> <<>>])]
    /\ Begin(p, b, Len(tgt[Here(p)]) + 1, IF b.state = "closed" THEN "close" ELSE "comments")

(* Mutant: the second call is left out. *)
CloseForgotten(p) ==
    /\ pc[p] = "close"
    /\ pc' = [pc EXCEPT ![p] = "comments"]
    /\ UNCHANGED <<forges, cursor, pass, work>>

CloseItem(p) ==
    /\ pc[p] = "close"
    /\ tgt' = [tgt EXCEPT ![Here(p)][work[p].ref].state = "closed"]
    /\ pc' = [pc EXCEPT ![p] = "comments"]
    /\ UNCHANGED <<people, project, labels, cursor, pass, work>>

Update(p) == \E b \in work[p].batch : LET ref == work[p].origins[b.n] IN
    /\ pc[p] = "issue"
    /\ IsFirst(b, work[p].batch)
    /\ ~IsCopyOfTarget(b)
    /\ ref # 0
    /\ tgt' = [tgt EXCEPT ![Here(p)][ref] = [@ EXCEPT !.rev = b.rev, !.state = b.state]]
    /\ Begin(p, b, ref, "comments")

ItemDone(p) ==
    /\ work' = [work EXCEPT ![p].item = NoItem, ![p].ref = 0, ![p].notes = {}]
    /\ pc' = [pc EXCEPT ![p] = "issue"]

(* The source's notes on the item, as they are by now. *)
SourceComments(p) ==
    LET all == DOMAIN src[Here(p)][work[p].item.n].notes
    IN  /\ pc[p] = "comments"
        /\ \/ /\ all = {}
              /\ ItemDone(p)
           \/ /\ all # {}
              /\ work' = [work EXCEPT ![p].notes = all]
              /\ pc' = [pc EXCEPT ![p] = "have"]
        /\ UNCHANGED <<forges, cursor, pass>>

(* Mutants: as many as there are; only the last one is looked at. *)
HaveByCount(r, c) == DOMAIN tgt[r][c].notes
HaveLast(r, c) == {tgt[r][c].notes[j] : j \in {j \in DOMAIN tgt[r][c].notes : j = Len(tgt[r][c].notes)}}

(* The source notes whose copy is on the page of notes the target returns. *)
Have(r, c) == LET notes == tgt[r][c].notes
              IN  {notes[j] : j \in {j \in DOMAIN notes : Len(notes) - j < NotesPage}}

(* Mutant: a note that is itself a copy is posted like any other. *)
ToPostEchoing(r, n, listed, have) == listed \ have

(* A source note with a marker is a copy of one of the target's and is skipped. *)
ToPost(r, n, listed, have) == {k \in listed : src[r][n].notes[k] = 0 /\ k \notin have}

TargetComments(p) ==
    /\ pc[p] = "have"
    /\ work' = [work EXCEPT ![p].notes =
                   ToPost(Here(p), work[p].item.n, @, Have(Here(p), work[p].ref))]
    /\ pc' = [pc EXCEPT ![p] = "post"]
    /\ UNCHANGED <<forges, cursor, pass>>

PostComment(p) ==
    /\ pc[p] = "post"
    /\ \/ \E k \in work[p].notes :
            /\ IsNext(k, work[p].notes)
            /\ tgt' = [tgt EXCEPT ![Here(p)][work[p].ref].notes = Append(@, k)]
            /\ work' = [work EXCEPT ![p].notes = @ \ {k}]
            /\ UNCHANGED pc
       \/ /\ work[p].notes = {}
          /\ ItemDone(p)
          /\ UNCHANGED tgt
    /\ UNCHANGED <<people, project, labels, cursor, pass>>

FinishRepo(p) ==
    /\ pc[p] = "issue" /\ work[p].batch = {}
    /\ LeaveRepo(p)
    /\ UNCHANGED <<forges, cursor, pass>>

-----------------------------------------------------------------------------
(* Faults.  A call fails before it did anything, or (the step before this one)
   after it took effect and its answer was lost. *)

(* Listing the repositories fails: the run ends, and the cursor stays. *)
FailRun(p) ==
    /\ pc[p] = "repos"
    /\ pc' = [pc EXCEPT ![p] = "idle"]
    /\ pass' = [pass EXCEPT ![p] = NoPass]
    /\ UNCHANGED <<forges, cursor, work>>

(* Mutant: the first failure leaves out the rest of the repositories. *)
FailRepoStops(p) ==
    /\ Here(p) # NoRepo
    /\ pass' = [pass EXCEPT ![p].failed = @ \cup {Here(p)}, ![p].todo = {}]
    /\ LeaveRepo(p)
    /\ UNCHANGED <<forges, cursor>>

(* A call for a repository fails: the repository is given up, the others go on. *)
FailRepo(p) ==
    /\ Here(p) # NoRepo
    /\ pass' = [pass EXCEPT ![p].failed = @ \cup {Here(p)}]
    /\ LeaveRepo(p)
    /\ UNCHANGED <<forges, cursor>>

(* The process is killed. *)
Crash(p) ==
    /\ pc[p] # "idle"
    /\ pc' = [pc EXCEPT ![p] = "idle"]
    /\ pass' = [pass EXCEPT ![p] = NoPass]
    /\ work' = [work EXCEPT ![p] = NoWork]
    /\ UNCHANGED <<forges, cursor>>

-----------------------------------------------------------------------------

Forges ==
    \/ Tick
    \/ \E r \in Repos :
        \/ NewItem(r) \/ OwnItem(r)
        \/ \E n \in DOMAIN src[r] : EditItem(r, n) \/ CommentItem(r, n) \/ RestoredNote(r, n)
        \/ \E c \in DOMAIN tgt[r] : RestoredItem(r, c) \/ OwnNote(r, c)
    \/ \E f \in Paths : LoseCursor(f)

(* What a run does next, whatever the forges answer short of an error. *)
Step(p) ==
    \/ FindRepos(p) \/ NextRepo(p) \/ FinishRun(p)
    \/ ListPage(p) \/ ListChanged(p) \/ ListEvents(p) \/ Fetch(p)
    \/ EnsureRepo(p) \/ ReadOrigins(p) \/ EnsureLabels(p)
    \/ Reflect(p) \/ Create(p) \/ CloseItem(p) \/ Update(p)
    \/ SourceComments(p) \/ TargetComments(p) \/ PostComment(p) \/ FinishRepo(p)

Fault(p) == FailRun(p) \/ FailRepo(p) \/ Crash(p)

Next == Forges \/ \E p \in Jobs : StartRun(p) \/ Step(p) \/ Fault(p)

Spec == Init /\ [][Next]_vars

(* The scheduler starts a job again and again, a started run goes on, time passes. *)
Fairness == WF_vars(Tick) /\ \A p \in Jobs : WF_vars(StartRun(p)) /\ WF_vars(Step(p))

FairSpec == Spec /\ Fairness

-----------------------------------------------------------------------------
(* Types. *)

SourceItem == [rev : Nat, at : Nat, noted : Nat, state : States, mark : Nat, notes : Seq(Nat)]
TargetItem == [mark : Nat, rev : Nat, state : States, notes : Seq(Nat)]
Pass == [started : Nat, since : Nat, failed : SUBSET Repos, todo : SUBSET Repos]
Work == [repo : Repos \cup {NoRepo}, page : Nat, batch : SUBSET Snapshot,
         origins : [Numbers -> Nat], commented : SUBSET Nat,
         item : Snapshot, ref : Nat, notes : SUBSET Nat]
Places == {"idle", "repos", "next", "list", "events", "fetch", "ensure", "origins",
           "labels", "issue", "close", "comments", "have", "post"}

(* Every variable has the shape the code gives it; in particular a cursor is never
   before the zero time (cmd/cursor.go sinceFor compares with it). *)
TypeOK ==
    /\ clock \in Nat /\ rev \in Nat
    /\ src \in [Repos -> Seq(SourceItem)]
    /\ tgt \in [Repos -> Seq(TargetItem)]
    /\ project \subseteq Repos
    /\ labels \in [Repos -> SUBSET Nat]
    /\ cursor \in [Paths -> Nat]
    /\ pc \in [Jobs -> Places]
    /\ pass \in [Jobs -> Pass]
    /\ work \in [Jobs -> Work]

-----------------------------------------------------------------------------
(* Safety. *)

(* Running again creates nothing that is already there: an item of the source has
   at most one copy in the target, through crashes, lost answers and retries
   (forge/port.go:54-58, mirror/mirror_test.go TestSecondRunCreatesNothing). *)
AtMostOneCopy == \A r \in Repos : \A c, d \in DOMAIN tgt[r] :
    tgt[r][c].mark = tgt[r][d].mark /\ tgt[r][c].mark # 0 => c = d

(* The copied comments of an item are each there once and in the order they were
   written, whatever was lost, retried or written by hand between them
   (mirror.go:203-251, TestCommentsAreNotDuplicated, port.go:31). *)
NotesInOrder == \A r \in Repos : \A c \in DOMAIN tgt[r] : LET notes == tgt[r][c].notes IN
    \A i, j \in DOMAIN notes : i < j /\ notes[i] # 0 /\ notes[j] # 0 => notes[i] < notes[j]

Carries(copy, item) == \A k \in DOMAIN item.notes :
    item.notes[k] = 0 => \E j \in DOMAIN copy.notes : copy.notes[j] = k

(* The target shows item n of the source as it is now. *)
Mirrored(r, n) == LET item == src[r][n] IN
    \E c \in Counterparts(r, n) :
        /\ tgt[r][c].state = item.state
        /\ item.mark = 0 => tgt[r][c].rev = item.rev
        /\ Carries(tgt[r][c], item)

(* When item n of the source was last changed or commented on. *)
LastChange(r, n) == IF src[r][n].noted > src[r][n].at THEN src[r][n].noted ELSE src[r][n].at

(* A cursor is a promise: whatever changed up to it is in the target, so that the
   next run may start reading there (cmd/mirror.go:103-112).  It is made for the
   files of jobs without a limit: a limited job leaves older changes to another. *)
NothingSkipped == \A f \in Paths :
    (\A p \in Jobs : PathOf[p] = f => LimitOf[p] = 0) =>
        \A r \in Repos : \A n \in DOMAIN src[r] : LastChange(r, n) <= cursor[f] => Mirrored(r, n)

(* Two directions do not feed each other: what is itself a copy of the target's is
   never copied back, neither an item (mirror.go:134-141) nor a note (232-239). *)
NoEcho == \A r \in Repos : \A n \in DOMAIN src[r] :
    /\ src[r][n].mark # 0 => Copies(r, n) = {}
    /\ \A c \in Counterparts(r, n) : \A k \in DOMAIN src[r][n].notes :
           src[r][n].notes[k] # 0 => \A j \in DOMAIN tgt[r][c].notes : tgt[r][c].notes[j] # k

(* A copy never goes back to an older revision of its item than it already showed. *)
CopyNeverRegresses == [][\A r \in Repos : \A c \in DOMAIN tgt[r] :
    tgt[r][c].rev <= tgt'[r][c].rev]_vars

(* When a job without a limit finishes, everything that changed before it started, a
   margin apart, is in the target, in each repository that did not fail in this run:
   the daily pass picks up what the limited jobs left (cmd/cursor.go:94-97), and one
   repository failing, be it in every run, costs the others nothing (mirror.go:33-36). *)
DailyPassPicksUpTheRest == [][\A p \in Jobs \ DryJobs :
    FinishRun(p) /\ LimitOf[p] = 0 =>
        \A r \in Repos \ pass[p].failed : \A n \in DOMAIN src[r] :
            LastChange(r, n) <= CursorAfter(pass[p].started) => Mirrored(r, n)]_vars

-----------------------------------------------------------------------------
(* Refinement. *)

SourceSeen == [r \in Repos |-> [n \in DOMAIN src[r] |->
    [rev |-> src[r][n].rev, at |-> LastChange(r, n), state |-> src[r][n].state,
     own |-> src[r][n].mark = 0,
     notes |-> [k \in DOMAIN src[r][n].notes |-> src[r][n].notes[k] = 0]]]]

Unlimited == {f \in Paths : \A p \in Jobs : PathOf[p] = f => LimitOf[p] = 0}

Shown(item) == [rev |-> item.rev, state |-> item.state, notes |-> item.notes]

(* The one copy of an item; two of them are no state of Backup. *)
CopiesSeen == [r \in Repos |-> [n \in Numbers |->
    CASE Copies(r, n) = {}             -> [rev |-> 0, state |-> "none", notes |-> <<>>]
      [] Cardinality(Copies(r, n)) = 1 -> Shown(tgt[r][CHOOSE c \in Copies(r, n) : TRUE])
      [] OTHER                         -> [rev |-> 0, state |-> "several", notes |-> <<>>]]]

Promised == INSTANCE Backup WITH Paths <- Unlimited, source <- SourceSeen,
    copies <- CopiesSeen, promise <- [f \in Unlimited |-> cursor[f]]

(* The mirror implements the backup it promises (README.md:26-32, 58-66). *)
ImplementsBackup == Promised!Spec

-----------------------------------------------------------------------------
(* Liveness. *)

(* Something went wrong for repository r, or for the whole run. *)
Disturbed(r) == \E p \in Jobs :
    \/ FailRepo(p) /\ Here(p) = r
    \/ FailRun(p)
    \/ Crash(p) /\ ~FinishRun(p)

(* A repository that from some time on can be read and written ends up mirrored,
   even if another one fails in every run (mirror.go:33-36: one repository failing
   must not stop the others). *)
EveryRepoCatchesUp == \A r \in Repos :
    <>[][~Disturbed(r)]_vars => <>[](\A n \in DOMAIN src[r] : Mirrored(r, n))

=============================================================================
