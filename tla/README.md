# forge-mirror, modelled in TLA+

forge-mirror copies the issues and pull requests of a GitHub account to a GitLab
group (`mirror`), and after an outage carries what people wrote on GitLab back
(`restore`).  It is one short process that a scheduler starts again and again.
It keeps no database: what it knows about earlier runs are markers in the bodies
of the copies, and a cursor file with one time in it.  So everything that makes
it correct is about sequences of runs: runs that die, runs whose calls fail after
they took effect, runs that read while people write.  That is what is modelled.

All source paths below are relative to the repository.

## The system

| component | state it keeps | operations | talks to |
| --- | --- | --- | --- |
| `mirror/mirror.go` `Mirror` | per run: which repositories failed; per repository: the listed batch and the map of origins | `Run`, `repos`, `repo`, `issue`, `reflect`, `comments` | a `Source` and a `Target` (`forge/port.go`) |
| `cmd/mirror.go`, `cmd/cursor.go` | the cursor file | `sinceFor`, `readCursor`, `writeCursor`, when the cursor may move, dry run | builds the adapters, calls `Mirror.Run` |
| `forge/github/github.go` `Source` | none | `Repos`, `ReposChangedSince` (search index), `Issues` (paged, sorted by update), `fillBranches`, `Comments` | the API of GitHub |
| `forge/gitlab/gitlab.go` `Target` | cache of group ids and milestones | `EnsureRepo`, `Origins`, `Create`, `Update`, `SetState`, `EnsureLabels`, `Comments`, `Comment` | the API of GitLab |
| `forge/gitlab/source.go` `Source` | none | `Repos`, `Issues` (two listings and a list of events), `Comments` | the API of GitLab |
| `forge/github/target.go` `Target` | cache of milestones | the same as GitLab's | the API of GitHub |
| `forge/origin.go`, `note.go`, `render.go` | none | `Marker`, `ParseOrigin`, `stripMarkers`, `NoteID`, `Render`, `TargetKind` | - |
| `cmd/config`, telemetry, prompt, version | none after start-up | - | - |

Calls go one way: the command builds two adapters and a `Mirror`; `Mirror.Run`
asks the source for repositories, then per repository lists, makes sure the target
is there, reads which items have copies, and writes item by item.  Nothing runs
concurrently inside a process.  What is concurrent is everything around it: people
on both forges, the search index, the repository mirror that moves branches, and
other runs.

What is hard here, and the property that says it is done right:

* a run dies, or the answer of a call is lost, after the copy was made, and the
  next run must not make another: `AtMostOneCopy`;
* comments are posted one by one, and a retry must post exactly those missing, in
  order, among notes people wrote by hand: `NotesInOrder`;
* the cursor moves past something that was not copied, because it changed
  meanwhile, was not indexed yet, lay outside a job's limit, on another page or on
  another day, or because a failure or a dry run was taken for a success:
  `NothingSkipped`, `DailyPassPicksUpTheRest`;
* which item is a copy of which is decided from text that people write and quote:
  `MarkersTrue`, `OwnWorkKept`;
* mirror and restore feed each other, one forge with one sequence of numbers and
  the other with two: `NoEcho`, `OneEach`, `NotesOnce`; or they undo each other:
  `SidesMeet`, `SidesAgree`, and all of it at once `ImplementsTwins`;
* a copy goes back to an older revision: `CopyNeverRegresses`;
* one repository that always fails keeps the others from being mirrored:
  `DailyPassPicksUpTheRest`, `EveryRepoCatchesUp`; one pull request, or one missing branch, keeps its
  repository from being mirrored: `RefusedByRacesOnly`, `RunsEnd`,
  `NothingBlocksTheRest`, `AskingIsNoError`;
* a merge request that cannot be made, reopened or retargeted as the pull request
  was: `PullsShown`, `BaseFollowed`;
* runs that overlap race for the group, the project, a label or a milestone, and
  people rename milestones between two calls: `NoRaceLost`, `LabelsKnown`,
  `FieldsFollow`, `AllWritten`.

`PROJECT.json` lists every hazard at its line.

## The modules

| module | what it is |
| --- | --- |
| `Backup` | the abstract specification: what a mirror promises, without runs, pages, markers or faults |
| `Mirror` | `mirror/`, `cmd/`, the GitHub source, the GitLab source, and the issue half of the targets; implements `Backup` |
| `MergeRequests` | the merge request half of the GitLab target, one action per call of the API |
| `Markers` | `forge/origin.go`, `note.go`, `render.go` as operators on bodies |
| `Twins` | the abstract specification of both directions together: things of people, the one copy of each, revisions, states and comments, without runs, markers or lookups |
| `BothWays` | a mirror and a restore in turn over one repository, with the bodies they write and read; uses `Markers`, implements `Twins` |
| `Containers` | what an item needs before it is written: group, project, labels, milestones, and the fields that refer to them; both targets |
| `MirrorProofs`, `MirrorNotesProofs`, `MirrorProgressProofs` | theorems about `Mirror`, each module on top of the one before |
| `MergeRequestsProofs`, `MarkersProofs`, `BothWaysProofs`, `ContainersProofs` | theorems about the others |
| `LeastNumber` | that a set of numbers has a least one, which two of them need |
| `MCMirror`, `MCMergeRequests`, `MCBothWays`, `MCContainers` | instances for TLC |

Each module looks at the same code through one question and abstracts what the
others are about: in `Mirror` a marker is a field, the content of an item one
revision number, and the containers are there or not; `BothWays` has the text but
takes the calls of one item as one step; `Containers` has the fields and several
runs at once but no markers.

### Mirror

An action is one call on a forge, or one decision between two calls.  A job is a
scheduled invocation with a configuration (`DryJobs`, `LimitOf`, `PathOf` are
`dryRun`, `since` and `statePath`).  `pc[p]` says where its run is:

    idle - repos - next - list (- events - fetch) - ensure - origins - labels
         - issue (- close) - comments - have - post - issue ... - next ... - idle

`pass[p]` is what `Run` keeps over repositories (start, since, failures, what is to
do), `work[p]` what `repo`, `issue` and `comments` keep as locals.  A snapshot in
`work[p].batch` is an element of the slice `Issues` returned: the item as it was
when it was listed, not as it is by the time it is written.

Data is reduced to what the properties tell apart.  Title, body, labels and
milestone of an item are one revision number; the copy holds the revision it was
rendered from.  A marker is the field `mark` of an item; a comment is a number: on
one side its position, on the other the position of the comment it copies, or 0
when a person wrote it.

| actions | code |
| --- | --- |
| `StartRun`, `FinishRun`, `SinceFor`, `Clean`, `CursorAfter`, `LoseCursor` | `cmd/mirror.go:81-113`, `cmd/cursor.go` |
| `FindRepos`, `NextRepo`, `FailRun`, `FailRepo` | `mirror.go:33-86`; `github.go:124-177` for `Discovered`, which takes the two searches (issues, pull requests) and their pages as one step |
| `ListPage` (GitHub) | `github.go:189-229`, one page per step |
| `ListChanged`, `ListEvents`, `Fetch` (GitLab) | `gitlab/source.go:81-233` |
| `EnsureRepo`, `ReadOrigins`, `EnsureLabels` | `mirror.go:105-122`, `gitlab.go:53-226`, `500-520` |
| `Create`, `CloseItem`, `Update`, `Reflect` | `mirror.go:133-201`, `gitlab.go:228-330` |
| `SourceComments`, `TargetComments`, `PostComment` | `mirror.go:203-251` |
| `Crash` | the process is killed between two calls |

`From` says which forge is the source.  With `"github"` a comment is a change of
its item and the listing is sorted by update and paged by number; with `"gitlab"` a
comment leaves the item's timestamp alone (`noted` is then its time), the items
only a comment touched come from the list of events, which knows days, and comments
come newest first.

Every failing call is there twice: `FailRepo` before a step is the call that did
nothing, `FailRepo` after it the call that took effect and whose answer was lost.

People act at any time: `NewItem`, `EditItem`, `CommentItem` on the source,
`OwnItem`, `OwnNote` on the target.  `RestoredItem` and `RestoredNote` are what an
earlier run of the other direction left on the source.

### MergeRequests

`Create` and `Update` of a pull request call by call: ask for both branches, create
or fall back to an issue, read the merge request, ask for the new base, write the
fields, write them again without the target branch when it clashes, then close or
reopen.  `hasBranches` tells no error from another, so a lookup that fails is a branch that
is missing and the run goes on: `CheckBranches(TRUE)`, `CheckBase(TRUE)`, together
`LookupFails`; any other call that fails gives the repository up (`Interrupt`).  Between
the calls people open, close, retarget and reopen pull requests,
somebody merges in the target, and branches come and go.

A merge request may also be the target's own, with an issue a restore made of it on
the other side (`Restored`, `Own`).  For those only the state goes back, by one call
that reads nothing first (`SetState`, `gitlab.go:482-498`).  What GitLab makes of an
event is `Moved`, and when it refuses one is `Refuses`.

### Markers

A body is a sequence of tokens: a whole marker, its two halves, a note marker, a
mention of the note prefix, prose.  `MarkersIn` is the regular expression of
`origin.go:38`; `ParseOrigin` takes the last match (`56-60`) and splits the path at
the first slash, as the pattern does; `stripMarkers` takes all matches out at once,
so that what closes up around one may be a marker again; `Render` and
`RenderComment` are the copies' texts.  `HasMarker` and `IsStale`, which nothing
calls, are left out.

### BothWays

Two forges, GitHub with one sequence of numbers and GitLab with one per kind.  People
open, rewrite, close, reopen and comment on both, and quote the markers they see:
whole, before their own words, or one inside another.  `StartRun(f)` lists what
changed on `f`; for each item of the batch the code's three ways are the actions
`Reflect` (it is a copy of the other side's: only the state goes back), `Create` and
`Update`, followed by `Comments`.  The lookups go through text alone (`Back`, `Made`,
`Origins`, `Missing`).  The field `of` of an item or comment records what it truly is a
copy of, for the properties; no action of a run reads it.

Somebody may merge a pull or merge request.  The program sees it as closed (`Shown`, which
is `stateOf`), and no write moves it again: GitLab has no event for it and the code sends
none (`MovedTo`, `gitlab.go:387-401`), GitHub refuses to reopen it (`Refuses`), which ends
the run with its cursor where it was (`Refused`).  Of the notes of an item on GitLab a run
that writes there sees the page with the newest `NotesPage` (`Listed`,
`gitlab.go:522-548`).  `EchoesShow` says whether a write that changes nothing moves an
item's timestamp, so that the other direction lists it.

| actions and operators | code |
| --- | --- |
| `StartRun`, `Begin`, `Back`, `OriginOf`, `Reflect`, `Refused`, `Comments`, `Missing` | `mirror.go:88-103`, `133-150`, `177-201`, `218-251` |
| `Made`, `Older`, `Origins` | `github/target.go:84-124`, `gitlab.go:150-226` |
| `CopyKinds`, `Create`, `Update`, `MovedTo` | `gitlab.go:235-283`, `314-401`, `482-498`, `github/target.go:126-184` |
| `Listed`, `Shown` | `gitlab.go:522-548`, `gitlab/source.go:353-361` |

### Containers

Several runs at once, each with items of its own, against one target that is either
forge.  `FindProject ... FindProjectAgain` are `EnsureRepo` and `groupIDOf` of GitLab
call by call, `FindRepository` and `MakeRepository` those of GitHub; `MakeLabel` is one
call of `EnsureLabels`; `TakeItem`, `ListMilestones`, `MakeMilestone`, `ListAgain` are
the milestone lookup with its cache, which lives as long as the process; `WriteGitLab`
and `WriteGitHub` are the fields `Create` and `Update` send.  The answer to a call that
makes something is that it is made, or that it was there already (409, 422); which of
the two is decided by what the other run did meanwhile.  People label and plan items,
and make and rename milestones of the target, between any two calls.  `renamed` keeps, for
each item, the milestones that lost its title since a run listed it, and `without` the items
that were refused a milestone as existing and then did not find it: what a run read before
a rename it writes after it, and `FieldsFollow` says what may then stand on the copy.

### Backup

Items with at most one copy each, a copy that only moves forward to revisions the
item had and collects comments in order, and positions that may be recorded only
when everything changed up to them is copied.  `Mirror` implements it under the
mapping `CopiesSeen`, `SourceSeen`: the cursors of unlimited jobs are the promises.

### Twins

Two forges, each with things of people's own and copies of the other's.  A copy is made
where there is none, goes forward to revisions its original has had and never back; what
people wrote nobody else writes over, except that either half may be closed and opened for
the other and what is merged stays merged; all comments of people that did not cross yet
cross at once, each once.
`BothWays` implements it under the mapping `Things`: which thing a copy is of is the field
`of`, and what it shows is the revision in its body (`Rev`), so that the text, the markers
in it, and every decision the code takes by reading them are on the concrete side only.

### What is assumed of the forges

Not under `src/`; taken from how the code and its comments use them.

* GitHub: the search index shows a change after at most `Lag`; a page is the page of
  the listing as it is at that moment; one open pull request per pair of branches.
* GitLab: listings in order of creation, which edits do not disturb (a new item moves
  others to later pages only, so listing is one step); notes newest first; the events'
  `after` takes a date and excludes it (`source.go:169-173`); one open merge request
  per pair of branches (`gitlab.go:245-248`, `363-367`); both branches are checked
  before it reopens (`341-344`), and reopening is refused while another one holds
  the pair.  A new target branch is refused when it is not there; whether the source
  branch still is, is not asked.
* Clocks of the machine and of both forges agree; their time zones need not (`Zone`).
* GitHub and GitLab number new items without gaps from 1; a milestone's title is
  unique in its repository; labels of one project only grow.
* What is merged stays merged: GitLab has no event that moves it, GitHub refuses to reopen
  it.
* Items are not deleted, in any module.

## The runs

| run | question | instance |
| --- | --- | --- |
| `mirror_safety` | does anything a person, a fault or a retry does break a copy? | 1 repository, 2 items, 4 changes, the cursor advances and is lost |
| `mirror_repos` | does the cursor pass what the search index hid; does one failing repository hold up another? | 2 repositories, lag 1, fairness |
| `mirror_jobs` | do a limited job, the unlimited one and a dry run work together as `Backup`? | 3 jobs, 2 cursor files, never two runs at once |
| `mirror_restore` | is the other direction as good, with comments seen through days? | GitLab as source, days of 3 instants, a boundary between them |
| `merge_requests` | with lookups of branches that may fail: is what a clean run left behind it in the target, is a call refused only for what somebody did meanwhile, does every run end, and can one pull request keep the rest from being mirrored for good? | 2 pull requests of one head, 3 bases with the head itself among them, 4 changes, fairness |
| `both_ways` | do a mirror and a restore recognise each other's copies, whatever is quoted, agree on all that no run has left to deal with, merged ones excepted in state, and does the mirror alone bring the rest together; is every step, also half way through a run that is killed, one of `Twins`? | 2 items of people on either side, 3 acts with merges among them, 3 notes on a page, group of one segment, fairness of the mirror |
| `containers` | do overlapping runs, and milestones renamed between any two of their calls, leave every item written with its fields? | 2 runs, 2 items, 1 label, 2 titles, 3 acts, either target, fairness |

Five runs check a sentence of the repository's own that the code does not keep.  TLC
finds the counterexample:

| run | sentence | what happens |
| --- | --- | --- |
| `mirror_paging` | `Issues` returns everything changed since (`port.go:21`) | an item of page 1 changes, the first item of page 2 moves up onto page 1 after it was read, and the cursor passes it |
| `mirror_notes_page` | `Comments` lets a second run tell which comments are there (`port.go:91`) | one page of notes is read; a comment that fell off it is posted again |
| `merge_requests_base` | the base follows, "the next run tries again" (`gitlab.go:338-339`) | the branch comes later, or its lookup failed and was taken for a branch that is missing (`gitlab.go:130-140`): the write without the target branch succeeds, so no next run lists it |
| `merge_requests_reflect` | asking for the state something is in "is not an error here" (`gitlab.go:482-484`) | a merge request of the target's own is open on both sides and its branch is gone: the reopen it does not need is refused, and the repository fails in every run |
| `both_ways_subgroup` | "Whatever Render produces must be readable back" (`origin_test.go:76-77`) | the owner of an item is the path of the group; with a group inside another it has a slash, is read back as another owner, and each restore copies the item again |

The passing runs set aside by their constants what these show, and what else does not
hold; whoever changes a constant finds it at once:

| constant | what breaks |
| --- | --- |
| `Overlap = TRUE` | `AtMostOneCopy`: both runs read the origins before either creates, although "two runs overlapping is not an error" (`gitlab.go:55`); it is not one for the containers, which `containers` checks |
| `PageSize` below the number of items | `NothingSkipped` (`mirror_paging`), and `AtMostOneCopy` for one run alone: a new item of page 1 changes before page 2 is fetched, is listed twice, and is created twice, because the origins read before the loop are not told of the first create |
| `NotesPage` below the number of notes | `NotesInOrder` (`mirror_notes_page`); in `both_ways` `NotesOnce` and `ImplementsTwins` for the same reason |
| `From = "gitlab"` | `NotesInOrder`: GitLab's notes come newest first, and a restore writes the conversation backwards (`port.go:31` says oldest first) |
| `Zone > 0` | `NothingSkipped`: the date in the question is the machine's, the day GitLab's; ahead of GitLab the rest of that day is never listed (`source.go:170-171` calls it harmless) |
| `AnyQuote = TRUE` | `MarkersTrue`, `OwnWorkKept`: an issue of GitLab's own that quotes the raw marker of a pull request is taken for its copy, preferred to the merge request, and overwritten |
| a `Group` of two segments | `OneEach`, `MarkersTrue` (`both_ways_subgroup`) |

Five disagreements have no run, as nothing in the state goes wrong by the code's own
lights: an item that loses its last label or its milestone keeps it on the copy
(`github/target.go:164-167`, `gitlab.go:564-567`) although `README.md:60` calls the mirror
convergent; a restore overwrites the state of an original that was changed meanwhile
(`mirror.go:177-187` documents it) although `README.md:61` says it "reports conflicts
instead of resolving them"; a merge request that was merged on GitLab follows its pull
request no more when that is reopened, so the two stay apart for good (`gitlab.go:387-401`;
`SidesMeet` and `SidesAgree` except it); a pull request merged on GitHub whose copy is
reopened on GitLab is refused by GitHub in every restore, which then fails its repository
before whatever is listed after it (`Refused`; `SidesAgree` asks for one restore that got
through); and on GitHub the run that loses the race for the repository
fails and is made good by the next one, where GitLab's goes on.

### Bounds, and why they are enough

* Two items are enough for the interactions between items: order in a batch, one
  moving to the end of the listing, one snapshot per item.  More would only repeat.
* `MaxRev` counts every act of a person.  Four acts are enough for an item, a comment
  on it, a note by hand in between and another edit while a run is half way.
* `MaxClock - Start` leaves room for a change before, at and after a cursor, and for
  the lag and the margin between them.  `Margin >= Lag` holds in every run, as
  five minutes do against GitHub's index.
* Runs are not bounded: a job starts again for ever, and TLC explores all of them.
* The last instants are closed to changes (`clock + Lag <= MaxClock`), so that what
  was changed last can still be indexed; otherwise liveness would fail only because
  the clock ran out.
* In `mirror_restore` a day is three instants and the clock starts on the last one of a
  day: cursors and comments fall on both sides of midnight.  Without the day's margin in
  the question (the mutant `CommentedAfterTheDay`) the run fails.
* `merge_requests` opens pull requests in the order of their numbers, which loses
  nothing: numbers mean nothing else there.
* `both_ways`: three acts are an item, a second one that quotes the first one's marker,
  and a rewrite, a comment, a merge or another change of state of either, on either side.
  No item comes to more than three notes, so that a page of three is all of them, as
  `AllNotesListed` says; a page of one makes `NotesOnce` fail.
  Numbers stop at two, as many as runs that make no second copies need.
* `containers`: two runs race for each container; of two titles one is renamed to the
  other; three acts are a plan for each item and a rename, or a label and two plans.

### Fairness

`FairSpec` asks for `WF(Tick)` (time passes), `WF(StartRun(p))` (the scheduler starts
jobs again: they are CronJobs) and `WF(Step(p))` (a process that runs goes on).
Nothing is assumed of faults, people, or of which disjunct of `Step` is taken.
`EveryRepoCatchesUp` is conditional on repository `r` being undisturbed from some time
on, and allows every call for other repositories to fail for ever.

`MergeRequests` asks for the same of its one job.  Its liveness property is conditional
on `Reopenable` and `Askable`: what GitLab refuses to reopen is not for the mirror to
force.  Leaving `Reopenable` out, two pull requests of one pair of branches that
alternate fail the repository in every run, because the first is reopened before the
copy of the second is closed; leaving `Askable` out is `merge_requests_reflect`.

`BothWays` asks for `WF(StartRun("github"))`, as the mirror is a CronJob, and for
`WF(Step)`.  Nothing is asked of the restore, which somebody starts after an outage
(`README.md:61`, `gitlab/source.go:171`, `config/mirror.go:12-23`): it may run any number
of times, or never.  `SidesAgree` holds for behaviours in which people stop (their bound
makes all of them), calls stop failing, and what was changed on GitLab was once dealt with
by a restore; from there on the mirror alone makes both sides the same.  `Containers` asks for
`WF(StartRun(p))` and `WF(Step(p))` of each run; `GiveUp`, the loser of GitHub's race, is
a step and not a fault, so that `AllWritten` has to hold through it.

Each property of each passing run has a mutant in the module, a version of one
operator with a bug someone could write there; `PROJECT.json` lists which breaks what.

## What is proved

`MirrorProofs`, checked by TLAPS for every value of the constants that satisfies the
assumptions in `Mirror` (`JobsAssumption`, `BoundsAssumption`, `TimeAssumption`):

* **`TypeCorrect`**: `Spec => []TypeOK`.  The invariant is `TypeInv == TypeOK /\ Placed`.
  `TypeOK` alone is not inductive: writing `src[r][n]` for the item in hand keeps its
  type only if there is such an item, so `Placed` says that a run inside a repository
  names one, that the items of its batch and the item in hand exist, and that a run that is
  not idle started at `Start` or later, which makes the cursor it leaves non-negative.
* **`OneCopy`**: `Spec => []AtMostOneCopy`, assuming `~Overlap` and, when GitHub is the
  source, that all items fit on a page.  The invariant is
  `TypeInv /\ Solo /\ AtMostOneCopy /\ KnowsCopies`.  `Solo`: one run in flight.
  `KnowsCopies`: from the moment the origins are read, an item of the batch without an
  origin has no copy in the target *now*, and the batch holds one snapshot of each
  item.  The first part lives on `Solo`, since only this run creates copies; the second
  is where the page comes in: an item that changes between two pages is listed twice.
  Neither assumption can be dropped: the table above says what breaks.

  The proofs have one lemma per action and conjunct it can disturb; forge steps and
  steps that leave the target's marks alone are dealt with together
  (`SameMarksOneCopy`, `OneCopyStep`).

`MirrorNotesProofs`, on top of it:

* **`NothingEchoed`**: `Spec => []NoEcho`, with no assumption at all: any number of
  overlapping runs, either direction, any page.  The invariant `EchoInv` adds `Backed`
  (every mark, and every note that has a name, on either side, names something the other side
  has) and, of each run, that what it holds of a repository is so of the source and what it is
  about to write is for a counterpart.  It lives on this: nobody takes back a mark or a note,
  and an item of one side that is a copy of the other's was written by a person there.
* **`CommentsInOrder`**: `Spec => []NotesInOrder`, assuming `~Overlap`, GitHub as the
  source, and that the target's listing returns all notes of an item
  (`AllNotesListed`, the premise; `mirror_notes_page` shows that it cannot be dropped).  The
  invariant says that the copied notes of an item are the first of those to copy, and that
  what the run in hand has still to post comes after them.

`MirrorProgressProofs`, on top of that:

* **`NeverRegresses`**: `Spec => CopyNeverRegresses`, assuming `~Overlap`.  Its invariant
  `RevInv`: what a batch holds of an item lies between what any copy of it shows and what the
  item is (`Between`); GitHub's snapshots of one item, of which there may be two, are taken
  in the order of their revisions, and GitLab's batch has an item once (`OncePerItem`).
* **`NothingIsSkipped`**: `Spec => []NothingSkipped`, and **`DailyPassIsComplete`**:
  `Spec => DailyPassPicksUpTheRest` (when no limited job shares a file with an unlimited
  one).  They assume `~Overlap`, `0 < Margin`, a search index no further behind than the
  margin (`Lag <= Margin`, which is what `cursorMargin` is for), GitHub's items on one
  page, and in a restore a clock face not ahead of GitLab's (`Zone <= 0`).  The second also
  says of a run in which repositories fail that all others are caught up with, which is
  what of `EveryRepoCatchesUp` needs no fairness.  A promise is
  made at the end of a run about all of its steps, so `NothingSkipped` alone says nothing
  of the run that is about to make the next one.  The invariant `ProgressInv` follows it:
  a run starts from a promise that is kept (`Caught` up to `since`); of what changed up to
  a margin before it started, a repository is still to come, failed, or caught up with
  (`KeepsRepos`), an item of the repository it is in is in the target, listed, to be
  fetched, or in hand (`KeepsItems`), and the copy in hand is up to date except for the
  comments still to post (`KeepsHand`).  That this stays true while people write lives on
  the times: a snapshot is still what its item is, unless that was changed after the run
  started (`Seen`), and what changes now is younger than anything promised or about to be
  (`Calm`: no step disturbs an item last changed before the run started, nor its copy,
  except to make the copy what the item is).
* **`BackupImplemented`**: `Spec /\ []AllNotesListed => ImplementsBackup` for a mirror of
  GitHub, under the assumptions of the two before, and that no item of the target has more
  notes than a listing returns.  Its invariant is
  `BackupInv == ProgressInv /\ RevInv /\ OrderInv /\ Dated`, so all that is said above in
  one: a step of `Mirror` is a person's act, or one `Make`, `Refresh` or `Comment` of
  `Backup`, or its `Promise`, or changes nothing `Backup` sees.  `Make` is allowed as there is
  no copy yet, `Refresh` as the snapshot is no older than what the copy shows, `Comment` as it
  is the next one, `Promise` as what it promises is so.  `Dated` says that every item and
  snapshot is of a revision that was given out, so that a copy made from one is there.

`MergeRequestsProofs`, for any branches, pull requests and changes: **`TypeCorrect`**,
**`CursorIsKept`**, **`OnlyRacesAreRefused`** and **`EveryRunEnds`**.

`CursorIsKept` is `Spec => []PullsShown`.  The invariant `Inv` adds to the two: `Times`
(the clock is ahead of every change, a run starts after the cursor), `Snapshots` (a
snapshot is true of what did not change since the run started), `Remaining` (what a run
has still to write it has listed: the step from "listed" to "shown" that lets the cursor
move) and `Halfway` (what was read of a merge request is still so, or it was merged:
without it a state decided before the write might be wrong after it).
`OnlyRacesAreRefused` is `Spec => []RefusedByRacesOnly`; its invariant `QuietInv` adds
`OwnPulls` (what the target had first is a merge request) and `Settled` (as long as nobody
changed anything since the run started, what it found out by reading is still so: the
merge request about to be created can be, the branch to move to is there, the state is the
one that was read).  `EveryRunEnds` is `Spec => RunsEnd`: each call takes one from
`StepsLeft`, which is bounded as a batch has a pull request once; the write sent again
without the target branch is the step where that is not obvious.  The two are what of
`NothingBlocksTheRest` can be said without fairness: a run ends, and it fails only where
something moved under it.

`MarkersProofs`, with no assumption on what a body quotes: **`RenderIsParseable`** (a
rendered copy is read back as the copy of just the origin it was rendered for, when the
owner is one segment: the last marker is the one `Render` put there) and
**`CommentIsParseable`** for comments.

`BothWaysProofs`, assuming `PlainText == AnyQuote = FALSE /\ Len(Group) = 1`:
**`TypeCorrect`**, **`MarkersAlwaysTrue`**, **`OneOfEach`**, **`OwnWorkSafe`**,
**`CommentsCrossOnce`**, **`SidesAlwaysMeet`**, **`TwinsImplemented`**.  The first of
these three and the last also have the premise `[]AllNotesListed`, that no item of GitLab
has more notes than a page: beyond it the code posts comments again, as
`mirror_notes_page` shows.  `SidesAlwaysMeet` does without, since a comment posted twice is
across all the same.  The
invariant says of every item and every snapshot that it is `Honest`: it has people's own
words, in which no marker names the other forge, or the rendering of some body under the
origin of what it is a copy of; and that copies are `Paired`, each with something else
that is there and no copy.  That the items of a batch stay honest is what carries the
argument over the time between listing and writing.  `CommentsCrossOnce` adds, in
`NotesInv`, that every comment says of itself what it is a copy of (`NoteOK`), that a copy
is of a person's comment on the other half (`Crossed`), and that the two items a run has
in hand belong together (`HandOK`): the number read from a marker is that of the
counterpart, since markers are true.  That a comment is not posted again (`AllDistinct`)
is where the page comes in, and is kept apart from the rest for that reason.

`SidesAlwaysMeet`, `Spec => []SidesMeet`, is what `SidesAgree` rests on: people may change
both halves between any two steps, and what is neither touched since nor listed nor in
hand says the same on both sides.  Only the state of what is merged on GitLab is excepted
(`MergedThere`): no event moves it, and nothing is pending that ever would.  `CarryInv` adds to `NotesInv` that a snapshot of what
was not touched since is still what the item is (`StillOK`), and that the copy in hand says
what its original says, unless that was touched since (`InHandOK`): only the comments are
to come.

`TwinsImplemented` is the refinement, `Spec /\ []AllNotesListed => ImplementsTwins`.  `TwinsInv` adds two
invariants about revisions: `Dated`, that what people wrote is older than their next act
and a copy no newer than its original; and `Forward`, that what a run listed of an item is
no newer than the item is now, and the copy no newer than what was listed.  So what
`Update` writes takes the copy forward and not past its original, though the original may
have been rewritten since it was listed.  Each action is then mapped: a person's act to
`Open`, `Rewrite`, `Turn` or `Say`, `Create` to `Make` (there is no copy yet by `OneEach`),
`Update` to `Refresh`, `Reflect` to `Turn`, `Comments` to `Hear` (what is missing by the markers
is what is not heard by the fields, in the order of the list), the rest to a stutter.

Both halves of `PlainText` are needed, as `both_ways_subgroup` and the table above show.

`ContainersProofs`, for any runs, items, labels and titles: **`TypeCorrect`**,
**`NoRaceIsLost`**, **`LabelsAlwaysKnown`**, **`FieldsAlwaysFollow`**.  The last is the hard one.  Its invariant follows
an item from the listing to the copy: a snapshot is true unless the item was touched
since (`Faithful`), what a run listed is written, in hand or in the batch (`Tracked`), and
the ids it keeps are of milestones that bear its items' titles, or bore them and were renamed since the
items were listed (`Meant`, `Bears`): a rename between the calls of a run puts the
milestone into `renamed`, and nothing it did not bear since the listing ever gets there.  `Way` says what a
run on its way has found or made, which is why its second look does not fail.  One lemma,
`Others`, says that a run that does not move stays right when what it listed is left
alone; with `Apart` (runs take different items) it covers every other run at every step.

Out of the prover's reach, and left to TLC for good: liveness (`EveryRepoCatchesUp`,
`NothingBlocksTheRest`, `SidesAgree`, `AllWritten`).

## What is not modelled, and why

* A comment that quotes a note marker is taken for a copy and never copied
  (`note.go:27`): `NoteID` says so, and no property asks for more.
* Wording: the header of a copy, titles, the links to authors.
* The order of items in a GitLab batch, and of comments across a failure in a restore.
* Assignees, which are read and used nowhere.
* Deletion of items, of repositories, and of notes.
* `cmd/config`, telemetry, prompt, version: sequential code at start or end of a run
  that keeps nothing; the configuration's values are the constants of `Mirror`.
* Containers, workflows, end-to-end scripts.

## Plan

1. `Containers` with labels that people delete in the target between `EnsureLabels` and
   the write, once the code does something about the error.
2. What a limited job promises: when its run ends, what changed within its window is in
   the target.  `KeepsRepos` and `KeepsItems` would take the start of the window as a
   lower bound; today they follow the jobs whose file only unlimited jobs use.
