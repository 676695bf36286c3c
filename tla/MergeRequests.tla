---------------------------- MODULE MergeRequests ----------------------------
(***************************************************************************)
(* Pull requests of a GitHub repository as merge requests of a GitLab      *)
(* project: Create, updateMergeRequest and what they lean on in            *)
(* forge/gitlab/gitlab.go, one action per call of the API.  Branches are   *)
(* carried by somebody else (a repository mirror), people retarget, close  *)
(* and reopen at the source and merge in the target, and all of it happens *)
(* between the calls.                                                      *)
(*                                                                         *)
(* One job runs, again and again, and nobody else creates copies, so what  *)
(* Origins returns is the state of `copies`.  Time is counted in changes:  *)
(* the revision a change gets is when it was made.  cursorMargin, which    *)
(* only makes a run list more, is left to Mirror.                          *)
(***************************************************************************)
EXTENDS Integers, FiniteSets

CONSTANTS
    Heads, Bases,  \* branches pull requests are opened from and onto
    NoBranch,      \* the empty name
    Pushed,        \* branches the repository mirror brought to begin with
    MaxPulls,      \* bound: pull requests
    MaxRev         \* bound: changes made by people and to the branches

ASSUME ConstantsAssumption ==
    /\ NoBranch \notin Heads \cup Bases
    /\ Pushed \subseteq Heads \cup Bases
    /\ MaxPulls \in Nat /\ MaxRev \in Nat

VARIABLES
    rev,     \* the last revision given out
    pulls,   \* the pull requests at the source, by number; rev 0 is not there
    here,    \* the branches the target has
    copies,  \* what the target holds for each pull request
    cursor,  \* the lastRun recorded, 0 when there is none
    pc,      \* where the run is
    run      \* what it keeps

people == <<rev, pulls>>
vars == <<rev, pulls, here, copies, cursor, pc, run>>

Branches == Heads \cup Bases
Pulls == 1..MaxPulls

NoPull == [rev |-> 0, state |-> "closed", head |-> NoBranch, base |-> NoBranch]
NoCopy == [kind |-> "none", rev |-> 0, state |-> "open", head |-> NoBranch, base |-> NoBranch]
NoItem == [n |-> 0, rev |-> 0, state |-> "closed", head |-> NoBranch, base |-> NoBranch]
NoRun  == [started |-> 0, batch |-> {}, item |-> NoItem, cur |-> NoCopy, to |-> NoBranch]

Init ==
    /\ rev = 0
    /\ pulls = [n \in Pulls |-> NoPull]
    /\ here = Pushed
    /\ copies = [n \in Pulls |-> NoCopy]
    /\ cursor = 0
    /\ pc = "idle"
    /\ run = NoRun

-----------------------------------------------------------------------------
(* The two forges. *)

(* An issue has no branches.  The issues looked at are the copies an earlier restore
   made of merge requests the target's people opened. *)
Own(n) == pulls[n].rev # 0 /\ pulls[n].head = NoBranch

(* GitHub numbers one after the other. *)
IsNew(n) == pulls[n].rev = 0 /\ \A m \in 1..(n - 1) : pulls[m].rev # 0

(* GitHub has one open pull request for two branches. *)
Vacant(n, h, b) == \A m \in Pulls \ {n} :
    ~(pulls[m].state = "open" /\ pulls[m].head = h /\ pulls[m].base = b)

(* GitLab has one open merge request for two branches. *)
Joined(n, h, b) == \E m \in Pulls \ {n} :
    /\ copies[m].kind = "pull" /\ copies[m].state = "open"
    /\ copies[m].head = h /\ copies[m].base = b

(* What GitLab takes for a merge request: two branches it has. *)
Joinable(h, b) == {h, b} \subseteq here /\ h # b

ChangePull(n, state, h, b) ==
    /\ rev < MaxRev
    /\ state = "open" /\ h # NoBranch => Vacant(n, h, b)
    /\ rev' = rev + 1
    /\ pulls' = [pulls EXCEPT ![n] = [rev |-> rev + 1, state |-> state, head |-> h, base |-> b]]
    /\ UNCHANGED <<here, copies, cursor, pc, run>>

OpenPull(n) == \E h \in Heads, b \in Bases :
    IsNew(n) /\ ChangePull(n, "open", h, b)

(* Closed, merged, reopened, or only commented on. *)
EditPull(n) == \E s \in {"open", "closed"} :
    pulls[n].rev # 0 /\ ChangePull(n, s, pulls[n].head, pulls[n].base)

(* Retargeted by hand, or by GitHub when the base is merged and deleted. *)
RetargetPull(n) == \E b \in Bases :
    /\ ~Own(n) /\ pulls[n].state = "open" /\ b # pulls[n].base
    /\ ChangePull(n, "open", pulls[n].head, b)

(* The repository mirror brings a branch, or deletes it. *)
MoveBranch(b) ==
    /\ rev < MaxRev
    /\ rev' = rev + 1
    /\ here' = IF b \in here THEN here \ {b} ELSE here \cup {b}
    /\ UNCHANGED <<pulls, copies, cursor, pc, run>>

(* Somebody merges in the target. *)
MergeCopy(n) ==
    /\ rev < MaxRev
    /\ copies[n].kind = "pull" /\ copies[n].state = "open"
    /\ rev' = rev + 1
    /\ copies' = [copies EXCEPT ![n].state = "merged"]
    /\ UNCHANGED <<pulls, here, cursor, pc, run>>

(* Somebody opened a merge request in the target, and a restore made its issue. *)
Restored(n) == \E h \in Heads, b \in Bases :
    /\ rev < MaxRev
    /\ IsNew(n)
    /\ Joinable(h, b) /\ ~Joined(n, h, b)
    /\ rev' = rev + 1
    /\ pulls' = [pulls EXCEPT ![n].rev = rev + 1, ![n].state = "open"]
    /\ copies' = [copies EXCEPT ![n] = [NoCopy EXCEPT !.kind = "pull", !.head = h, !.base = b]]
    /\ UNCHANGED <<here, cursor, pc, run>>

-----------------------------------------------------------------------------
(* A run, up to its items. *)

StartRun ==
    /\ pc = "idle"
    /\ pc' = "list"
    /\ run' = [NoRun EXCEPT !.started = rev]
    /\ UNCHANGED <<people, here, copies, cursor>>

(* The listing does not carry the branches. *)
ListPulls ==
    /\ pc = "list"
    /\ run' = [run EXCEPT !.batch =
                 {[n |-> n, rev |-> pulls[n].rev, state |-> pulls[n].state,
                   head |-> NoBranch, base |-> NoBranch] :
                     n \in {m \in Pulls : pulls[m].rev # 0 /\ pulls[m].rev >= cursor}}]
    /\ pc' = "fill"
    /\ UNCHANGED <<people, here, copies, cursor>>

(* Mutant: the item is kept beside what it is filled to. *)
FillBranchesBeside ==
    LET bare == {b \in run.batch : b.state = "open" /\ b.head = NoBranch /\ ~Own(b.n)
                     /\ \A c \in run.batch : c.n = b.n => c.head = NoBranch}
    IN  /\ pc = "fill"
        /\ \/ \E b \in bare :
                /\ run' = [run EXCEPT !.batch = @ \cup
                      {[b EXCEPT !.head = pulls[b.n].head, !.base = pulls[b.n].base]}]
                /\ UNCHANGED pc
           \/ /\ bare = {}
              /\ pc' = "next"
              /\ UNCHANGED run
        /\ UNCHANGED <<people, here, copies, cursor>>

(* Open pull requests whose branches are not known yet. *)
Bare == {b \in run.batch : b.state = "open" /\ b.head = NoBranch /\ ~Own(b.n)}

(* They are asked for one by one, by then perhaps others than when it was listed. *)
FillBranches ==
    /\ pc = "fill"
    /\ \/ \E b \in Bare :
            /\ run' = [run EXCEPT !.batch = (@ \ {b}) \cup
                  {[b EXCEPT !.head = pulls[b.n].head, !.base = pulls[b.n].base]}]
            /\ UNCHANGED pc
       \/ /\ Bare = {}
          /\ pc' = "next"
          /\ UNCHANGED run
    /\ UNCHANGED <<people, here, copies, cursor>>

(* forge/render.go TargetKind: only an open pull request can be a merge request. *)
TargetKind(b) == IF b.state = "open" THEN "pull" ELSE "issue"

(* Mutant: a fork's branch may have the name of the base. *)
AnyMergeable(b) == TRUE

mergeable(b) == b.head # b.base

(* Items are taken in the order they were listed, that of their last change. *)
IsNext(b) == pc = "next" /\ \A c \in run.batch : b.rev <= c.rev

Take(b, next) ==
    /\ run' = [run EXCEPT !.batch = @ \ {b}, !.item = b, !.cur = copies[b.n]]
    /\ pc' = next
    /\ UNCHANGED <<people, here, copies, cursor>>

FinishRun ==
    /\ pc = "next" /\ run.batch = {}
    /\ cursor' = run.started
    /\ pc' = "idle"
    /\ run' = NoRun
    /\ UNCHANGED <<people, here, copies>>

-----------------------------------------------------------------------------
(* One item. *)

Item == run.item

Done(copy) ==
    /\ copies' = [copies EXCEPT ![Item.n] = copy]
    /\ run' = [run EXCEPT !.item = NoItem, !.cur = NoCopy, !.to = NoBranch]
    /\ pc' = "next"

(* The target answers with an error: the repository is given up for this run. *)
GiveUp ==
    /\ run' = NoRun
    /\ pc' = "idle"
    /\ UNCHANGED copies

(* No error is told from another: a call that fails says a branch is not there. *)
hasBranches(names, fails) == ~fails /\ names \subseteq here

(* Create, up to hasBranches: both branches are asked for before creating. *)
CheckBranches(fails) == \E b \in run.batch :
    /\ IsNext(b)
    /\ copies[b.n].kind = "none"
    /\ Take(b, IF TargetKind(b) = "pull" /\ mergeable(b) /\ hasBranches({b.head, b.base}, fails)
               THEN "create" ELSE "issue")

(* Refused when a branch went away meanwhile; an issue when the branches are joined. *)
CreateMergeRequest ==
    /\ pc = "create"
    /\ \/ /\ ~Joinable(Item.head, Item.base)
          /\ GiveUp
       \/ /\ Joinable(Item.head, Item.base)
          /\ Joined(Item.n, Item.head, Item.base)
          /\ pc' = "issue"
          /\ UNCHANGED <<copies, run>>
       \/ /\ Joinable(Item.head, Item.base)
          /\ ~Joined(Item.n, Item.head, Item.base)
          /\ Done([kind |-> "pull", rev |-> Item.rev, state |-> "open",
                   head |-> Item.head, base |-> Item.base])
    /\ UNCHANGED <<people, here, cursor>>

(* A new issue is open; a closed one takes an update. *)
CreateIssue ==
    LET copy == [NoCopy EXCEPT !.kind = "issue", !.rev = Item.rev]
    IN  /\ pc = "issue"
        /\ \/ /\ Item.state = "open"
              /\ Done(copy)
           \/ /\ Item.state = "closed"
              /\ copies' = [copies EXCEPT ![Item.n] = copy]
              /\ pc' = "update"
              /\ UNCHANGED run
        /\ UNCHANGED <<people, here, cursor>>

TakeIssue == \E b \in run.batch :
    /\ IsNext(b)
    /\ copies[b.n].kind = "issue"
    /\ Take(b, "update")

UpdateIssue ==
    /\ pc = "update"
    /\ Done([copies[Item.n] EXCEPT !.rev = Item.rev, !.state = Item.state])
    /\ UNCHANGED <<people, here, cursor>>

ReadMergeRequest == \E b \in run.batch :
    /\ IsNext(b)
    /\ copies[b.n].kind = "pull" /\ ~Own(b.n)
    /\ Take(b, "target")

retarget(cur, i) == i.base \notin {NoBranch, cur.base, cur.head}

CheckBase(fails) ==
    /\ pc = "target"
    /\ run' = [run EXCEPT !.to = IF retarget(run.cur, Item) /\ hasBranches({Item.base}, fails)
                                THEN Item.base ELSE NoBranch]
    /\ pc' = "write"
    /\ UNCHANGED <<people, here, copies, cursor>>

(* Mutant: the whole update is made again. *)
StartOver == pc' = "target" /\ UNCHANGED <<copies, run>>

SendWithout == run' = [run EXCEPT !.to = NoBranch] /\ UNCHANGED <<copies, pc>>

(* The fields.  A target branch the target cannot take is given up and the write
   sent again without; one that went away meanwhile is an error. *)
WriteMergeRequest ==
    LET copy    == copies[Item.n]
        moves   == run.to # NoBranch
        clashes == copy.state = "open" /\ Joined(Item.n, copy.head, run.to)
    IN  /\ pc = "write"
        /\ \/ /\ moves /\ run.to \notin here
              /\ GiveUp
           \/ /\ moves /\ run.to \in here /\ clashes
              /\ SendWithout
           \/ /\ moves => run.to \in here /\ ~clashes
              /\ copies' = [copies EXCEPT ![Item.n].rev = Item.rev,
                                          ![Item.n].base = IF moves THEN run.to ELSE @]
              /\ pc' = "event"
              /\ UNCHANGED run
        /\ UNCHANGED <<people, here, cursor>>

stateEvent(want) == IF want = "closed" THEN "close" ELSE "reopen"

(* Mutants: the event is always sent; a merge request is never closed. *)
AlwaysEvent(cur, want) == stateEvent(want)
OnlyReopenEvent(cur, want) == IF cur = "closed" /\ want = "open" THEN "reopen" ELSE "none"

mergeRequestStateEvent(cur, want) ==
    CASE cur = "open" /\ want = "closed" -> "close"
      [] cur = "closed" /\ want = "open" -> "reopen"
      [] OTHER                           -> "none"

(* GitLab checks both branches before it reopens, open or not, and that nothing else
   joins them. *)
Refuses(n, event) == LET copy == copies[n] IN
    /\ event = "reopen" /\ copy.state # "merged"
    /\ ~({copy.head, copy.base} \subseteq here) \/ Joined(n, copy.head, copy.base)

Moved(copy, event) ==
    IF copy.state = "merged" \/ event = "none" THEN copy
    ELSE [copy EXCEPT !.state = IF event = "close" THEN "closed" ELSE "open"]

(* The state, decided from what was read before the write. *)
SetMergeRequestState ==
    LET event == mergeRequestStateEvent(run.cur.state, Item.state)
    IN  /\ pc = "event"
        /\ \/ Refuses(Item.n, event) /\ GiveUp
           \/ ~Refuses(Item.n, event) /\ Done(Moved(copies[Item.n], event))
        /\ UNCHANGED <<people, here, cursor>>

(* SetState of what the target itself had first: only the state goes back, and
   nothing is read before. *)
SetState == \E b \in run.batch :
    LET event == stateEvent(b.state)
    IN  /\ IsNext(b)
        /\ Own(b.n)
        /\ \/ Refuses(b.n, event) /\ GiveUp
           \/ /\ ~Refuses(b.n, event)
              /\ copies' = [copies EXCEPT ![b.n] = Moved(@, event)]
              /\ run' = [run EXCEPT !.batch = @ \ {b}]
              /\ UNCHANGED pc
        /\ UNCHANGED <<people, here, cursor>>

(* A branch is taken for missing, and the run goes on. *)
LookupFails == CheckBranches(TRUE) \/ CheckBase(TRUE)

(* Another call fails, or the process is killed. *)
Interrupt ==
    /\ pc # "idle"
    /\ GiveUp
    /\ UNCHANGED <<people, here, cursor>>

-----------------------------------------------------------------------------

Step ==
    \/ ListPulls \/ FillBranches \/ FinishRun
    \/ CheckBranches(FALSE) \/ CreateMergeRequest \/ CreateIssue \/ TakeIssue \/ UpdateIssue
    \/ ReadMergeRequest \/ CheckBase(FALSE) \/ WriteMergeRequest \/ SetMergeRequestState
    \/ SetState

Next ==
    \/ \E n \in Pulls : OpenPull(n) \/ EditPull(n) \/ RetargetPull(n) \/ MergeCopy(n)
                         \/ Restored(n)
    \/ \E b \in Branches : MoveBranch(b)
    \/ StartRun \/ Step \/ LookupFails \/ Interrupt

(* The scheduler starts runs, and a started run goes on. *)
Spec == Init /\ [][Next]_vars /\ WF_vars(StartRun) /\ WF_vars(Step)

-----------------------------------------------------------------------------
(* Properties. *)

Names == Branches \cup {NoBranch}
Snapshot == [n : Nat, rev : Nat, state : {"open", "closed"}, head : Names, base : Names]
Copy == [kind : {"none", "issue", "pull"}, rev : Nat, state : {"open", "closed", "merged"},
         head : Names, base : Names]
Places == {"idle", "list", "fill", "next", "create", "issue", "update",
           "target", "write", "event"}

(* Every variable has the shape the code gives it; a batch holds a pull request
   once, also when its branches were asked for after it was listed. *)
TypeOK ==
    /\ rev \in Nat /\ cursor \in Nat
    /\ pulls \in [Pulls -> [rev : Nat, state : {"open", "closed"}, head : Names, base : Names]]
    /\ here \subseteq Branches
    /\ copies \in [Pulls -> Copy]
    /\ pc \in Places
    /\ run \in [started : Nat, batch : SUBSET Snapshot, item : Snapshot, cur : Copy, to : Names]
    /\ \A b, c \in run.batch : b.n = c.n => b = c

(* The copy of pull request n says what it says; a merge in the target stays, and of
   an own merge request only the state is carried. *)
Shown(n) ==
    /\ copies[n].kind # "none" /\ (copies[n].rev = pulls[n].rev \/ Own(n))
    /\ copies[n].state \in {pulls[n].state, "merged"}

(* What changed up to the cursor is in the target, also when a pull request could
   not become a merge request, was closed and reopened, retargeted, or merged on
   the other side between two calls (cmd/mirror.go:103-112, gitlab.go:228-401). *)
PullsShown == \A n \in Pulls :
    pulls[n].rev # 0 /\ pulls[n].rev <= cursor => Shown(n)

(* GitLab refuses a call, and the repository is given up. *)
Refused == Step /\ ~FinishRun /\ pc' = "idle"

(* When nothing changed since the run started, all it sends is taken, but for the
   reopening of what cannot be reopened: what is refused else is refused by a race, and
   asked for again (gitlab.go:233-264, 335-345, 363-369). *)
RefusedByRacesOnly == [][Refused => rev # run.started \/ \E n \in Pulls :
    /\ copies[n].kind = "pull" /\ pulls[n].state = "open"
    /\ Own(n) \/ copies[n].state = "closed"
    /\ Refuses(n, "reopen")]_vars

(* The steps a run has ahead of it at most: all its items, and the one in hand. *)
Ahead ==
    CASE pc \in {"update", "event"} -> 1
      [] pc = "write"  -> IF run.to = NoBranch THEN 2 ELSE 3
      [] pc = "issue"  -> 2
      [] pc = "create" -> 3
      [] pc = "target" -> 4
      [] OTHER         -> 0

StepsLeft ==
    CASE pc = "idle" -> 0
      [] pc = "list" -> 6 * MaxPulls + 3
      [] pc = "fill" -> Cardinality(Bare) + 5 * Cardinality(run.batch) + 2
      [] OTHER       -> 5 * Cardinality(run.batch) + Ahead + 1

(* A run makes so many calls and no more, whatever is changed around it and whatever
   GitLab answers: a write that clashes is sent once again, without what it clashed
   over (gitlab.go:361-369). *)
RunsEnd == [][StartRun \/ StepsLeft' < StepsLeft \/ (rev' # rev /\ StepsLeft' <= StepsLeft)]_vars

(* Somebody does something, or a call fails that the target did not refuse. *)
Disturbed ==
    \/ rev' # rev
    \/ (LookupFails \/ Interrupt) /\ ~Step

(* A merge request to be reopened can be: its branches are here and free. *)
Reopenable == \A n \in Pulls : LET copy == copies[n] IN
    copy.kind = "pull" /\ copy.state = "closed" /\ pulls[n].state = "open" =>
        \A b \in {copy.base} \cup (here \cap {pulls[n].base}) :
            {copy.head, b} \subseteq here /\ ~Joined(n, copy.head, b)

(* Own merge requests that are open on both sides could be reopened. *)
Askable == \A n \in Pulls : Own(n) /\ pulls[n].state = "open" => ~Refuses(n, "reopen")

(* No pull request keeps failing the repository: whatever branches are missing, and
   whoever holds the pair of branches already, the rest is mirrored all the same,
   unless GitLab cannot reopen (gitlab.go:257-264, 338-345, 363-369). *)
NothingBlocksTheRest ==
    <>[][~Disturbed]_vars /\ <>[](Reopenable /\ Askable) =>
        <>[](\A n \in Pulls : pulls[n].rev # 0 => Shown(n))

(* "Asking for the state something is already in is not an error here: GitLab takes
   the event and does nothing, which saves a read to find out." (gitlab.go:482-484) *)
AskingIsNoError ==
    <>[][~Disturbed]_vars /\ <>[]Reopenable =>
        <>[](\A n \in Pulls : pulls[n].rev # 0 => Shown(n))

(* "It follows the source's base when that branch is here to point at. When it is
   not, the old target stays: the next run tries again." (gitlab.go:338-339) *)
BaseFollowed ==
    <>[][~Disturbed]_vars /\ <>[](Reopenable /\ Askable) =>
        <>[](\A n \in Pulls :
                copies[n].kind = "pull" /\ copies[n].state = "open" /\ ~Own(n)
                    /\ pulls[n].state = "open" /\ pulls[n].base \in here
                    /\ pulls[n].base # copies[n].head /\ ~Joined(n, copies[n].head, pulls[n].base)
                => copies[n].base = pulls[n].base)

=============================================================================
