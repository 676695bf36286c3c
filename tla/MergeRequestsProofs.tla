------------------------ MODULE MergeRequestsProofs ------------------------
(***************************************************************************)
(* Proofs about MergeRequests, for any branches and any number of pull     *)
(* requests and changes: the types, that what a clean run moved its cursor *)
(* past is in the target, that what is refused is refused by a race, and   *)
(* that every run ends.                                                    *)
(***************************************************************************)
EXTENDS MergeRequests, FiniteSetTheorems, TLAPS

-----------------------------------------------------------------------------
(* The invariant. *)

InHand == pc \in {"create", "issue", "update", "target", "write", "event"}

(* The clock is ahead of every change, and a run started after the cursor. *)
Times ==
    /\ pc = "idle" => run = NoRun
    /\ \A n \in Pulls : pulls[n].rev <= rev /\ (pulls[n].rev = 0 => pulls[n].state = "closed")
    /\ cursor <= rev
    /\ pc # "idle" => cursor <= run.started /\ run.started <= rev

(* A snapshot is true of what did not change since the run started. *)
Faithful(b) ==
    /\ b.n \in Pulls /\ pulls[b.n].rev # 0
    /\ pulls[b.n].rev <= run.started => b.rev = pulls[b.n].rev /\ b.state = pulls[b.n].state

Snapshots ==
    /\ \A b \in run.batch : Faithful(b)
    /\ InHand => Faithful(Item)

(* What the run has still to write it has listed. *)
Remaining == pc \notin {"idle", "list"} => \A n \in Pulls :
    pulls[n].rev # 0 /\ pulls[n].rev <= run.started =>
        \/ Shown(n)
        \/ \E b \in run.batch : b.n = n
        \/ InHand /\ Item.n = n

(* How far the item in hand has come.  What was read of a merge request is still so,
   or it was merged. *)
Halfway ==
    /\ \A n \in Pulls : Own(n) => copies[n].kind # "none"
    /\ pc \in {"create", "issue"} => copies[Item.n].kind = "none"
    /\ pc = "create" => Item.state = "open"
    /\ pc = "update" => copies[Item.n].kind = "issue"
    /\ pc \in {"target", "write", "event"} =>
        /\ copies[Item.n].kind = "pull"
        /\ copies[Item.n].state \in {run.cur.state, "merged"}
    /\ pc = "event" => copies[Item.n].rev = Item.rev

Inv == TypeOK /\ Times /\ PullsShown /\ Snapshots /\ Remaining /\ Halfway

-----------------------------------------------------------------------------
(* Facts about the definitions. *)

(* The records a variable starts with have their types. *)
LEMMA Blank ==
    /\ NoPull \in [rev : Nat, state : {"open", "closed"}, head : Names, base : Names]
    /\ NoCopy \in Copy /\ NoItem \in Snapshot
    /\ NoRun \in [started : Nat, batch : SUBSET Snapshot, item : Snapshot, cur : Copy, to : Names]
    /\ NoRun.started = 0 /\ NoRun.batch = {}
BY DEF NoPull, NoCopy, NoItem, NoRun, Names, Copy, Snapshot

LEMMA PullsNat == Pulls \subseteq Nat
BY ConstantsAssumption DEF Pulls

LEMMA Initial == Init => Inv
<1> SUFFICES ASSUME Init PROVE Inv
    OBVIOUS
<1> USE DEF Init
<1>1. TypeOK
    BY Blank, ConstantsAssumption DEF TypeOK, Branches, Places
<1>2. Times /\ PullsShown /\ Snapshots /\ Remaining /\ Halfway
    BY Blank DEF Times, PullsShown, Snapshots, Remaining, Halfway, InHand, Own, NoPull
<1> QED BY <1>1, <1>2 DEF Inv

-----------------------------------------------------------------------------
(* People. *)

(* A change is later than the cursor and than the start of the run, so that nothing
   is claimed of it. *)
LEMMA ChangeStep ==
    ASSUME Inv, NEW n \in Pulls, NEW s \in {"open", "closed"}, NEW h \in Names, NEW b \in Names,
           ChangePull(n, s, h, b),
           IF pulls[n].rev = 0 THEN h # NoBranch ELSE h = pulls[n].head
    PROVE  Inv'
<1> USE DEF Inv, ChangePull
<1>1. /\ rev \in Nat /\ rev' = rev + 1 /\ rev' \in Nat
      /\ pulls \in [Pulls -> [rev : Nat, state : {"open", "closed"}, head : Names, base : Names]]
    BY DEF TypeOK
<1>2. /\ pulls'[n].rev = rev + 1 /\ pulls'[n].head = h
      /\ \A m \in Pulls \ {n} : pulls'[m] = pulls[m]
    BY <1>1
<1>3. TypeOK'
    BY <1>1 DEF TypeOK
<1>4. Times'
    BY <1>1, <1>2 DEF Times, TypeOK
<1>5. cursor \in Nat /\ cursor <= rev /\ run.started \in Nat /\ (pc # "idle" => run.started <= rev)
    BY DEF Times, TypeOK
<1>6. \A m \in Pulls \ {n} : (Shown(m) <=> Shown(m)') /\ (Own(m) <=> Own(m)')
    BY <1>2 DEF Shown, Own
<1>7. PullsShown'
    BY <1>1, <1>2, <1>5, <1>6 DEF PullsShown
<1>8. Snapshots'
    <2>1. ASSUME NEW x, Faithful(x), pc # "idle" PROVE Faithful(x)'
        <3>1. CASE x.n = n
            BY <1>1, <1>2, <1>5, <2>1, <3>1 DEF Faithful
        <3>2. CASE x.n # n
            BY <1>2, <2>1, <3>2 DEF Faithful
        <3> QED BY <3>1, <3>2
    <2>2. pc = "idle" => run.batch = {}
        BY Blank DEF Times
    <2> QED BY <2>1, <2>2 DEF Snapshots, InHand, Item
<1>9. Remaining'
    <2> SUFFICES ASSUME pc \notin {"idle", "list"}, NEW m \in Pulls,
                        pulls'[m].rev # 0, pulls'[m].rev <= run.started
                 PROVE  Shown(m)' \/ (\E c \in run.batch : c.n = m) \/ (InHand /\ Item.n = m)
        BY DEF Remaining, InHand, Item
    <2>1. m # n
        BY <1>1, <1>2, <1>5
    <2> QED BY <1>2, <1>6, <2>1 DEF Remaining
<1>10. Halfway'
    <2>1. Own(n)' => Own(n)
        BY <1>1, <1>2 DEF Own
    <2> QED BY <1>6, <2>1 DEF Halfway, Item
<1> QED BY <1>3, <1>4, <1>7, <1>8, <1>9, <1>10

LEMMA OpenPullStep ==
    ASSUME Inv, NEW n \in Pulls, OpenPull(n)
    PROVE  Inv'
BY ChangeStep, ConstantsAssumption DEF OpenPull, IsNew, Names, Branches

LEMMA EditPullStep ==
    ASSUME Inv, NEW n \in Pulls, EditPull(n)
    PROVE  Inv'
<1>1. pulls[n].head \in Names /\ pulls[n].base \in Names
    BY DEF Inv, TypeOK
<1> QED BY <1>1, ChangeStep DEF EditPull

LEMMA RetargetPullStep ==
    ASSUME Inv, NEW n \in Pulls, RetargetPull(n)
    PROVE  Inv'
<1>1. pulls[n].head \in Names /\ Bases \subseteq Names
    BY DEF Inv, TypeOK, Names, Branches
<1>2. pulls[n].rev = 0 => FALSE
    BY DEF RetargetPull, Inv, Times
<1> QED BY <1>1, <1>2, ChangeStep DEF RetargetPull

LEMMA MoveBranchStep ==
    ASSUME Inv, NEW b \in Branches, MoveBranch(b)
    PROVE  Inv'
<1> USE DEF Inv, MoveBranch
<1>1. TypeOK'
    BY DEF TypeOK
<1>2. Times'
    BY DEF Times, TypeOK
<1>3. PullsShown' /\ Remaining'
    BY DEF PullsShown, Remaining, Shown, Own, InHand, Item
<1>4. Snapshots' /\ Halfway'
    BY DEF Snapshots, Halfway, Faithful, Own, InHand, Item
<1> QED BY <1>1, <1>2, <1>3, <1>4

(* A merge is the one change a run does not see in what it read. *)
LEMMA MergeCopyStep ==
    ASSUME Inv, NEW n \in Pulls, MergeCopy(n)
    PROVE  Inv'
<1> USE DEF Inv, MergeCopy
<1>1. TypeOK'
    BY DEF TypeOK, Copy
<1>2. Times'
    BY DEF Times, TypeOK
<1>3. \A m \in Pulls : /\ copies'[m].kind = copies[m].kind /\ copies'[m].rev = copies[m].rev
                       /\ copies'[m].state \in {copies[m].state, "merged"}
    BY DEF TypeOK, Copy
<1>4. PullsShown' /\ Remaining'
    BY <1>3 DEF PullsShown, Remaining, Shown, Own, InHand, Item
<1>5. Snapshots'
    BY DEF Snapshots, Faithful, InHand, Item
<1>6. Halfway'
    BY <1>3, <1>5 DEF Halfway, Own, Item, Snapshots, Faithful, InHand
<1> QED BY <1>1, <1>2, <1>4, <1>5, <1>6

LEMMA RestoredStep ==
    ASSUME Inv, NEW n \in Pulls, Restored(n)
    PROVE  Inv'
<1>1. PICK h \in Heads, b \in Bases :
        copies' = [copies EXCEPT ![n] = [NoCopy EXCEPT !.kind = "pull", !.head = h, !.base = b]]
    BY DEF Restored
<1>2. /\ rev \in Nat /\ rev' = rev + 1 /\ UNCHANGED <<here, cursor, pc, run>>
      /\ pulls[n].rev = 0
    BY DEF Restored, IsNew, Inv, TypeOK
<1>11. /\ pulls' = [pulls EXCEPT ![n] = [pulls[n] EXCEPT !.rev = rev + 1, !.state = "open"]]
       /\ pulls'[n].rev = rev + 1 /\ pulls'[n].state = "open"
       /\ \A m \in Pulls \ {n} : pulls'[m] = pulls[m]
    <2>1. pulls' = [pulls EXCEPT ![n].rev = rev + 1, ![n].state = "open"]
        BY DEF Restored
    <2> QED BY <2>1 DEF Inv, TypeOK
<1>12. copies'[n].kind = "pull" /\ \A m \in Pulls \ {n} : copies'[m] = copies[m]
    BY <1>1 DEF Inv, TypeOK, NoCopy
<1> USE DEF Inv
<1>10. TypeOK'
    <2>1. [NoCopy EXCEPT !.kind = "pull", !.head = h, !.base = b] \in Copy
        BY DEF Copy, NoCopy, Names, Branches
    <2>2. copies' \in [Pulls -> Copy]
        BY <1>1, <2>1 DEF TypeOK
    <2>3. pulls' \in [Pulls -> [rev : Nat, state : {"open", "closed"}, head : Names, base : Names]]
        <3>1. [pulls[n] EXCEPT !.rev = rev + 1, !.state = "open"]
                \in [rev : Nat, state : {"open", "closed"}, head : Names, base : Names]
            <4>1. pulls[n] \in [rev : Nat, state : {"open", "closed"}, head : Names, base : Names]
                  /\ rev + 1 \in Nat
                BY <1>2 DEF TypeOK
            <4>2. ASSUME NEW p \in [rev : Nat, state : {"open", "closed"}, head : Names, base : Names],
                         NEW v \in Nat
                  PROVE  [p EXCEPT !.rev = v, !.state = "open"]
                            \in [rev : Nat, state : {"open", "closed"}, head : Names, base : Names]
                OBVIOUS
            <4> QED BY <4>1, <4>2
        <3> QED BY <1>11, <3>1 DEF TypeOK
    <2> QED BY <1>2, <2>2, <2>3 DEF TypeOK
<1>3. Times'
    BY <1>2, <1>11 DEF Times, TypeOK
<1>4. cursor \in Nat /\ cursor <= rev /\ run.started \in Nat /\ (pc # "idle" => run.started <= rev)
    BY DEF Times, TypeOK
<1>5. \A m \in Pulls \ {n} : (Shown(m) <=> Shown(m)') /\ (Own(m) <=> Own(m)')
    BY <1>2, <1>11, <1>12 DEF Shown, Own
<1>6. PullsShown'
    BY <1>2, <1>11, <1>4, <1>5 DEF PullsShown
<1>7. Snapshots'
    BY <1>2, <1>11, <1>12 DEF Snapshots, Faithful, InHand, Item
<1>8. Remaining'
    <2> SUFFICES ASSUME pc \notin {"idle", "list"}, NEW m \in Pulls,
                        pulls'[m].rev # 0, pulls'[m].rev <= run.started
                 PROVE  Shown(m)' \/ (\E c \in run.batch : c.n = m) \/ (InHand /\ Item.n = m)
        BY <1>2 DEF Remaining, InHand, Item
    <2>1. m # n
        BY <1>2, <1>11, <1>4
    <2> QED BY <1>2, <1>11, <1>12, <1>5, <2>1 DEF Remaining
<1>9. Halfway'
    <2>1. InHand => Item.n \in Pulls \ {n}
        BY <1>2, <1>11, <1>12 DEF Snapshots, Faithful
    <2> QED BY <1>2, <1>11, <1>12, <1>5, <2>1 DEF Halfway, Item, InHand
<1> QED BY <1>3, <1>6, <1>7, <1>8, <1>9, <1>10

-----------------------------------------------------------------------------
(* A run that ends, and a run up to its items. *)

(* Giving up forgets everything and moves no cursor. *)
LEMMA GiveUpStep ==
    ASSUME Inv, GiveUp, UNCHANGED <<people, here, cursor>>
    PROVE  Inv'
<1> USE DEF Inv, GiveUp, people
<1>1. TypeOK'
    BY Blank DEF TypeOK, Places
<1>2. Times' /\ PullsShown' /\ Remaining'
    BY DEF Times, PullsShown, Remaining, Shown, Own
<1>3. Snapshots' /\ Halfway'
    BY Blank DEF Snapshots, Halfway, InHand, Own
<1> QED BY <1>1, <1>2, <1>3

LEMMA StartRunStep ==
    ASSUME Inv, StartRun
    PROVE  Inv'
<1> USE DEF Inv, StartRun, people
<1>1. TypeOK'
    BY Blank DEF TypeOK, Places, NoRun
<1>2. Times' /\ PullsShown' /\ Remaining'
    BY DEF Times, PullsShown, Remaining, Shown, Own, TypeOK, NoRun
<1>3. Snapshots' /\ Halfway'
    BY Blank DEF Snapshots, Halfway, InHand, Own, NoRun
<1> QED BY <1>1, <1>2, <1>3

(* What is not listed is before the cursor, and shown. *)
LEMMA ListPullsStep ==
    ASSUME Inv, ListPulls
    PROVE  Inv'
<1> USE DEF Inv, ListPulls, people
<1> DEFINE snap(n) == [n |-> n, rev |-> pulls[n].rev, state |-> pulls[n].state,
                       head |-> NoBranch, base |-> NoBranch]
           changed == {m \in Pulls : pulls[m].rev # 0 /\ pulls[m].rev >= cursor}
<1>1. /\ run' = [run EXCEPT !.batch = {snap(n) : n \in changed}]
      /\ run'.batch = {snap(n) : n \in changed}
      /\ run'.started = run.started /\ run'.item = run.item
    BY DEF TypeOK
<1>2. \A n \in Pulls : snap(n) \in Snapshot
    BY PullsNat DEF TypeOK, Snapshot, Names
<1>3. TypeOK'
    <2>1. run'.batch \subseteq Snapshot /\ \A b, c \in run'.batch : b.n = c.n => b = c
        BY <1>1, <1>2
    <2> HIDE DEF snap
    <2> QED BY <1>1, <2>1 DEF TypeOK, Places
<1>4. Times' /\ PullsShown'
    BY <1>1 DEF Times, PullsShown, Shown, Own
<1>5. Snapshots' /\ Halfway'
    BY <1>1 DEF Snapshots, Halfway, InHand, Own, Faithful
<1>6. Remaining'
    <2> SUFFICES ASSUME NEW m \in Pulls, pulls[m].rev # 0
                 PROVE  Shown(m)' \/ \E b \in run'.batch : b.n = m
        BY DEF Remaining
    <2>1. CASE pulls[m].rev >= cursor
        <3>1. snap(m) \in run'.batch /\ snap(m).n = m
            BY <1>1, <2>1
        <3> QED BY <3>1
    <2>2. CASE pulls[m].rev <= cursor
        BY <2>2 DEF PullsShown, Shown, Own
    <2> QED BY <2>1, <2>2 DEF TypeOK
<1> QED BY <1>3, <1>4, <1>5, <1>6

(* The branches say nothing of the number, the revision or the state. *)
LEMMA FillBranchesStep ==
    ASSUME Inv, FillBranches
    PROVE  Inv'
<1> USE DEF Inv, FillBranches, Bare, people
<1>1. CASE UNCHANGED run /\ pc' = "next"
    <2>1. TypeOK' /\ Times'
        BY <1>1 DEF TypeOK, Times, Places
    <2>2. PullsShown' /\ Remaining' /\ Snapshots' /\ Halfway'
        BY <1>1 DEF PullsShown, Remaining, Shown, Own, Snapshots, Halfway, Faithful, InHand, Item
    <2> QED BY <2>1, <2>2
<1>2. CASE UNCHANGED pc
    <2>1. PICK b \in run.batch : run' = [run EXCEPT !.batch = (@ \ {b}) \cup
                  {[b EXCEPT !.head = pulls[b.n].head, !.base = pulls[b.n].base]}]
        BY <1>2
    <2> DEFINE filled == [b EXCEPT !.head = pulls[b.n].head, !.base = pulls[b.n].base]
    <2>2. /\ b \in Snapshot /\ Faithful(b)
          /\ run'.batch = (run.batch \ {b}) \cup {filled}
          /\ run'.started = run.started /\ run'.item = run.item
        BY <2>1 DEF TypeOK, Snapshots
    <2>3. filled.n = b.n /\ filled.rev = b.rev /\ filled.state = b.state /\ filled \in Snapshot
        BY <2>2 DEF TypeOK, Snapshot, Faithful
    <2> HIDE DEF filled
    <2>4. TypeOK'
        <3>1. run'.batch \subseteq Snapshot
            BY <2>2, <2>3 DEF TypeOK
        <3>2. \A c, d \in run'.batch : c.n = d.n => c = d
            <4>1. \A c, d \in run.batch : c.n = d.n => c = d
                BY DEF TypeOK
            <4> HIDE DEF FillBranches, Inv
            <4> QED BY <2>2, <2>3, <4>1
        <3>3. run' \in [started : Nat, batch : SUBSET Snapshot, item : Snapshot, cur : Copy, to : Names]
            <4>1. \A B \in SUBSET Snapshot : [run EXCEPT !.batch = B]
                     \in [started : Nat, batch : SUBSET Snapshot, item : Snapshot, cur : Copy, to : Names]
                BY DEF TypeOK
            <4>2. run' = [run EXCEPT !.batch = run'.batch]
                BY <2>1, <2>2 DEF TypeOK
            <4> QED BY <3>1, <4>1, <4>2
        <3> QED BY <1>2, <3>2, <3>3 DEF TypeOK
    <2>5. Times' /\ PullsShown'
        BY <1>2, <2>2 DEF Times, PullsShown, Shown, Own
    <2>6. Snapshots'
        <3>1. pulls' = pulls /\ pc' = "fill" /\ Faithful(filled)
            <4>1. pulls' = pulls /\ pc' = "fill"
                BY <1>2
            <4> HIDE DEF FillBranches, Inv
            <4> QED BY <2>2, <2>3, <4>1 DEF Faithful
        <3>2. \A c \in run'.batch : Faithful(c)
            BY <2>2, <3>1 DEF Snapshots
        <3> QED BY <1>2, <2>2, <3>1, <3>2 DEF Snapshots, Faithful, InHand
    <2>8. Halfway'
        BY <1>2 DEF Halfway, Own
    <2>7. Remaining'
        <3>1. \A m \in Pulls : (\E c \in run.batch : c.n = m) => \E c \in run'.batch : c.n = m
            BY <2>2, <2>3
        <3> QED BY <1>2, <2>2, <3>1 DEF Remaining, Shown, Own, InHand, Item
    <2> QED BY <2>4, <2>5, <2>6, <2>7, <2>8
<1> QED BY <1>1, <1>2

(* A run that has nothing left has shown everything up to its start. *)
LEMMA FinishRunStep ==
    ASSUME Inv, FinishRun
    PROVE  Inv'
<1> USE DEF Inv, FinishRun, people
<1>1. TypeOK'
    BY Blank DEF TypeOK, Places
<1>2. PullsShown'
    BY DEF PullsShown, Remaining, Shown, Own, InHand
<1>3. Times'
    BY DEF Times, TypeOK
<1>4. Snapshots' /\ Halfway' /\ Remaining'
    BY Blank DEF Snapshots, Halfway, Remaining, InHand, Own
<1> QED BY <1>1, <1>2, <1>3, <1>4
-----------------------------------------------------------------------------
(* One item. *)

LEMMA TakeStep ==
    ASSUME Inv, NEW b \in run.batch, NEW next \in {"create", "issue", "update", "target"},
           pc = "next", Take(b, next),
           next \in {"create", "issue"} => copies[b.n].kind = "none",
           next = "create" => b.state = "open",
           next = "update" => copies[b.n].kind = "issue",
           next = "target" => copies[b.n].kind = "pull"
    PROVE  Inv'
<1> USE DEF Inv, Take, people
<1>1. /\ b \in Snapshot /\ Faithful(b) /\ copies[b.n] \in Copy
      /\ run'.batch = run.batch \ {b} /\ run'.item = b /\ run'.cur = copies[b.n]
      /\ run'.started = run.started
    BY DEF TypeOK, Snapshots, Faithful
<1>2. TypeOK'
    <2>1. run' \in [started : Nat, batch : SUBSET Snapshot, item : Snapshot, cur : Copy, to : Names]
        BY <1>1 DEF TypeOK
    <2> QED BY <1>1, <2>1 DEF TypeOK, Places
<1>3. Times' /\ PullsShown'
    BY <1>1 DEF Times, PullsShown, Shown, Own
<1>4. Snapshots'
    BY <1>1 DEF Snapshots, Faithful, InHand, Item
<1>5. Halfway'
    BY <1>1 DEF Halfway, Own, Item, Copy
<1>6. Remaining'
    <2> SUFFICES ASSUME NEW m \in Pulls, pulls[m].rev # 0, pulls[m].rev <= run.started
                 PROVE  Shown(m) \/ (\E c \in run'.batch : c.n = m) \/ Item'.n = m
        BY <1>1 DEF Remaining, InHand, Item, Shown, Own
    <2>1. CASE \E c \in run.batch : c.n = m
        BY <1>1, <2>1 DEF Item
    <2>2. CASE Shown(m)
        BY <2>2
    <2> QED BY <2>1, <2>2 DEF Remaining, InHand
<1> QED BY <1>2, <1>3, <1>4, <1>5, <1>6

(* The item in hand is written: what is shown of it now is what it says, unless it
   changed since the run started. *)
LEMMA DoneStep ==
    ASSUME Inv, InHand, NEW copy \in Copy, Done(copy), UNCHANGED <<people, here, cursor>>,
           copy.kind # "none", copy.rev = Item.rev, copy.state \in {Item.state, "merged"}
    PROVE  Inv'
<1> USE DEF Inv, Done, people
<1>1. /\ run'.batch = run.batch /\ run'.started = run.started
      /\ pc' = "next" /\ pc # "idle" /\ ~InHand'
    BY DEF TypeOK, InHand
<1>11. PICK i \in Pulls : i = Item.n
    BY DEF Snapshots, Faithful
<1>2. copies'[i] = copy /\ \A m \in Pulls \ {i} : copies'[m] = copies[m]
    BY <1>11 DEF TypeOK
<1>3. TypeOK'
    <2>1. run' \in [started : Nat, batch : SUBSET Snapshot, item : Snapshot, cur : Copy, to : Names]
        BY Blank DEF TypeOK, Names
    <2>2. copies' \in [Pulls -> Copy]
        BY DEF TypeOK
    <2> QED BY <1>1, <2>1, <2>2 DEF TypeOK, Places
<1>4. Times'
    BY <1>1 DEF Times
<1>5. \A m \in Pulls \ {i} : Shown(m)' <=> Shown(m)
    BY <1>2 DEF Shown, Own
<1>6. pulls[i].rev <= run.started => Shown(i)'
    BY <1>2, <1>11 DEF Snapshots, Faithful, Shown, Own
<1>7. PullsShown'
    <2>1. cursor \in Nat /\ run.started \in Nat /\ cursor <= run.started
        BY <1>1 DEF Times, TypeOK
    <2>2. pulls[i].rev \in Nat
        BY DEF TypeOK
    <2> QED BY <1>5, <1>6, <2>1, <2>2 DEF PullsShown
<1>8. Snapshots'
    BY <1>1 DEF Snapshots, Faithful
<1>9. Halfway'
    BY <1>1, <1>2, <1>11 DEF Halfway, Own
<1>10. Remaining'
    BY <1>1, <1>5, <1>6, <1>11 DEF Remaining, InHand
<1> QED BY <1>3, <1>4, <1>7, <1>8, <1>9, <1>10

(* The item in hand is written in part: what was shown of it still is. *)
LEMMA PartStep ==
    ASSUME Inv, InHand, NEW copy \in Copy, NEW next \in {"update", "event"},
           copies' = [copies EXCEPT ![Item.n] = copy], pc' = next,
           UNCHANGED <<people, here, cursor, run>>,
           Shown(Item.n) /\ Faithful(Item) /\ pulls[Item.n].rev <= run.started => Shown(Item.n)',
           next = "update" => copy.kind = "issue",
           next = "event" => /\ copy.kind = "pull" /\ copy.rev = Item.rev
                             /\ copy.state \in {run.cur.state, "merged"}
    PROVE  Inv'
<1> USE DEF Inv, people
<1>1. /\ copies'[Item.n] = copy /\ Item.n \in Pulls /\ Faithful(Item)
      /\ \A m \in Pulls \ {Item.n} : copies'[m] = copies[m]
    BY DEF TypeOK, Snapshots, Faithful
<1>2. TypeOK'
    <2>1. copies' \in [Pulls -> Copy]
        BY DEF TypeOK
    <2> QED BY <2>1 DEF TypeOK, Places
<1>3. Times'
    BY DEF Times, InHand
<1>9. Item' = Item
    BY DEF Item
<1>4. \A m \in Pulls \ {Item.n} : Shown(m)' <=> Shown(m)
    BY <1>1 DEF Shown, Own
<1>5. PullsShown'
    <2>1. cursor \in Nat /\ run.started \in Nat /\ cursor <= run.started
        BY DEF Times, TypeOK, InHand
    <2>2. pulls[Item.n].rev \in Nat
        BY <1>1 DEF TypeOK
    <2> QED BY <1>1, <1>4, <1>9, <2>1, <2>2 DEF PullsShown
<1>6. Snapshots'
    BY DEF Snapshots, Faithful, Item, InHand
<1>7. Halfway'
    BY <1>1 DEF Halfway, Own, Item
<1>8. Remaining'
    BY <1>4 DEF Remaining, InHand, Item
<1> QED BY <1>2, <1>3, <1>5, <1>6, <1>7, <1>8

LEMMA CheckBranchesStep ==
    ASSUME Inv, NEW fails \in BOOLEAN, CheckBranches(fails)
    PROVE  Inv'
<1>1. PICK b \in run.batch :
        /\ IsNext(b) /\ copies[b.n].kind = "none"
        /\ Take(b, IF TargetKind(b) = "pull" /\ mergeable(b) /\ hasBranches({b.head, b.base}, fails)
                   THEN "create" ELSE "issue")
    BY DEF CheckBranches
<1> QED BY <1>1, TakeStep DEF IsNext, TargetKind

LEMMA TakeIssueStep ==
    ASSUME Inv, TakeIssue
    PROVE  Inv'
BY TakeStep DEF TakeIssue, IsNext

LEMMA ReadMergeRequestStep ==
    ASSUME Inv, ReadMergeRequest
    PROVE  Inv'
BY TakeStep DEF ReadMergeRequest, IsNext

LEMMA CreateMergeRequestStep ==
    ASSUME Inv, CreateMergeRequest
    PROVE  Inv'
<1>1. pc = "create" /\ InHand /\ UNCHANGED <<people, here, cursor>>
    BY DEF CreateMergeRequest, InHand
<1>2. CASE GiveUp
    BY <1>1, <1>2, GiveUpStep
<1>3. CASE pc' = "issue" /\ UNCHANGED <<copies, run>>
    <2> USE DEF Inv, people
    <2>1. TypeOK' /\ Times'
        BY <1>1, <1>3 DEF TypeOK, Times, Places
    <2>2. PullsShown' /\ Remaining'
        BY <1>1, <1>3 DEF PullsShown, Remaining, Shown, Own, InHand, Item
    <2>3. Snapshots' /\ Halfway'
        BY <1>1, <1>3 DEF Snapshots, Halfway, Faithful, Own, InHand, Item
    <2> QED BY <2>1, <2>2, <2>3
<1>4. CASE Done([kind |-> "pull", rev |-> Item.rev, state |-> "open",
                 head |-> Item.head, base |-> Item.base])
    <2> DEFINE copy == [kind |-> "pull", rev |-> Item.rev, state |-> "open",
                        head |-> Item.head, base |-> Item.base]
    <2>1. copy \in Copy /\ Item.state = "open"
        BY <1>1 DEF Inv, TypeOK, Copy, Snapshot, Item, Halfway
    <2> QED BY <1>1, <1>4, <2>1, DoneStep
<1> QED BY <1>2, <1>3, <1>4 DEF CreateMergeRequest

LEMMA CreateIssueStep ==
    ASSUME Inv, CreateIssue
    PROVE  Inv'
<1> DEFINE copy == [NoCopy EXCEPT !.kind = "issue", !.rev = Item.rev]
<1>1. pc = "issue" /\ InHand /\ UNCHANGED <<people, here, cursor>>
    BY DEF CreateIssue, InHand
<1>2. copy \in Copy /\ copy.kind = "issue" /\ copy.rev = Item.rev /\ copy.state = "open"
    BY DEF Inv, TypeOK, Copy, NoCopy, Snapshot, Item, Names
<1>3. copies[Item.n].kind = "none"
    BY <1>1 DEF Inv, Halfway
<1>4. CASE Item.state = "open" /\ Done(copy)
    <2> HIDE DEF copy
    <2> QED BY <1>1, <1>2, <1>4, DoneStep
<1>5. CASE copies' = [copies EXCEPT ![Item.n] = copy] /\ pc' = "update" /\ UNCHANGED run
    <2> HIDE DEF copy
    <2>1. ~Shown(Item.n)
        BY <1>3 DEF Shown
    <2> QED BY <1>1, <1>2, <1>5, <2>1, PartStep
<1> QED BY <1>4, <1>5 DEF CreateIssue

LEMMA UpdateIssueStep ==
    ASSUME Inv, UpdateIssue
    PROVE  Inv'
<1> DEFINE copy == [copies[Item.n] EXCEPT !.rev = Item.rev, !.state = Item.state]
<1>1. pc = "update" /\ InHand /\ UNCHANGED <<people, here, cursor>> /\ Done(copy)
    BY DEF UpdateIssue, InHand
<1>2. copies[Item.n] \in Copy /\ copies[Item.n].kind = "issue"
      /\ Item.rev \in Nat /\ Item.state \in {"open", "closed"}
    BY <1>1 DEF Inv, TypeOK, Halfway, Snapshots, Faithful, Snapshot, Item
<1>3. copy \in Copy /\ copy.kind = "issue" /\ copy.rev = Item.rev /\ copy.state = Item.state
    BY <1>2 DEF Copy
<1> QED BY <1>1, <1>3, DoneStep

LEMMA CheckBaseStep ==
    ASSUME Inv, NEW fails \in BOOLEAN, CheckBase(fails)
    PROVE  Inv'
<1> USE DEF Inv, people
<1>1. PICK to \in Names : run' = [run EXCEPT !.to = to]
    <2>1. Item.base \in Names /\ NoBranch \in Names
        BY DEF TypeOK, Snapshot, Item, Names
    <2> QED BY <2>1 DEF CheckBase
<1>2. pc = "target" /\ pc' = "write" /\ UNCHANGED <<people, here, copies, cursor>>
    BY DEF CheckBase
<1>3. run'.batch = run.batch /\ run'.item = run.item /\ run'.cur = run.cur
      /\ run'.started = run.started
    BY <1>1 DEF TypeOK
<1>4. TypeOK' /\ Times'
    BY <1>1, <1>2 DEF TypeOK, Times, Places
<1>5. PullsShown' /\ Remaining'
    BY <1>2, <1>3 DEF PullsShown, Remaining, Shown, Own, InHand, Item
<1>6. Snapshots' /\ Halfway'
    BY <1>2, <1>3 DEF Snapshots, Halfway, Faithful, Own, InHand, Item
<1> QED BY <1>4, <1>5, <1>6

LEMMA WriteMergeRequestStep ==
    ASSUME Inv, WriteMergeRequest
    PROVE  Inv'
<1>1. pc = "write" /\ InHand /\ UNCHANGED <<people, here, cursor>>
    BY DEF WriteMergeRequest, InHand
<1>2. CASE GiveUp
    BY <1>1, <1>2, GiveUpStep
<1>3. CASE run' = [run EXCEPT !.to = NoBranch] /\ UNCHANGED <<copies, pc>>
    <2> USE DEF Inv, people
    <2>1. run'.batch = run.batch /\ run'.item = run.item /\ run'.cur = run.cur
          /\ run'.started = run.started
        BY <1>3 DEF TypeOK
    <2>2. TypeOK' /\ Times'
        BY <1>1, <1>3 DEF TypeOK, Times, Names
    <2>3. PullsShown' /\ Remaining'
        BY <1>1, <1>3, <2>1 DEF PullsShown, Remaining, Shown, Own, InHand, Item
    <2>4. Snapshots' /\ Halfway'
        BY <1>1, <1>3, <2>1 DEF Snapshots, Halfway, Faithful, Own, InHand, Item
    <2> QED BY <2>2, <2>3, <2>4
<1>4. CASE /\ copies' = [copies EXCEPT ![Item.n].rev = Item.rev,
                                      ![Item.n].base = IF run.to # NoBranch THEN run.to ELSE @]
           /\ pc' = "event" /\ UNCHANGED run
    <2> DEFINE copy == [copies[Item.n] EXCEPT !.rev = Item.rev,
                                             !.base = IF run.to # NoBranch THEN run.to ELSE @]
    <2>1. /\ Item.n \in Pulls /\ copies \in [Pulls -> Copy] /\ copies[Item.n].kind = "pull"
          /\ copies[Item.n].state \in {run.cur.state, "merged"}
          /\ Item.rev \in Nat /\ run.to \in Names
        BY <1>1 DEF Inv, TypeOK, Halfway, Snapshots, Faithful, Snapshot, Item
    <2>2. /\ copy \in Copy /\ copy.kind = copies[Item.n].kind
          /\ copy.rev = Item.rev /\ copy.state = copies[Item.n].state
        BY <2>1 DEF Copy
    <2>3. copies' = [copies EXCEPT ![Item.n] = copy] /\ copies'[Item.n] = copy
        BY <1>4, <2>1
    <2> HIDE DEF copy
    <2>4. Shown(Item.n) /\ Faithful(Item) /\ pulls[Item.n].rev <= run.started => Shown(Item.n)'
        <3>1. Item' = Item
            BY <1>4 DEF Item
        <3> QED BY <1>1, <2>2, <2>3, <3>1 DEF Shown, Own, Faithful, people
    <2> QED BY <1>1, <1>4, <2>1, <2>2, <2>3, <2>4, PartStep
<1> QED BY <1>2, <1>3, <1>4 DEF WriteMergeRequest, SendWithout

(* An event leaves what it moves a merge, or in the state it is for. *)
LEMMA MovedState ==
    ASSUME NEW copy \in Copy, NEW event \in {"close", "reopen", "none"}
    PROVE  /\ Moved(copy, event) \in Copy
           /\ Moved(copy, event).kind = copy.kind /\ Moved(copy, event).rev = copy.rev
           /\ Moved(copy, event).state =
                IF copy.state = "merged" \/ event = "none" THEN copy.state
                ELSE IF event = "close" THEN "closed" ELSE "open"
BY DEF Moved, Copy

LEMMA SetMergeRequestStateStep ==
    ASSUME Inv, SetMergeRequestState
    PROVE  Inv'
<1> DEFINE event == mergeRequestStateEvent(run.cur.state, Item.state)
           copy == Moved(copies[Item.n], event)
<1>1. pc = "event" /\ InHand /\ UNCHANGED <<people, here, cursor>>
    BY DEF SetMergeRequestState, InHand
<1>2. /\ copies[Item.n] \in Copy /\ copies[Item.n].kind = "pull" /\ copies[Item.n].rev = Item.rev
      /\ copies[Item.n].state \in {run.cur.state, "merged"}
      /\ run.cur.state \in {"open", "closed", "merged"} /\ Item.state \in {"open", "closed"}
    BY <1>1 DEF Inv, TypeOK, Halfway, Snapshots, Faithful, Snapshot, Copy, Item
<1>3. event \in {"close", "reopen", "none"}
    BY DEF mergeRequestStateEvent
<1>4. copy \in Copy /\ copy.kind = "pull" /\ copy.rev = Item.rev
    BY <1>2, <1>3, MovedState
<1>5. copy.state \in {Item.state, "merged"}
    <2>1. CASE copies[Item.n].state = "merged"
        BY <1>2, <1>3, <2>1, MovedState
    <2>2. CASE copies[Item.n].state # "merged"
        BY <1>2, <1>3, <2>2, MovedState DEF mergeRequestStateEvent
    <2> QED BY <2>1, <2>2
<1>6. CASE GiveUp
    BY <1>1, <1>6, GiveUpStep
<1>7. CASE Done(copy)
    <2> HIDE DEF copy
    <2> QED BY <1>1, <1>4, <1>5, <1>7, DoneStep
<1> QED BY <1>6, <1>7 DEF SetMergeRequestState

(* The state of an own merge request: nothing else of it is carried. *)
LEMMA SetStateStep ==
    ASSUME Inv, SetState
    PROVE  Inv'
<1>1. PICK b \in run.batch :
        /\ IsNext(b) /\ Own(b.n) /\ UNCHANGED <<people, here, cursor>>
        /\ \/ GiveUp
           \/ /\ copies' = [copies EXCEPT ![b.n] = Moved(@, stateEvent(b.state))]
              /\ run' = [run EXCEPT !.batch = @ \ {b}]
              /\ UNCHANGED pc
    BY DEF SetState
<1>2. CASE GiveUp
    BY <1>1, <1>2, GiveUpStep
<1>3. CASE /\ copies' = [copies EXCEPT ![b.n] = Moved(@, stateEvent(b.state))]
           /\ run' = [run EXCEPT !.batch = @ \ {b}]
           /\ UNCHANGED pc
    <2> USE DEF Inv, people
    <2>1. /\ pc = "next" /\ b \in Snapshot /\ Faithful(b) /\ copies[b.n] \in Copy
          /\ copies[b.n].kind # "none" /\ b.state \in {"open", "closed"}
        BY <1>1 DEF IsNext, TypeOK, Snapshots, Faithful, Halfway, Snapshot
    <2> DEFINE copy == Moved(copies[b.n], stateEvent(b.state))
    <2>2. /\ copy \in Copy /\ copy.kind = copies[b.n].kind
          /\ copy.state \in {b.state, "merged"}
        BY <2>1, MovedState DEF stateEvent
    <2>3. /\ b.n \in Pulls /\ copies' = [copies EXCEPT ![b.n] = copy] /\ copies'[b.n] = copy
          /\ \A m \in Pulls \ {b.n} : copies'[m] = copies[m]
        BY <1>3, <2>1 DEF TypeOK, Faithful
    <2> HIDE DEF copy
    <2>4. /\ run'.batch = run.batch \ {b} /\ run'.started = run.started
        BY <1>3 DEF TypeOK
    <2>5. TypeOK'
        <3>1. run' \in [started : Nat, batch : SUBSET Snapshot, item : Snapshot, cur : Copy, to : Names]
            BY <1>3 DEF TypeOK
        <3>2. copies' \in [Pulls -> Copy]
            BY <2>2, <2>3 DEF TypeOK
        <3> QED BY <1>1, <1>3, <2>4, <3>1, <3>2 DEF TypeOK
    <2>6. Times'
        BY <1>1, <1>3, <2>1, <2>4 DEF Times
    <2>7. \A m \in Pulls \ {b.n} : Shown(m)' <=> Shown(m)
        BY <1>1, <2>3 DEF Shown, Own
    <2>8. pulls[b.n].rev <= run.started => Shown(b.n)'
        BY <1>1, <2>1, <2>2, <2>3 DEF Shown, Own, Faithful
    <2>9. PullsShown'
        <3>1. cursor \in Nat /\ run.started \in Nat /\ cursor <= run.started /\ pulls[b.n].rev \in Nat
            BY <2>1, <2>3 DEF Times, TypeOK
        <3> QED BY <1>1, <2>7, <2>8, <3>1 DEF PullsShown
    <2>10. Snapshots' /\ Halfway'
        BY <1>1, <1>3, <2>1, <2>2, <2>3, <2>4 DEF Snapshots, Faithful, Halfway, Own, InHand
    <2>11. Remaining'
        <3> SUFFICES ASSUME NEW m \in Pulls, pulls[m].rev # 0, pulls[m].rev <= run.started
                     PROVE  Shown(m)' \/ \E c \in run'.batch : c.n = m
            BY <1>1, <2>4 DEF Remaining
        <3>1. CASE m = b.n
            BY <2>8, <3>1
        <3>2. CASE m # b.n
            BY <2>1, <2>4, <2>7, <3>2 DEF Remaining, InHand
        <3> QED BY <3>1, <3>2
    <2> QED BY <2>5, <2>6, <2>9, <2>10, <2>11
<1> QED BY <1>1, <1>2, <1>3

-----------------------------------------------------------------------------

LEMMA NextStep == Inv /\ [Next]_vars => Inv'
<1> SUFFICES ASSUME Inv, [Next]_vars PROVE Inv'
    OBVIOUS
<1>1. CASE Step
    <2>1. CASE ListPulls
        BY <2>1, ListPullsStep
    <2>2. CASE FillBranches
        BY <2>2, FillBranchesStep
    <2>3. CASE FinishRun
        BY <2>3, FinishRunStep
    <2>4. CASE CheckBranches(FALSE)
        BY <2>4, CheckBranchesStep
    <2>5. CASE CreateMergeRequest
        BY <2>5, CreateMergeRequestStep
    <2>6. CASE CreateIssue
        BY <2>6, CreateIssueStep
    <2>7. CASE TakeIssue
        BY <2>7, TakeIssueStep
    <2>8. CASE UpdateIssue
        BY <2>8, UpdateIssueStep
    <2>9. CASE ReadMergeRequest
        BY <2>9, ReadMergeRequestStep
    <2>10. CASE CheckBase(FALSE)
        BY <2>10, CheckBaseStep
    <2>11. CASE WriteMergeRequest
        BY <2>11, WriteMergeRequestStep
    <2>12. CASE SetMergeRequestState
        BY <2>12, SetMergeRequestStateStep
    <2>13. CASE SetState
        BY <2>13, SetStateStep
    <2> QED BY <1>1, <2>1, <2>2, <2>3, <2>4, <2>5, <2>6, <2>7, <2>8, <2>9, <2>10, <2>11,
               <2>12, <2>13 DEF Step
<1>2. ASSUME NEW n \in Pulls, OpenPull(n) PROVE Inv'
    BY <1>2, OpenPullStep
<1>3. ASSUME NEW n \in Pulls, EditPull(n) PROVE Inv'
    BY <1>3, EditPullStep
<1>4. ASSUME NEW n \in Pulls, RetargetPull(n) PROVE Inv'
    BY <1>4, RetargetPullStep
<1>5. ASSUME NEW n \in Pulls, MergeCopy(n) PROVE Inv'
    BY <1>5, MergeCopyStep
<1>6. ASSUME NEW n \in Pulls, Restored(n) PROVE Inv'
    BY <1>6, RestoredStep
<1>7. ASSUME NEW b \in Branches, MoveBranch(b) PROVE Inv'
    BY <1>7, MoveBranchStep
<1>8. CASE StartRun
    BY <1>8, StartRunStep
<1>9. CASE Interrupt
    BY <1>9, GiveUpStep DEF Interrupt
<1>11. CASE LookupFails
    BY <1>11, CheckBranchesStep, CheckBaseStep DEF LookupFails
<1>10. CASE UNCHANGED vars
    <2> USE <1>10 DEF Inv, vars
    <2>1. TypeOK' /\ Times'
        BY DEF TypeOK, Times
    <2>2. PullsShown' /\ Remaining'
        BY DEF PullsShown, Remaining, Shown, Own, InHand, Item
    <2>3. Snapshots' /\ Halfway'
        BY DEF Snapshots, Halfway, Faithful, Own, InHand, Item
    <2> QED BY <2>1, <2>2, <2>3
<1> QED BY <1>1, <1>2, <1>3, <1>4, <1>5, <1>6, <1>7, <1>8, <1>9, <1>10, <1>11 DEF Next

LEMMA Inductive == Spec => []Inv
BY Initial, NextStep, PTL DEF Spec

(* Whatever people, branches and failing calls do between the calls of a run, every
   variable keeps the shape the code gives it, and a batch holds a pull request once. *)
THEOREM TypeCorrect == Spec => []TypeOK
BY Inductive, PTL DEF Inv

(* What changed up to the cursor is in the target (cmd/mirror.go:103-112): for any
   number of pull requests, whatever GitLab refused and whoever merged, closed,
   retargeted or reopened between two calls. *)
THEOREM CursorIsKept == Spec => []PullsShown
BY Inductive, PTL DEF Inv

-----------------------------------------------------------------------------
(* What GitLab refuses. *)

(* What the target had first is a merge request there. *)
OwnPulls == \A n \in Pulls : Own(n) => copies[n].kind = "pull"

(* As long as nothing changes, what was found out for the item in hand holds. *)
Settled == rev = run.started =>
    /\ pc = "create" => Joinable(Item.head, Item.base)
    /\ pc = "write" => run.to \in here \cup {NoBranch}
    /\ pc \in {"target", "write", "event"} => copies[Item.n].state = run.cur.state

QuietInv == Inv /\ OwnPulls /\ Settled

(* Somebody's change is later than the start of the run. *)
LEMMA PeopleSettle ==
    ASSUME QuietInv, rev' = rev + 1, UNCHANGED <<pc, run>>
    PROVE  Settled'
<1>1. rev \in Nat /\ run.started \in Nat /\ (pc # "idle" => run.started <= rev)
    BY DEF QuietInv, Inv, TypeOK, Times
<1> QED BY <1>1 DEF Settled

LEMMA PeopleQuiet ==
    ASSUME QuietInv,
           \/ \E n \in Pulls : OpenPull(n) \/ EditPull(n) \/ RetargetPull(n) \/ MergeCopy(n) \/ Restored(n)
           \/ \E b \in Branches : MoveBranch(b)
    PROVE  OwnPulls' /\ Settled'
<1>1. ASSUME NEW n \in Pulls, NEW s, NEW h, NEW b, ChangePull(n, s, h, b),
             pulls[n].rev # 0 => h = pulls[n].head, pulls[n].rev = 0 => h # NoBranch
      PROVE  OwnPulls' /\ Settled'
    <2>1. /\ pulls' = [pulls EXCEPT ![n] = [rev |-> rev + 1, state |-> s, head |-> h, base |-> b]]
          /\ rev' = rev + 1 /\ UNCHANGED <<copies, pc, run>>
        BY <1>1 DEF ChangePull
    <2>2. \A m \in Pulls : Own(m)' => Own(m)
        BY <1>1, <2>1 DEF Own, QuietInv, Inv, TypeOK
    <2> QED BY <2>1, <2>2, PeopleSettle DEF QuietInv, OwnPulls
<1>2. ASSUME NEW n \in Pulls, OpenPull(n) PROVE OwnPulls' /\ Settled'
    <2>1. PICK h \in Heads, b \in Bases : ChangePull(n, "open", h, b)
        BY <1>2 DEF OpenPull
    <2>2. pulls[n].rev = 0 /\ h # NoBranch
        BY <1>2, ConstantsAssumption DEF OpenPull, IsNew
    <2> QED BY <1>1, <2>1, <2>2
<1>3. ASSUME NEW n \in Pulls, EditPull(n) PROVE OwnPulls' /\ Settled'
    BY <1>1, <1>3 DEF EditPull
<1>4. ASSUME NEW n \in Pulls, RetargetPull(n) PROVE OwnPulls' /\ Settled'
    <2>1. pulls[n].rev # 0
        BY <1>4 DEF RetargetPull, QuietInv, Inv, Times
    <2> QED BY <1>1, <1>4, <2>1 DEF RetargetPull
<1>5. ASSUME NEW n \in Pulls, MergeCopy(n) PROVE OwnPulls' /\ Settled'
    <2>1. /\ \A m \in Pulls : copies'[m].kind = copies[m].kind
          /\ rev' = rev + 1 /\ UNCHANGED <<pulls, pc, run>>
        BY <1>5 DEF MergeCopy, QuietInv, Inv, TypeOK, Copy
    <2> QED BY <2>1, PeopleSettle DEF QuietInv, OwnPulls, Own
<1>6. ASSUME NEW n \in Pulls, Restored(n) PROVE OwnPulls' /\ Settled'
    <2>1. PICK h, b :
            /\ pulls' = [pulls EXCEPT ![n].rev = rev + 1, ![n].state = "open"]
            /\ copies' = [copies EXCEPT ![n] = [NoCopy EXCEPT !.kind = "pull", !.head = h, !.base = b]]
        BY <1>6 DEF Restored
    <2>2. copies'[n].kind = "pull" /\ \A m \in Pulls \ {n} : copies'[m] = copies[m] /\ pulls'[m] = pulls[m]
        BY <2>1 DEF QuietInv, Inv, TypeOK, NoCopy
    <2>3. rev' = rev + 1 /\ UNCHANGED <<pc, run>>
        BY <1>6 DEF Restored
    <2> QED BY <2>2, <2>3, PeopleSettle DEF QuietInv, OwnPulls, Own
<1>7. ASSUME NEW b \in Branches, MoveBranch(b) PROVE OwnPulls' /\ Settled'
    <2>1. rev' = rev + 1 /\ UNCHANGED <<pulls, copies, pc, run>>
        BY <1>7 DEF MoveBranch
    <2> QED BY <2>1, PeopleSettle DEF QuietInv, OwnPulls, Own
<1> QED BY <1>2, <1>3, <1>4, <1>5, <1>6, <1>7

(* Where no item is in hand nothing is claimed of it. *)
LEMMA FreeQuiet ==
    ASSUME QuietInv, UNCHANGED <<pulls, copies>>, pc' \notin {"create", "target", "write", "event"}
    PROVE  OwnPulls' /\ Settled'
BY DEF QuietInv, OwnPulls, Own, Settled

(* The item in hand is done: of what the target had first only the state is. *)
LEMMA DoneQuiet ==
    ASSUME QuietInv, InHand, NEW copy, Done(copy), UNCHANGED people,
           copy.kind = "pull" \/ copies[Item.n].kind # "pull"
    PROVE  OwnPulls' /\ Settled'
<1>1. pc' = "next" /\ UNCHANGED pulls /\ copies' = [copies EXCEPT ![Item.n] = copy]
    BY DEF Done, people
<1>2. \A m \in Pulls : m # Item.n => copies'[m] = copies[m]
    BY <1>1 DEF QuietInv, Inv, TypeOK
<1>3. Item.n \in Pulls => copies'[Item.n] = copy
    BY <1>1 DEF QuietInv, Inv, TypeOK
<1>4. OwnPulls'
    BY <1>1, <1>2, <1>3 DEF QuietInv, OwnPulls, Own
<1> QED BY <1>1, <1>4 DEF Settled

(* What a lookup says is there is there. *)
LEMMA LookupQuiet ==
    ASSUME QuietInv, NEW fails \in BOOLEAN, CheckBranches(fails) \/ CheckBase(fails)
    PROVE  OwnPulls' /\ Settled'
<1>1. CASE CheckBranches(fails)
    <2>1. PICK b \in run.batch :
            Take(b, IF TargetKind(b) = "pull" /\ mergeable(b) /\ hasBranches({b.head, b.base}, fails)
                    THEN "create" ELSE "issue")
        BY <1>1 DEF CheckBranches
    <2>2. /\ run'.item = b /\ run'.started = run.started /\ UNCHANGED <<pulls, copies, rev, here>>
          /\ pc' \in {"create", "issue"}
          /\ pc' = "create" => Joinable(b.head, b.base)
        BY <2>1 DEF Take, people, QuietInv, Inv, TypeOK, mergeable, hasBranches, Joinable
    <2> QED BY <2>2 DEF QuietInv, OwnPulls, Own, Settled, Joinable, Item
<1>2. CASE CheckBase(fails)
    <2>1. PICK to : run' = [run EXCEPT !.to = to] /\ to \in here \cup {NoBranch}
        BY <1>2 DEF CheckBase, hasBranches
    <2>2. /\ run'.to = to /\ run'.item = run.item /\ run'.cur = run.cur /\ run'.started = run.started
          /\ pc = "target" /\ pc' = "write" /\ UNCHANGED <<pulls, copies, rev, here>>
        BY <1>2, <2>1 DEF CheckBase, people, QuietInv, Inv, TypeOK
    <2> QED BY <2>1, <2>2 DEF QuietInv, OwnPulls, Own, Settled, Item
<1> QED BY <1>1, <1>2

LEMMA StepQuiet ==
    ASSUME QuietInv, Step
    PROVE  OwnPulls' /\ Settled'
<1>1. CASE ListPulls \/ FillBranches \/ FinishRun \/ TakeIssue
    <2>1. UNCHANGED <<pulls, copies>> /\ pc' \in {"fill", "next", "idle", "update"}
        BY <1>1 DEF ListPulls, FillBranches, FinishRun, TakeIssue, IsNext, Take, people
    <2> QED BY <2>1, FreeQuiet
<1>2. CASE CheckBranches(FALSE) \/ CheckBase(FALSE)
    BY <1>2, LookupQuiet
<1>3. CASE ReadMergeRequest
    <2>1. PICK b \in run.batch : Take(b, "target")
        BY <1>3 DEF ReadMergeRequest
    <2>2. /\ run'.item = b /\ run'.cur = copies[b.n] /\ UNCHANGED <<pulls, copies>> /\ pc' = "target"
        BY <2>1 DEF Take, people, QuietInv, Inv, TypeOK
    <2> QED BY <2>2 DEF QuietInv, OwnPulls, Own, Settled, Item
<1>5. CASE CreateMergeRequest
    <2>1. pc = "create" /\ UNCHANGED people
        BY <1>5 DEF CreateMergeRequest
    <2>2. CASE GiveUp \/ (pc' = "issue" /\ UNCHANGED copies)
        BY <2>1, <2>2, FreeQuiet DEF GiveUp, people
    <2>3. CASE Done([kind |-> "pull", rev |-> Item.rev, state |-> "open",
                     head |-> Item.head, base |-> Item.base])
        BY <2>1, <2>3, DoneQuiet DEF InHand
    <2> QED BY <1>5, <2>2, <2>3 DEF CreateMergeRequest
<1>6. CASE CreateIssue
    <2> DEFINE copy == [NoCopy EXCEPT !.kind = "issue", !.rev = Item.rev]
    <2>1. pc = "issue" /\ UNCHANGED people /\ InHand /\ copies[Item.n].kind = "none"
        BY <1>6 DEF CreateIssue, InHand, QuietInv, Inv, Halfway
    <2>2. CASE Done(copy)
        <3> HIDE DEF copy
        <3> QED BY <2>1, <2>2, DoneQuiet
    <2>3. CASE copies' = [copies EXCEPT ![Item.n] = copy] /\ pc' = "update"
        <3> HIDE DEF copy
        <3>1. \A m \in Pulls : m # Item.n => copies'[m] = copies[m]
            BY <2>3 DEF QuietInv, Inv, TypeOK
        <3>2. OwnPulls'
            BY <2>1, <3>1 DEF QuietInv, OwnPulls, Own, people
        <3> QED BY <2>3, <3>2 DEF Settled
    <2> QED BY <1>6, <2>2, <2>3 DEF CreateIssue
<1>7. CASE UpdateIssue
    <2>1. PICK copy : Done(copy)
        BY <1>7 DEF UpdateIssue
    <2>2. pc = "update" /\ UNCHANGED people /\ InHand /\ copies[Item.n].kind = "issue"
        BY <1>7 DEF UpdateIssue, InHand, QuietInv, Inv, Halfway
    <2> QED BY <2>1, <2>2, DoneQuiet
<1>8. CASE WriteMergeRequest
    <2>1. pc = "write" /\ UNCHANGED people /\ UNCHANGED <<here, cursor>>
        BY <1>8 DEF WriteMergeRequest
    <2>2. CASE GiveUp
        BY <2>1, <2>2, FreeQuiet DEF GiveUp, people
    <2>3. CASE SendWithout
        <3>1. /\ run'.to = NoBranch /\ run'.item = run.item /\ run'.cur = run.cur
              /\ run'.started = run.started /\ UNCHANGED <<copies, pc>>
            BY <2>3 DEF SendWithout, QuietInv, Inv, TypeOK
        <3> QED BY <2>1, <3>1 DEF QuietInv, OwnPulls, Own, Settled, Item, people
    <2>4. CASE /\ copies' = [copies EXCEPT ![Item.n].rev = Item.rev,
                                          ![Item.n].base = IF run.to # NoBranch THEN run.to ELSE @]
               /\ pc' = "event" /\ UNCHANGED run
        <3>1. \A m \in Pulls : copies'[m].kind = copies[m].kind /\ copies'[m].state = copies[m].state
            <4>1. Item.n \in Pulls
                BY <2>1 DEF QuietInv, Inv, Snapshots, Faithful, InHand
            <4> DEFINE copy == [copies[Item.n] EXCEPT !.rev = Item.rev,
                                    !.base = IF run.to # NoBranch THEN run.to ELSE @]
            <4>2. copies' = [copies EXCEPT ![Item.n] = copy]
                BY <2>4, <4>1 DEF QuietInv, Inv, TypeOK
            <4>3. copies[Item.n] \in Copy /\ copies \in [Pulls -> Copy]
                BY <4>1 DEF QuietInv, Inv, TypeOK
            <4>4. copy.kind = copies[Item.n].kind /\ copy.state = copies[Item.n].state
                BY <4>3 DEF Copy
            <4> HIDE DEF copy
            <4> QED BY <4>1, <4>2, <4>3, <4>4
        <3>2. Item.n \in Pulls /\ Item' = Item
            BY <2>1, <2>4 DEF QuietInv, Inv, Snapshots, Faithful, InHand, Item
        <3> QED BY <2>1, <2>4, <3>1, <3>2 DEF QuietInv, OwnPulls, Own, Settled, people
    <2> QED BY <1>8, <2>2, <2>3, <2>4 DEF WriteMergeRequest
<1>9. CASE SetMergeRequestState
    <2> DEFINE event == mergeRequestStateEvent(run.cur.state, Item.state)
    <2>1. pc = "event" /\ UNCHANGED people /\ InHand /\ copies[Item.n] \in Copy
          /\ copies[Item.n].kind = "pull"
        BY <1>9 DEF SetMergeRequestState, InHand, QuietInv, Inv, Halfway, TypeOK, Snapshots, Faithful
    <2>2. CASE GiveUp
        BY <2>1, <2>2, FreeQuiet DEF GiveUp, people
    <2>3. CASE Done(Moved(copies[Item.n], event))
        <3>1. event \in {"close", "reopen", "none"}
            BY DEF mergeRequestStateEvent
        <3>2. Moved(copies[Item.n], event).kind = "pull"
            BY <2>1, <3>1, MovedState
        <3> HIDE DEF event
        <3> QED BY <2>1, <2>3, <3>2, DoneQuiet
    <2> QED BY <1>9, <2>2, <2>3 DEF SetMergeRequestState
<1>10. CASE SetState
    <2>1. PICK b \in run.batch : /\ Own(b.n) /\ IsNext(b) /\ UNCHANGED people
            /\ \/ GiveUp
               \/ copies' = [copies EXCEPT ![b.n] = Moved(@, stateEvent(b.state))] /\ UNCHANGED pc
        BY <1>10 DEF SetState
    <2>2. CASE GiveUp
        BY <2>1, <2>2, FreeQuiet DEF GiveUp, people
    <2>3. CASE copies' = [copies EXCEPT ![b.n] = Moved(@, stateEvent(b.state))] /\ UNCHANGED pc
        <3>1. b.n \in Pulls /\ copies \in [Pulls -> Copy] /\ stateEvent(b.state) \in {"close", "reopen", "none"}
            BY DEF QuietInv, Inv, TypeOK, Snapshots, Faithful, stateEvent
        <3>2. PICK copy : copy = Moved(copies[b.n], stateEvent(b.state)) /\ copy.kind = copies[b.n].kind
            BY <3>1, MovedState
        <3>3. \A m \in Pulls : copies'[m].kind = copies[m].kind
            BY <2>3, <3>1, <3>2
        <3> QED BY <2>1, <2>3, <3>3 DEF QuietInv, OwnPulls, Own, Settled, IsNext, people
    <2> QED BY <2>1, <2>2, <2>3
<1> QED BY <1>1, <1>2, <1>3, <1>5, <1>6, <1>7, <1>8, <1>9, <1>10 DEF Step

LEMMA QuietNext == QuietInv /\ [Next]_vars => QuietInv'
<1> SUFFICES ASSUME QuietInv, [Next]_vars PROVE QuietInv'
    OBVIOUS
<1>1. Inv'
    BY NextStep DEF QuietInv
<1>2. CASE Step
    BY <1>1, <1>2, StepQuiet DEF QuietInv
<1>6. CASE LookupFails
    BY <1>1, <1>6, LookupQuiet DEF QuietInv, LookupFails
<1>3. CASE StartRun \/ Interrupt
    <2>1. UNCHANGED <<pulls, copies>> /\ pc' \in {"list", "idle"}
        BY <1>3 DEF StartRun, Interrupt, GiveUp, people
    <2> QED BY <1>1, <2>1, FreeQuiet DEF QuietInv
<1>4. CASE UNCHANGED vars
    BY <1>1, <1>4 DEF QuietInv, OwnPulls, Own, Settled, Joinable, Item, vars
<1>5. CASE \/ \E n \in Pulls : OpenPull(n) \/ EditPull(n) \/ RetargetPull(n) \/ MergeCopy(n) \/ Restored(n)
           \/ \E b \in Branches : MoveBranch(b)
    BY <1>1, <1>5, PeopleQuiet DEF QuietInv
<1> QED BY <1>2, <1>3, <1>4, <1>5, <1>6 DEF Next

(* A merge request to be reopened that GitLab does not reopen. *)
Stuck == \E n \in Pulls :
    /\ copies[n].kind = "pull" /\ pulls[n].state = "open"
    /\ Own(n) \/ copies[n].state = "closed"
    /\ Refuses(n, "reopen")

LEMMA RefusedStep ==
    ASSUME QuietInv, Refused, rev = run.started
    PROVE  Stuck
<1>1. TypeOK /\ Settled /\ OwnPulls /\ Inv
    BY DEF QuietInv, Inv
<1>2. \A n \in Pulls : pulls[n].rev <= run.started
    BY DEF QuietInv, Inv, Times
<1>3. CASE CreateMergeRequest
    <2>1. pc = "create" /\ pc' = "idle" /\ Joinable(Item.head, Item.base)
        BY <1>1, <1>3 DEF CreateMergeRequest, Refused, Settled
    <2> QED BY <1>3, <2>1 DEF CreateMergeRequest, Done
<1>4. CASE WriteMergeRequest
    <2>1. pc = "write" /\ pc' = "idle" /\ run.to \in here \cup {NoBranch}
        BY <1>1, <1>4 DEF WriteMergeRequest, Refused, Settled
    <2> QED BY <1>4, <2>1 DEF WriteMergeRequest, SendWithout
<1>5. CASE SetMergeRequestState
    <2>1. pc = "event" /\ Refuses(Item.n, mergeRequestStateEvent(run.cur.state, Item.state))
        BY <1>5 DEF SetMergeRequestState, Refused, Done
    <2>2. Item.n \in Pulls /\ Item.state = pulls[Item.n].state /\ copies[Item.n].kind = "pull"
          /\ copies[Item.n].state = run.cur.state
        BY <1>1, <1>2, <2>1 DEF Inv, Snapshots, Faithful, InHand, Halfway, Settled
    <2>3. mergeRequestStateEvent(run.cur.state, Item.state) = "reopen"
        BY <2>1 DEF Refuses
    <2>4. run.cur.state = "closed" /\ Item.state = "open"
        BY <2>3 DEF mergeRequestStateEvent
    <2> QED BY <2>1, <2>2, <2>3, <2>4 DEF Stuck
<1>6. CASE SetState
    <2>1. PICK b \in run.batch : Own(b.n) /\ Refuses(b.n, stateEvent(b.state)) /\ pc = "next"
        BY <1>6 DEF SetState, Refused, IsNext
    <2>2. b.n \in Pulls /\ b.state = pulls[b.n].state /\ copies[b.n].kind = "pull" /\ b.state \in {"open", "closed"}
        BY <1>1, <1>2, <2>1 DEF Inv, Snapshots, Faithful, OwnPulls, TypeOK, Snapshot
    <2>3. stateEvent(b.state) = "reopen" /\ b.state = "open"
        BY <2>1, <2>2 DEF Refuses, stateEvent
    <2> QED BY <2>1, <2>2, <2>3 DEF Stuck
<1>7. CASE ListPulls \/ FillBranches \/ CheckBranches(FALSE) \/ CreateIssue \/ TakeIssue \/ UpdateIssue
           \/ ReadMergeRequest \/ CheckBase(FALSE)
    BY <1>7 DEF Refused, ListPulls, FillBranches, CheckBranches, CreateIssue, TakeIssue, UpdateIssue,
                ReadMergeRequest, CheckBase, Take, Done, IsNext
<1> QED BY <1>3, <1>4, <1>5, <1>6, <1>7 DEF Refused, Step

(* Of any number of pull requests and branches none is refused, but one whose merge
   request cannot be reopened, or where somebody changed something during the run: no
   request is sent that GitLab would refuse again and again. *)
THEOREM OnlyRacesAreRefused == Spec => RefusedByRacesOnly
<1>1. Init => QuietInv
    BY Initial DEF Init, QuietInv, OwnPulls, Settled, Own, NoPull
<1>2. QuietInv /\ [Next]_vars => QuietInv'
    BY QuietNext
<1>3. QuietInv => [Refused => rev # run.started \/ Stuck]_vars
    BY RefusedStep
<1>4. RefusedByRacesOnly <=> [][Refused => rev # run.started \/ Stuck]_vars
    BY PTL DEF RefusedByRacesOnly, Stuck
<1> QED BY <1>1, <1>2, <1>3, <1>4, PTL DEF Spec

-----------------------------------------------------------------------------
(* Every run ends. *)

(* As each item is of a pull request of its own, there are as many at most. *)
LEMMA Listed ==
    ASSUME NEW batch, \A b \in batch : b.n \in Pulls, \A b, c \in batch : b.n = c.n => b = c
    PROVE  /\ IsFiniteSet(batch) /\ Cardinality(batch) \in Nat /\ Cardinality(batch) <= MaxPulls
           /\ \A bare \in SUBSET batch : /\ IsFiniteSet(bare) /\ Cardinality(bare) \in Nat
                                         /\ Cardinality(bare) <= Cardinality(batch)
<1> DEFINE number == [b \in batch |-> b.n]
<1>1. number \in Injection(batch, Pulls)
    BY DEF Injection, IsInjective
<1>2. IsFiniteSet(Pulls) /\ Cardinality(Pulls) = MaxPulls
    BY FS_Interval, ConstantsAssumption DEF Pulls
<1> HIDE DEF number
<1>3. IsFiniteSet(batch) /\ Cardinality(batch) <= MaxPulls
    BY <1>1, <1>2, FS_Injection
<1>4. Cardinality(batch) \in Nat
    BY <1>3, FS_CardinalityType
<1>5. ASSUME NEW bare \in SUBSET batch
      PROVE  IsFiniteSet(bare) /\ Cardinality(bare) \in Nat /\ Cardinality(bare) <= Cardinality(batch)
    BY <1>3, FS_Subset, FS_CardinalityType
<1> QED BY <1>3, <1>4, <1>5

LEMMA Counts ==
    ASSUME Inv
    PROVE  /\ IsFiniteSet(run.batch) /\ Cardinality(run.batch) \in Nat
           /\ IsFiniteSet(Bare) /\ Cardinality(Bare) \in Nat
           /\ Ahead \in 0..4
           /\ StepsLeft \in Nat
           /\ pc # "idle" => StepsLeft > 0
<1>1. /\ \A b \in run.batch : b.n \in Pulls
      /\ \A b, c \in run.batch : b.n = c.n => b = c
      /\ Bare \in SUBSET run.batch
    BY DEF Inv, TypeOK, Snapshots, Faithful, Bare
<1>2. /\ IsFiniteSet(run.batch) /\ Cardinality(run.batch) \in Nat
      /\ IsFiniteSet(Bare) /\ Cardinality(Bare) \in Nat
    BY <1>1, Listed
<1>3. Ahead \in 0..4
    BY DEF Ahead
<1> QED BY <1>2, <1>3, ConstantsAssumption DEF StepsLeft

(* People change nothing of it: also what a branch is asked for is known before. *)
LEMMA PeopleEndNothing ==
    ASSUME Inv,
           \/ \E n \in Pulls : OpenPull(n) \/ EditPull(n) \/ RetargetPull(n) \/ MergeCopy(n) \/ Restored(n)
           \/ \E b \in Branches : MoveBranch(b)
    PROVE  rev' # rev /\ StepsLeft' = StepsLeft
<1>1. rev' = rev + 1 /\ UNCHANGED <<pc, run>>
    BY DEF OpenPull, EditPull, RetargetPull, MergeCopy, Restored, MoveBranch, ChangePull
<1>2. \A n \in Pulls : pulls[n].rev # 0 => (Own(n)' <=> Own(n))
    <2>1. ASSUME NEW m \in Pulls, NEW s, NEW h, NEW b, ChangePull(m, s, h, b),
                 pulls[m].rev # 0 => h = pulls[m].head
          PROVE  \A n \in Pulls : pulls[n].rev # 0 => (Own(n)' <=> Own(n))
        <3>1. /\ pulls'[m].head = h /\ pulls'[m].rev # 0
              /\ \A n \in Pulls \ {m} : pulls'[n] = pulls[n]
            BY <2>1 DEF ChangePull, Inv, TypeOK
        <3> QED BY <2>1, <3>1 DEF Own
    <2>2. ASSUME NEW m \in Pulls, Restored(m)
          PROVE  \A n \in Pulls : pulls[n].rev # 0 => (Own(n)' <=> Own(n))
        <3>1. pulls[m].rev = 0 /\ \A n \in Pulls \ {m} : pulls'[n] = pulls[n]
            BY <2>2 DEF Restored, IsNew, Inv, TypeOK
        <3> QED BY <3>1 DEF Own
    <2>3. ASSUME NEW m \in Pulls, OpenPull(m) \/ EditPull(m) \/ RetargetPull(m)
          PROVE  \A n \in Pulls : pulls[n].rev # 0 => (Own(n)' <=> Own(n))
        BY <2>1, <2>3 DEF OpenPull, EditPull, RetargetPull, IsNew
    <2>4. ASSUME (\E m \in Pulls : MergeCopy(m)) \/ \E b \in Branches : MoveBranch(b)
          PROVE  \A n \in Pulls : pulls[n].rev # 0 => (Own(n)' <=> Own(n))
        BY <2>4 DEF MergeCopy, MoveBranch, Own
    <2> QED BY <2>2, <2>3, <2>4
<1>3. Bare' = Bare
    BY <1>1, <1>2 DEF Bare, Inv, Snapshots, Faithful
<1>4. Ahead' = Ahead
    BY <1>1 DEF Ahead
<1>5. rev \in Nat
    BY DEF Inv, TypeOK
<1> QED BY <1>1, <1>3, <1>4, <1>5 DEF StepsLeft

(* Taking an item makes up for what it takes to carry it. *)
LEMMA TakeEnds ==
    ASSUME Inv, NEW b \in run.batch, NEW next \in {"create", "issue", "update", "target"},
           pc = "next", Take(b, next)
    PROVE  StepsLeft' < StepsLeft
<1>1. run'.batch = run.batch \ {b} /\ pc' = next
    BY DEF Take, Inv, TypeOK
<1>2. Cardinality(run.batch) \in Nat /\ Cardinality(run'.batch) = Cardinality(run.batch) - 1
    BY <1>1, Counts, FS_RemoveElement
<1>3. Ahead = 0 /\ Ahead' \in 0..4
    BY <1>1 DEF Ahead
<1> QED BY <1>1, <1>2, <1>3 DEF StepsLeft

LEMMA DoneEnds ==
    ASSUME Inv, InHand, NEW copy, Done(copy)
    PROVE  StepsLeft' < StepsLeft
<1>1. run'.batch = run.batch /\ pc' = "next"
    BY DEF Done, Inv, TypeOK
<1>2. Ahead \in 1..4 /\ Ahead' = 0
    BY <1>1 DEF Ahead, InHand
<1> QED BY <1>1, <1>2, Counts DEF StepsLeft, InHand

LEMMA GiveUpEnds ==
    ASSUME Inv, pc # "idle", GiveUp
    PROVE  StepsLeft' < StepsLeft
BY Counts DEF GiveUp, StepsLeft

LEMMA LookupEnds ==
    ASSUME Inv, NEW fails \in BOOLEAN, CheckBranches(fails) \/ CheckBase(fails)
    PROVE  StepsLeft' < StepsLeft
<1>1. CASE CheckBranches(fails)
    <2>1. PICK b \in run.batch, next \in {"create", "issue"} : pc = "next" /\ Take(b, next)
        BY <1>1 DEF CheckBranches, IsNext
    <2> QED BY <2>1, TakeEnds
<1>2. CASE CheckBase(fails)
    <2>1. PICK to : run' = [run EXCEPT !.to = to]
        BY <1>2 DEF CheckBase
    <2>2. run'.batch = run.batch /\ pc = "target" /\ pc' = "write"
        BY <1>2, <2>1 DEF CheckBase, Inv, TypeOK
    <2>3. Ahead = 4 /\ Ahead' \in 2..3
        BY <2>2 DEF Ahead
    <2> QED BY <2>2, <2>3, Counts DEF StepsLeft
<1> QED BY <1>1, <1>2

LEMMA StepEnds ==
    ASSUME Inv, Inv', Step
    PROVE  StepsLeft' < StepsLeft
<1>1. CASE ListPulls
    <2>1. /\ \A b \in run'.batch : b.n \in Pulls
          /\ \A b, c \in run'.batch : b.n = c.n => b = c
          /\ Bare' \in SUBSET run'.batch
        BY DEF Inv, TypeOK, Snapshots, Faithful, Bare
    <2>2. /\ Cardinality(run'.batch) \in Nat /\ Cardinality(run'.batch) <= MaxPulls
          /\ Cardinality(Bare') \in Nat /\ Cardinality(Bare') <= Cardinality(run'.batch)
        BY <2>1, Listed
    <2>3. pc = "list" /\ pc' = "fill"
        BY <1>1 DEF ListPulls
    <2> QED BY <2>2, <2>3, ConstantsAssumption DEF StepsLeft
<1>2. CASE FillBranches
    <2>1. CASE Bare = {} /\ pc = "fill" /\ pc' = "next" /\ UNCHANGED run
        BY <2>1, Counts DEF StepsLeft, Ahead
    <2>2. ASSUME NEW b \in Bare, pc = "fill", UNCHANGED <<pc, people>>,
                 run' = [run EXCEPT !.batch = (@ \ {b}) \cup
                            {[b EXCEPT !.head = pulls[b.n].head, !.base = pulls[b.n].base]}]
          PROVE  StepsLeft' < StepsLeft
        <3> DEFINE filled == [b EXCEPT !.head = pulls[b.n].head, !.base = pulls[b.n].base]
        <3>1. b \in run.batch /\ b \in Snapshot /\ ~Own(b.n) /\ Faithful(b)
            BY DEF Bare, Inv, TypeOK, Snapshots
        <3>2. filled.head = pulls[b.n].head /\ filled.head # NoBranch
            BY <3>1 DEF Snapshot, Faithful, Own
        <3>3. run'.batch = (run.batch \ {b}) \cup {filled}
            BY <2>2 DEF Inv, TypeOK
        <3> HIDE DEF filled
        <3>4. Cardinality(run'.batch) \in Nat /\ Cardinality(run'.batch) <= Cardinality(run.batch)
            <4>1. /\ IsFiniteSet(run.batch) /\ Cardinality(run.batch) \in Nat
                  /\ IsFiniteSet(run.batch \ {b})
                  /\ Cardinality(run.batch \ {b}) = Cardinality(run.batch) - 1
                BY <3>1, Counts, FS_RemoveElement
            <4> DEFINE rest == run.batch \ {b}
            <4> HIDE DEF rest
            <4>2. /\ IsFiniteSet(rest \cup {filled})
                  /\ Cardinality(rest \cup {filled}) \in {Cardinality(rest), Cardinality(rest) + 1}
                BY <4>1, FS_AddElement DEF rest
            <4>3. IsFiniteSet(run'.batch)
                  /\ Cardinality(run'.batch) \in {Cardinality(run.batch) - 1, Cardinality(run.batch)}
                BY <3>3, <4>1, <4>2 DEF rest
            <4> QED BY <4>1, <4>3, FS_CardinalityType
        <3>5. Bare' \in SUBSET (Bare \ {b})
            BY <2>2, <3>2, <3>3 DEF Bare, Own, people
        <3>6. Cardinality(Bare) \in Nat /\ Cardinality(Bare') \in Nat /\ Cardinality(Bare') < Cardinality(Bare)
            <4>1. /\ IsFiniteSet(Bare \ {b}) /\ Cardinality(Bare) \in Nat
                  /\ Cardinality(Bare \ {b}) = Cardinality(Bare) - 1
                BY Counts, FS_RemoveElement
            <4>2. /\ IsFiniteSet(Bare') /\ Cardinality(Bare') <= Cardinality(Bare \ {b})
                BY <3>5, <4>1, FS_Subset
            <4> QED BY <4>1, <4>2, FS_CardinalityType
        <3>7. Cardinality(run.batch) \in Nat
            BY Counts
        <3> QED BY <2>2, <3>4, <3>6, <3>7 DEF StepsLeft
    <2> QED BY <1>2, <2>1, <2>2 DEF FillBranches
<1>3. CASE FinishRun
    BY <1>3, Counts DEF FinishRun, StepsLeft
<1>4. CASE CheckBranches(FALSE) \/ TakeIssue \/ ReadMergeRequest
    <2>1. PICK b \in run.batch, next \in {"create", "issue", "update", "target"} :
            pc = "next" /\ Take(b, next)
        BY <1>4 DEF CheckBranches, TakeIssue, ReadMergeRequest, IsNext
    <2> QED BY <2>1, TakeEnds
<1>5. CASE CreateMergeRequest
    <2>1. pc = "create" /\ InHand
        BY <1>5 DEF CreateMergeRequest, InHand
    <2>2. CASE pc' = "issue" /\ UNCHANGED run
        BY <2>1, <2>2, Counts DEF StepsLeft, Ahead
    <2> QED BY <1>5, <2>1, <2>2, GiveUpEnds, DoneEnds DEF CreateMergeRequest
<1>6. CASE CreateIssue
    <2>1. pc = "issue" /\ InHand
        BY <1>6 DEF CreateIssue, InHand
    <2>2. CASE pc' = "update" /\ UNCHANGED run
        BY <2>1, <2>2, Counts DEF StepsLeft, Ahead
    <2> QED BY <1>6, <2>1, <2>2, DoneEnds DEF CreateIssue
<1>7. CASE UpdateIssue
    BY <1>7, DoneEnds DEF UpdateIssue, InHand
<1>8. CASE CheckBase(FALSE)
    BY <1>8, LookupEnds
<1>9. CASE WriteMergeRequest
    <2>1. pc = "write"
        BY <1>9 DEF WriteMergeRequest
    <2>2. CASE run.to # NoBranch /\ SendWithout
        <3>1. run'.batch = run.batch /\ run'.to = NoBranch /\ pc' = pc
            BY <2>2 DEF SendWithout, Inv, TypeOK
        <3>2. Ahead = 3 /\ Ahead' = 2
            BY <2>1, <2>2, <3>1 DEF Ahead
        <3> QED BY <2>1, <3>1, <3>2, Counts DEF StepsLeft
    <2>3. CASE pc' = "event" /\ UNCHANGED run
        <3>1. Ahead \in 2..3 /\ Ahead' = 1
            BY <2>1, <2>3 DEF Ahead
        <3> QED BY <2>1, <2>3, <3>1, Counts DEF StepsLeft
    <2> QED BY <1>9, <2>1, <2>2, <2>3, GiveUpEnds DEF WriteMergeRequest
<1>10. CASE SetMergeRequestState
    BY <1>10, GiveUpEnds, DoneEnds DEF SetMergeRequestState, InHand
<1>11. CASE SetState
    <2>1. PICK b \in run.batch : pc = "next" /\
            (GiveUp \/ (run' = [run EXCEPT !.batch = @ \ {b}] /\ UNCHANGED pc))
        BY <1>11 DEF SetState, IsNext
    <2>2. CASE run' = [run EXCEPT !.batch = @ \ {b}] /\ UNCHANGED pc
        <3>1. run'.batch = run.batch \ {b}
            BY <2>2 DEF Inv, TypeOK
        <3>2. Cardinality(run.batch) \in Nat /\ Cardinality(run'.batch) = Cardinality(run.batch) - 1
            BY <3>1, Counts, FS_RemoveElement
        <3>3. Ahead = 0 /\ Ahead' = 0
            BY <2>1, <2>2 DEF Ahead
        <3> QED BY <2>1, <2>2, <3>2, <3>3 DEF StepsLeft
    <2> QED BY <2>1, <2>2, GiveUpEnds
<1> QED BY <1>1, <1>2, <1>3, <1>4, <1>5, <1>6, <1>7, <1>8, <1>9, <1>10, <1>11 DEF Step

(* Whatever is changed around it and whatever GitLab answers, a run of any number of
   pull requests makes no more calls than it had ahead when it started. *)
THEOREM EveryRunEnds == Spec => RunsEnd
<1>1. Inv /\ Inv' /\ [Next]_vars =>
        [StartRun \/ StepsLeft' < StepsLeft \/ (rev' # rev /\ StepsLeft' <= StepsLeft)]_vars
    <2> SUFFICES ASSUME Inv, Inv', Next
                 PROVE  StartRun \/ StepsLeft' < StepsLeft \/ (rev' # rev /\ StepsLeft' <= StepsLeft)
        OBVIOUS
    <2>1. CASE Step
        BY <2>1, StepEnds
    <2>2. CASE Interrupt
        BY <2>2, GiveUpEnds DEF Interrupt
    <2>4. CASE LookupFails
        BY <2>4, LookupEnds DEF LookupFails
    <2>3. CASE \/ \E n \in Pulls : OpenPull(n) \/ EditPull(n) \/ RetargetPull(n) \/ MergeCopy(n) \/ Restored(n)
               \/ \E b \in Branches : MoveBranch(b)
        <3>1. rev' # rev /\ StepsLeft' = StepsLeft /\ StepsLeft \in Nat
            BY <2>3, PeopleEndNothing, Counts
        <3> QED BY <3>1
    <2> QED BY <2>1, <2>2, <2>3, <2>4 DEF Next
<1> QED BY <1>1, Inductive, PTL DEF Spec, RunsEnd

=============================================================================
