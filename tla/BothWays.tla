------------------------------ MODULE BothWays ------------------------------
(***************************************************************************)
(* A mirror and a restore that run in turn over one repository, with the   *)
(* bodies both of them write and read: which item is a copy of which is    *)
(* decided from text alone (mirror/mirror.go issue, reflect, comments; the *)
(* lookups of both adapters; the text itself in Markers).                  *)
(*                                                                         *)
(* A run reads one forge and writes the other.  Its listing, the write of  *)
(* an item and the item's comments are one step each; Mirror takes those   *)
(* apart.  The fields `of` record what an item or a comment is truly a     *)
(* copy of: no action looks at one, except that people leave copies' text  *)
(* alone.                                                                  *)
(***************************************************************************)
EXTENDS Markers

Seqs == INSTANCE SequencesExt

CONSTANTS
    Group,     \* the path of the GitLab group, as a sequence of segments
    AnyQuote,  \* do people quote markers of either forge
    NotesPage, \* how many notes GitLab lists on a page
    EchoesShow, \* does a forge take a write that changes nothing for a change
    MaxOwn,    \* bound: items people open
    MaxActs    \* bound: acts of people

ASSUME BothWaysAssumption ==
    /\ Group \in Seq(STRING) \ {<<>>}
    /\ AnyQuote \in BOOLEAN /\ EchoesShow \in BOOLEAN
    /\ NotesPage \in Nat \ {0}
    /\ MaxOwn \in Nat /\ MaxActs \in Nat

VARIABLES
    acts,     \* acts of people so far
    items,    \* items[f]: the items of forge f, by kind and number
    touched,  \* touched[f]: those no run has listed since they were last changed
    run       \* the run in flight

vars == <<acts, items, touched, run>>

Forges == {"github", "gitlab"}
Kinds == {"issue", "pull"}
States == {"open", "closed"}  \* those the program knows; a forge has one more
Numbers == 1..MaxOwn
Refs == [kind : Kinds, n : Numbers]

Other(f) == IF f = "github" THEN "gitlab" ELSE "github"

(* The repository is acme/widget on GitHub, and widget of the group on GitLab. *)
Owner(f) == IF f = "gitlab" THEN Group ELSE <<"acme">>
Name == <<"widget">>

NoItem == [ref |-> [kind |-> "issue", n |-> 1], body |-> <<>>, state |-> "open"]
NoRun == [from |-> "nowhere", listed |-> {}, batch |-> {}, item |-> NoItem, to |-> {}]

Init ==
    /\ acts = 0
    /\ items = [f \in Forges |-> [r \in {} |-> NoItem]]
    /\ touched = [f \in Forges |-> {}]
    /\ run = NoRun

-----------------------------------------------------------------------------
(* What a forge does. *)

(* Numbers nobody has: GitHub has one sequence of numbers for issues and pull
   requests, GitLab one for each. *)
Unused(f, kind) == {n \in Numbers :
    \A r \in DOMAIN items[f] : r.n = n => f = "gitlab" /\ r.kind # kind}

(* A new item takes the next one. *)
NewRefs(f, kind) == {[kind |-> kind, n |-> n] : n \in FirstOf(Unused(f, kind))}

(* The item a kind and a number mean. *)
Named(f, kind, n) == {r \in DOMAIN items[f] : r.n = n /\ (f = "gitlab" => r.kind = kind)}

With(f, r, item) == [items EXCEPT ![f] =
    [s \in DOMAIN items[f] \cup {r} |-> IF s = r THEN item ELSE items[f][s]]]

Touch(f, r) == [touched EXCEPT ![f] = @ \cup {r}]

(* The program writes an item. *)
Write(f, r, item) ==
    /\ items' = With(f, r, item)
    /\ touched' = IF items' # items \/ EchoesShow THEN Touch(f, r) ELSE touched

(* What is merged is closed to the program, and stays merged: GitLab has no event
   that moves it. *)
Shown(item) == IF item.state = "merged" THEN "closed" ELSE item.state

(* Mutant: what is closed is not reopened. *)
NeverReopened(item, s) == IF s = "closed" /\ item.state # "merged" THEN s ELSE item.state

MovedTo(item, s) == IF item.state = "merged" THEN "merged" ELSE s

(* GitHub refuses to reopen it. *)
Refuses(f, r, s) == f = "github" /\ items[f][r].state = "merged" /\ s = "open"

(* The notes of an item a target lists: GitLab's one page has the newest. *)
Listed(f, r) == LET notes == items[f][r].notes
    IN  {k \in DOMAIN notes : f = "gitlab" => k > Len(notes) - NotesPage}

-----------------------------------------------------------------------------
(* People. *)

Change(f, r, item) ==
    /\ acts < MaxActs
    /\ acts' = acts + 1
    /\ items' = With(f, r, item)
    /\ touched' = Touch(f, r)
    /\ UNCHANGED run

Tokens(body) == {body[k] : k \in DOMAIN body}

(* The markers people quote.  They look at a copy where it came from, so that it
   names the forge they write on; or, with AnyQuote, at any. *)
Quotes(f) == {t \in UNION {UNION {Tokens(items[g][r].body) : r \in DOMAIN items[g]} : g \in Forges} :
    t.is = "mark" /\ (AnyQuote \/ t.forge = f)}

(* The text of a revision, alone or after a marker and another inside a third. *)
Bodies(f) ==
    LET text == [is |-> "text", rev |-> acts]
    IN  {<<text>>} \cup {<<q, Left(q), q, Right, text>> : q \in Quotes(f)}

OwnItems == UNION {{<<f, r>> : r \in {r \in DOMAIN items[f] : items[f][r].of = {}}} : f \in Forges}

Open(f) == \E kind \in Kinds, body \in Bodies(f) : \E r \in NewRefs(f, kind) :
    /\ Cardinality(OwnItems) < MaxOwn
    /\ Change(f, r, [of |-> {}, body |-> body, state |-> "open", notes |-> <<>>])

Rewrite(f, r) == \E body \in Bodies(f) :
    /\ items[f][r].of = {}
    /\ Change(f, r, [items[f][r] EXCEPT !.body = body])

Switch(f, r) == \E s \in States \ {items[f][r].state} :
    /\ items[f][r].state # "merged"
    /\ Change(f, r, [items[f][r] EXCEPT !.state = s])

Merge(f, r) ==
    /\ r.kind = "pull" /\ items[f][r].state = "open"
    /\ Change(f, r, [items[f][r] EXCEPT !.state = "merged"])

(* A comment talks about the note prefix or, with AnyQuote, quotes a marker. *)
Words(f, r) ==
    LET quotes == UNION {Tokens(items[f][r].notes[k].body) : k \in DOMAIN items[f][r].notes}
    IN  {<<[is |-> "mention"], [is |-> "text"]>>}
        \cup {<<q>> : q \in {t \in quotes : t.is = "note" /\ AnyQuote}}

Say(f, r) == \E body \in Words(f, r) :
    Change(f, r, [items[f][r] EXCEPT !.notes = Append(@, [of |-> {}, body |-> body])])

-----------------------------------------------------------------------------
(* A run: it lists what changed, then goes through it. *)

From == run.from
To == Other(run.from)

Snap(f, r) == [ref |-> r, body |-> items[f][r].body, state |-> Shown(items[f][r])]

(* A run that lists nothing touches nothing, and is not told. *)
StartRun(f) ==
    /\ run = NoRun
    /\ touched[f] # {}
    /\ run' = [NoRun EXCEPT !.from = f, !.listed = touched[f],
                            !.batch = {Snap(f, r) : r \in touched[f]}]
    /\ touched' = [touched EXCEPT ![f] = {}]
    /\ UNCHANGED <<acts, items>>

(* Mutant: the marker's forge is compared with the wrong side. *)
BackHere(b) == {o \in ParseOrigin(b.body) : o.forge = From}

(* What the item is a copy of, when that is in the target. *)
Back(b) == {o \in ParseOrigin(b.body) : o.forge = To}

OriginOf(f, r) ==
    [forge |-> f, owner |-> Owner(f), name |-> Name, kind |-> r.kind, number |-> r.n]

(* Mutants: merge requests are not listed; the marker's forge is not compared. *)
IssuesMade(o) == {r \in DOMAIN items[To] : r.kind = "issue" /\ o \in ParseOrigin(items[To][r].body)}
MadeOfNumber(o) == {r \in DOMAIN items[To] : \E w \in ParseOrigin(items[To][r].body) :
    w.kind = o.kind /\ w.number = o.number}

Made(o) == {r \in DOMAIN items[To] : o \in ParseOrigin(items[To][r].body)}

(* Of several the map keeps the one listed last, the oldest; GitLab's issues win
   over its merge requests. *)
Older(r, s) == IF To = "gitlab" /\ r.kind # s.kind THEN r.kind = "issue" ELSE r.n <= s.n

Origins(o) == {r \in Made(o) : \A s \in Made(o) : Older(r, s)}

(* An open pull request becomes a merge request if GitLab can make one. *)
CopyKinds(b) ==
    {"issue"} \cup (IF To = "gitlab" /\ b.ref.kind = "pull" /\ b.state = "open" THEN {"pull"} ELSE {})

(* Mutant: the target is asked for the source's number. *)
BeginUnmapped(b, r) == run' = [run EXCEPT !.batch = @ \ {b}, !.item = b, !.to = {b.ref}]

Begin(b, r) == run' = [run EXCEPT !.batch = @ \ {b}, !.item = b, !.to = {r}]

Reflect(b) ==
    /\ run.to = {}
    /\ \E o \in Back(b) : \E r \in Named(To, o.kind, o.number) :
        /\ ~Refuses(To, r, b.state)
        /\ Begin(b, r)
        /\ Write(To, r, [items[To][r] EXCEPT !.state = MovedTo(items[To][r], b.state)])
    /\ UNCHANGED acts

Create(b) == LET o == OriginOf(From, b.ref) IN
    /\ run.to = {}
    /\ Back(b) = {} /\ Origins(o) = {}
    /\ \E kind \in CopyKinds(b) : \E r \in NewRefs(To, kind) :
        /\ Begin(b, r)
        /\ Write(To, r, [of |-> {b.ref}, body |-> Render(b.body, o),
                         state |-> b.state, notes |-> <<>>])
    /\ UNCHANGED acts

Update(b) == LET o == OriginOf(From, b.ref) IN
    /\ run.to = {}
    /\ Back(b) = {}
    /\ \E r \in Origins(o) :
        /\ ~Refuses(To, r, b.state)
        /\ Begin(b, r)
        /\ Write(To, r, [items[To][r] EXCEPT !.body = Render(b.body, o),
                                             !.state = MovedTo(items[To][r], b.state)])
    /\ UNCHANGED acts

(* The comments of `notes` that the target does not have: neither their own copy
   nor what they are a copy of. *)
Missing(notes, have) == {k \in DOMAIN notes : NoteID(notes[k].body) = {} /\ k \notin have}

(* GitLab lists the newest first. *)
InOrder(new) == IF From = "gitlab" THEN Seqs!Reverse(new) ELSE new

Comments == \E r \in run.to :
    LET notes == items[From][run.item.ref].notes
        have  == UNION {NoteID(items[To][r].notes[k].body) : k \in Listed(To, r)}
        new   == At([k \in DOMAIN notes |->
                       [of |-> {k}, body |-> RenderComment(notes[k].body, k)]],
                    Missing(notes, have))
    IN  /\ run' = [run EXCEPT !.item = NoItem, !.to = {}]
        /\ items' = With(To, r, [items[To][r] EXCEPT !.notes = @ \o InOrder(new)])
        /\ touched' = IF new = <<>> THEN touched ELSE Touch(To, r)
        /\ UNCHANGED acts

(* Mutant: the position recorded is the time it ends. *)
FinishRunNow ==
    /\ run # NoRun /\ run.batch = {} /\ run.to = {}
    /\ run' = NoRun
    /\ touched' = [touched EXCEPT ![From] = {}]
    /\ UNCHANGED <<acts, items>>

FinishRun ==
    /\ run # NoRun /\ run.batch = {} /\ run.to = {}
    /\ run' = NoRun
    /\ UNCHANGED <<acts, items, touched>>

(* It is killed, or a call fails: the cursor stays, and what it listed is listed
   again. *)
Crash ==
    /\ run # NoRun
    /\ touched' = [touched EXCEPT ![From] = @ \cup run.listed]
    /\ run' = NoRun
    /\ UNCHANGED <<acts, items>>

(* So it is when the target refuses, in this run and in every one after it. *)
Refused(b) ==
    /\ run.to = {}
    /\ \E r \in DOMAIN items[To] :
        /\ Refuses(To, r, b.state)
        /\ \/ \E o \in Back(b) : r \in Named(To, o.kind, o.number)
           \/ Back(b) = {} /\ r \in Origins(OriginOf(From, b.ref))
    /\ Crash

-----------------------------------------------------------------------------

People == \E f \in Forges :
    Open(f) \/ \E r \in DOMAIN items[f] :
        Rewrite(f, r) \/ Switch(f, r) \/ Merge(f, r) \/ Say(f, r)

Step == FinishRun \/ Comments \/
    \E b \in run.batch : Reflect(b) \/ Create(b) \/ Update(b) \/ Refused(b)

Next == People \/ Crash \/ Step \/ \E f \in Forges : StartRun(f)

(* The mirror is on a schedule, and a started run goes on.  A restore is somebody's
   to start: any number of times, or never. *)
Fairness == WF_vars(Step) /\ WF_vars(StartRun("github"))

Spec == Init /\ [][Next]_vars

FairSpec == Spec /\ Fairness

-----------------------------------------------------------------------------
(* Properties. *)

(* Every variable has the shape the code gives it; a number means one item on
   GitHub, and what a run holds a reference to is there. *)
TypeOK ==
    /\ acts \in 0..MaxActs
    /\ DOMAIN items = Forges
    /\ \A f \in Forges :
        /\ DOMAIN items[f] \subseteq Refs
        /\ touched[f] \subseteq DOMAIN items[f]
        /\ \A r \in DOMAIN items[f] :
            /\ items[f][r].of \subseteq Refs
            /\ items[f][r].state \in States \cup {"merged"}
    /\ \A r, s \in DOMAIN items["github"] : r.n = s.n => r = s
    /\ run = NoRun \/
        /\ From \in Forges
        /\ run.listed \cup {b.ref : b \in run.batch} \subseteq DOMAIN items[From]
        /\ run.to \subseteq DOMAIN items[To]
        /\ run.to # {} => run.item.ref \in DOMAIN items[From]

(* The markers say what is true: an item the program made is read back as the copy
   of just what it was made from, whatever the original quotes, and what people
   wrote is taken for nobody's copy (origin.go:46-56, port.go:78-79,
   TestRenderStripsMarkersFromCopiedBody). *)
MarkersTrue == \A f \in Forges : \A r \in DOMAIN items[f] :
    {o \in ParseOrigin(items[f][r].body) : o.forge = Other(f)}
        = {OriginOf(Other(f), s) : s \in items[f][r].of}

(* Going both ways, again and again, makes one copy of each thing people made and
   none of a copy, although one forge numbers its items in one sequence and the
   other in two (README.md:31-32, 50-53, 84-86). *)
OneEach == \A f \in Forges : \A r \in DOMAIN items[f] :
    /\ \A s \in items[f][r].of : items[Other(f)][s].of = {}
    /\ \A s \in DOMAIN items[f] : items[f][r].of = items[f][s].of /\ items[f][r].of # {} => r = s

(* The program never writes over what somebody wrote, in the target as little as in
   the source (port.go:78-79, mirror.go:177-187). *)
OwnWorkKept == [][\A f \in Forges : \A r \in DOMAIN items[f] :
    items[f][r].of = {} /\ items'[f][r].body # items[f][r].body => acts' # acts]_vars

(* The other half of item r of forge f. *)
Counterparts(f, r) == {s \in DOMAIN items[Other(f)] :
    items[f][r].of = {s} \/ items[Other(f)][s].of = {r}}

Carried(from, to) == \A k \in DOMAIN from : from[k].of = {} =>
    \E j \in DOMAIN to : to[j].of = {k}

(* A comment crosses once and does not come back: copies of comments are of what a
   person wrote on the other half, each of another one (mirror.go:226-242). *)
NotesOnce == \A f \in Forges : \A r \in DOMAIN items[f] :
    LET notes == items[f][r].notes
    IN  \A j, k \in DOMAIN notes : notes[j].of # {} =>
            /\ notes[j].of = notes[k].of => j = k
            /\ \A s \in Counterparts(f, r), i \in notes[j].of : items[Other(f)][s].notes[i].of = {}

(* What of forge f is left for a run to deal with. *)
Pending(f) == touched[f] \cup
    (IF f = From THEN {b.ref : b \in run.batch} \cup {run.item.ref : r \in run.to} ELSE {})

(* A merge request that is merged follows no other state (gitlab.go:387-401). *)
MergedThere(f, r, s) ==
    (IF f = "gitlab" THEN items["gitlab"][r] ELSE items["gitlab"][s]).state = "merged"

(* Whatever changed on either side since, and wherever runs were killed, what no run
   has left to do is done: the other half says what the item says, has its comments,
   and is in its state, unless its own change is still to come back or it is a merge
   request that is merged (mirror.go:82-103, cmd/mirror.go:103-112). *)
SidesMeet == \A f \in Forges : \A r \in DOMAIN items[f] \ Pending(f) :
    \E s \in Counterparts(f, r) :
        LET item == items[f][r]   other == items[Other(f)][s]
        IN  /\ item.of = {} => other.body = Render(item.body, OriginOf(f, r))
            /\ Shown(other) = Shown(item) \/ s \in Pending(Other(f)) \/ MergedThere(f, r, s)
            /\ Carried(item.notes, other.notes)

(* Every note of every item is on the page. *)
AllNotesListed == \A r \in DOMAIN items["gitlab"] : Len(items["gitlab"][r].notes) <= NotesPage

(* Item r of people and its copy on the other forge are the same in all that either
   direction carries. *)
Agreed(f, r) == \E s \in DOMAIN items[Other(f)] :
    LET own == items[f][r]   copy == items[Other(f)][s]
    IN  /\ copy.of = {r}
        /\ copy.body = Render(own.body, OriginOf(f, r))
        /\ Shown(copy) = Shown(own) \/ MergedThere(f, r, s)
        /\ Carried(own.notes, copy.notes) /\ Carried(copy.notes, own.notes)

(* The mirror alone brings the two forges together: when people have stopped, a
   restore has once dealt with all that was changed on GitLab, and calls succeed,
   both come to say the same and stay so, whatever was changed on both sides of one
   thing (the direction that writes last decides the state, mirror.go:177-187). *)
SidesAgree ==
    /\ <>(acts = MaxActs /\ Pending("gitlab") = {})
    /\ <>[][FinishRun \/ ~(Crash \/ StartRun("gitlab"))]_vars
    => <>[](\A f \in Forges : \A r \in DOMAIN items[f] : items[f][r].of = {} => Agreed(f, r))

(* The revision of its original's text that an item shows: people's bodies end with
   the text, a copy's with the text and the marker. *)
Rev(item) == item.body[IF item.of = {} THEN Len(item.body) ELSE Len(item.body) - 1].rev

Thing(item) == [of |-> item.of, rev |-> Rev(item), state |-> item.state,
                notes |-> [k \in DOMAIN item.notes |-> item.notes[k].of]]

Things == [f \in Forges |-> [r \in DOMAIN items[f] |-> Thing(items[f][r])]]

Twin == INSTANCE Twins WITH Names <- Refs, Revisions <- 0..MaxActs, things <- Things

(* Whatever is quoted, rewritten and killed, a step makes the one copy of something
   of people's, takes one forward to a revision its original has had, closes or
   reopens one half, or carries all comments not carried yet: no copy goes back, and
   nothing else is ever written (mirror.go:82-103, 133-201, 218-251). *)
ImplementsTwins == Twin!Spec

=============================================================================
