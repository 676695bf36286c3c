-------------------------- MODULE MirrorNotesProofs --------------------------
(* Proofs about what Mirror's copies hold: nothing that came from the target, each
   comment once and in order, and never an older revision.  Nobody takes back a mark
   or a note, so what a run has read about either stays true. *)
EXTENDS MirrorProofs

USE JobsAssumption, BoundsAssumption, TimeAssumption

-----------------------------------------------------------------------------
(* What every step leaves. *)

Extends(old, new) == DOMAIN old \subseteq DOMAIN new /\ \A k \in DOMAIN old : new[k] = old[k]

SourceGrows == \A r \in Repos :
    /\ DOMAIN src[r] \subseteq DOMAIN src'[r]
    /\ \A n \in DOMAIN src[r] : /\ src'[r][n].mark = src[r][n].mark
                                /\ Extends(src[r][n].notes, src'[r][n].notes)

TargetGrows == \A r \in Repos :
    /\ DOMAIN tgt[r] \subseteq DOMAIN tgt'[r]
    /\ \A c \in DOMAIN tgt[r] : /\ tgt'[r][c].mark = tgt[r][c].mark
                                /\ Extends(tgt[r][c].notes, tgt'[r][c].notes)

(* Note k of item n was written there. *)
Original(r, n, k) == k \in DOMAIN src[r][n].notes /\ src[r][n].notes[k] = 0

(* What a step may add: an item to the source, a copy or an item to the target, a note
   to an item of the target. *)
SourceAdds == \A r \in Repos : \A n \in DOMAIN src'[r] \ DOMAIN src[r] :
    /\ src'[r][n].notes = <<>>
    /\ src'[r][n].mark # 0 =>
           /\ UNCHANGED tgt
           /\ src'[r][n].mark \in DOMAIN tgt[r] /\ tgt[r][src'[r][n].mark].mark = 0
           /\ \A m \in DOMAIN src'[r] : src'[r][m].mark = src'[r][n].mark => m = n

TargetAdds == \A r \in Repos : \A c \in DOMAIN tgt'[r] \ DOMAIN tgt[r] :
    /\ tgt'[r][c].notes = <<>>
    /\ tgt'[r][c].mark # 0 => tgt'[r][c].mark \in DOMAIN src[r] /\ src[r][tgt'[r][c].mark].mark = 0

(* Run p is about to post its note k to item c of target r. *)
Posts(p, r, c, k) ==
    /\ pc[p] = "post" /\ r = Here(p) /\ c = work[p].ref
    /\ k \in work[p].notes /\ IsNext(k, work[p].notes)

NotesAdd == \A r \in Repos : \A c \in DOMAIN tgt[r] :
    \A j \in DOMAIN tgt'[r][c].notes \ DOMAIN tgt[r][c].notes :
        /\ j = Len(tgt[r][c].notes) + 1
        /\ tgt'[r][c].notes[j] # 0 => \E p \in Jobs : Posts(p, r, c, tgt'[r][c].notes[j])

Adds == SourceGrows /\ TargetGrows /\ SourceAdds /\ TargetAdds /\ NotesAdd

-----------------------------------------------------------------------------
(* The two forges are about the same things. *)

CopiesBacked == \A r \in Repos : \A c \in DOMAIN tgt[r] :
    tgt[r][c].mark # 0 => tgt[r][c].mark \in DOMAIN src[r] /\ src[r][tgt[r][c].mark].mark = 0

RestoresBacked == \A r \in Repos : \A n \in DOMAIN src[r] :
    src[r][n].mark # 0 => /\ src[r][n].mark \in DOMAIN tgt[r] /\ tgt[r][src[r][n].mark].mark = 0
                          /\ \A m \in DOMAIN src[r] : src[r][m].mark = src[r][n].mark => m = n

NotesBacked == \A r \in Repos : \A c \in DOMAIN tgt[r] : \A j \in DOMAIN tgt[r][c].notes :
    tgt[r][c].notes[j] # 0 =>
        \E n \in DOMAIN src[r] : c \in Counterparts(r, n) /\ Original(r, n, tgt[r][c].notes[j])

Backed == CopiesBacked /\ RestoresBacked /\ NotesBacked

(* An item of the target is about one item of the source at most. *)
LEMMA OneSource ==
    ASSUME TypeOK, CopiesBacked, RestoresBacked, NEW r \in Repos,
           NEW n \in DOMAIN src[r], NEW m \in DOMAIN src[r], NEW c,
           c \in Counterparts(r, n), c \in Counterparts(r, m)
    PROVE  n = m
<1>1. ASSUME NEW i \in DOMAIN src[r], NEW k \in DOMAIN src[r], src[r][i].mark = 0, src[r][k].mark # 0,
             c \in Counterparts(r, i), c \in Counterparts(r, k)
      PROVE  FALSE
    <2>1. i # 0
        BY SourceTyped
    <2>2. tgt[r][c].mark = i /\ c = src[r][k].mark
        BY <1>1 DEF Counterparts
    <2> QED BY <1>1, <2>1, <2>2 DEF RestoresBacked
<1>2. CASE src[r][n].mark = 0 /\ src[r][m].mark = 0
    BY <1>2 DEF Counterparts
<1>3. CASE src[r][n].mark # 0 /\ src[r][m].mark # 0
    BY <1>3 DEF Counterparts, RestoresBacked
<1> QED BY <1>1, <1>2, <1>3

(* What is about an item stays about it. *)
LEMMA CounterpartsGrow ==
    ASSUME SourceGrows, TargetGrows, NEW r \in Repos, NEW n \in DOMAIN src[r]
    PROVE  /\ Counterparts(r, n) \subseteq Counterparts(r, n)'
           /\ \A k : Original(r, n, k) => Original(r, n, k)'
           /\ \A k : k \in DOMAIN src[r][n].notes => (Original(r, n, k)' <=> Original(r, n, k))
<1>1. src'[r][n].mark = src[r][n].mark /\ Extends(src[r][n].notes, src'[r][n].notes)
    BY DEF SourceGrows
<1>2. \A c \in Counterparts(r, n) : c \in Counterparts(r, n)'
    BY <1>1 DEF TargetGrows, Counterparts
<1> QED BY <1>1, <1>2 DEF Extends, Original

-----------------------------------------------------------------------------
(* What the single writes add. *)

LEMMA SourceKept == ASSUME UNCHANGED src PROVE SourceGrows /\ SourceAdds
BY DEF SourceGrows, SourceAdds, Extends

LEMMA TargetKept == ASSUME UNCHANGED tgt PROVE TargetGrows /\ TargetAdds /\ NotesAdd
BY DEF TargetGrows, TargetAdds, NotesAdd, Extends

LEMMA NoteAppended ==
    ASSUME NEW s \in Seq(Nat), NEW k \in Nat
    PROVE  /\ Extends(s, Append(s, k))
           /\ \A j \in DOMAIN Append(s, k) \ DOMAIN s : j = Len(s) + 1 /\ Append(s, k)[j] = k
<1>1. DOMAIN s = 1..Len(s) /\ Len(s) \in Nat
    BY LenProperties
<1>2. DOMAIN Append(s, k) = 1..(Len(s) + 1) /\ Append(s, k)[Len(s) + 1] = k
    BY AppendProperties
<1>3. \A j \in 1..Len(s) : Append(s, k)[j] = s[j]
    BY AppendProperties
<1> QED BY <1>1, <1>2, <1>3 DEF Extends

(* Item c of target r becomes i, and no other item changes. *)
Wrote(r, c, i) == \A q \in Repos :
    /\ DOMAIN tgt'[q] = DOMAIN tgt[q]
    /\ \A d \in DOMAIN tgt[q] : tgt'[q][d] = IF q = r /\ d = c THEN i ELSE tgt[q][d]

LEMMA TargetWritten ==
    ASSUME TypeOK, NEW r \in Repos, NEW c, NEW i,
           tgt' = [tgt EXCEPT ![r] = [tgt[r] EXCEPT ![c] = i]],
           c \in DOMAIN tgt[r] => i.mark = tgt[r][c].mark
    PROVE  TargetAdds /\ Wrote(r, c, i)
<1>1. tgt \in [Repos -> Seq(TargetItem)]
    BY DEF TypeOK
<1>2. \A q \in Repos : tgt'[q] = IF q = r THEN [tgt[r] EXCEPT ![c] = i] ELSE tgt[q]
    BY <1>1
<1>3. \A q \in Repos : DOMAIN tgt'[q] = DOMAIN tgt[q]
    BY <1>2
<1>4. \A q \in Repos : \A d \in DOMAIN tgt[q] :
          tgt'[q][d] = IF q = r /\ d = c THEN i ELSE tgt[q][d]
    BY <1>2
<1>5. TargetAdds
    BY <1>3 DEF TargetAdds
<1> QED BY <1>3, <1>4, <1>5 DEF Wrote

LEMMA StateWritten ==
    ASSUME TypeOK, NEW r \in Repos, NEW c, NEW i,
           tgt' = [tgt EXCEPT ![r] = [tgt[r] EXCEPT ![c] = i]],
           c \in DOMAIN tgt[r] => i.mark = tgt[r][c].mark /\ i.notes = tgt[r][c].notes
    PROVE  TargetGrows /\ TargetAdds /\ NotesAdd
<1>1. TargetAdds /\ Wrote(r, c, i)
    BY TargetWritten
<1>2. \A q \in Repos : \A d \in DOMAIN tgt[q] :
          tgt'[q][d].mark = tgt[q][d].mark /\ tgt'[q][d].notes = tgt[q][d].notes
    BY <1>1 DEF Wrote
<1> QED BY <1>1, <1>2 DEF Wrote, TargetGrows, NotesAdd, Extends

LEMMA NoteWritten ==
    ASSUME TypeOK, NEW r \in Repos, NEW c \in DOMAIN tgt[r], NEW k \in Nat,
           tgt' = [tgt EXCEPT ![r][c].notes = Append(@, k)],
           k # 0 => \E p \in Jobs : Posts(p, r, c, k)
    PROVE  TargetGrows /\ TargetAdds /\ NotesAdd
<1>0. PICK i : i = [tgt[r][c] EXCEPT !.notes = Append(@, k)]
    OBVIOUS
<1>1. tgt' = [tgt EXCEPT ![r] = [tgt[r] EXCEPT ![c] = i]]
    BY <1>0
<1>2. i.mark = tgt[r][c].mark /\ i.notes = Append(tgt[r][c].notes, k) /\ tgt[r][c].notes \in Seq(Nat)
    BY <1>0, TargetTyped DEF TargetItem
<1>3. TargetAdds /\ Wrote(r, c, i)
    BY <1>1, <1>2, TargetWritten
<1>4. /\ Extends(tgt[r][c].notes, i.notes)
      /\ \A j \in DOMAIN i.notes \ DOMAIN tgt[r][c].notes : j = Len(tgt[r][c].notes) + 1 /\ i.notes[j] = k
    <2>1. PICK s : s = tgt[r][c].notes /\ s \in Seq(Nat)
        BY <1>2
    <2>2. /\ Extends(s, Append(s, k))
          /\ \A j \in DOMAIN Append(s, k) \ DOMAIN s : j = Len(s) + 1 /\ Append(s, k)[j] = k
        BY <2>1, NoteAppended
    <2> QED BY <1>2, <2>1, <2>2
<1>5. TargetGrows
    <2>1. ASSUME NEW q \in Repos, NEW d \in DOMAIN tgt[q]
          PROVE  tgt'[q][d].mark = tgt[q][d].mark /\ Extends(tgt[q][d].notes, tgt'[q][d].notes)
        <3>1. CASE q = r /\ d = c
            BY <1>2, <1>3, <1>4, <3>1 DEF Wrote
        <3>2. CASE ~(q = r /\ d = c)
            BY <1>3, <3>2 DEF Wrote, Extends
        <3> QED BY <3>1, <3>2
    <2> QED BY <1>3, <2>1 DEF Wrote, TargetGrows
<1>6. ASSUME NEW q \in Repos, NEW d \in DOMAIN tgt[q], NEW j \in DOMAIN tgt'[q][d].notes \ DOMAIN tgt[q][d].notes
      PROVE  /\ j = Len(tgt[q][d].notes) + 1
             /\ tgt'[q][d].notes[j] # 0 => \E p \in Jobs : Posts(p, q, d, tgt'[q][d].notes[j])
    <2>1. q = r /\ d = c /\ tgt'[q][d] = i
        <3>1. tgt'[q][d] = IF q = r /\ d = c THEN i ELSE tgt[q][d]
            BY <1>3 DEF Wrote
        <3> QED BY <1>6, <3>1
    <2>2. j = Len(tgt[r][c].notes) + 1 /\ i.notes[j] = k
        BY <1>4, <2>1
    <2> QED BY <2>1, <2>2
<1>7. NotesAdd
    BY <1>6 DEF NotesAdd
<1> QED BY <1>3, <1>5, <1>7

LEMMA ItemWritten ==
    ASSUME TypeOK, NEW r \in Repos, NEW i, tgt' = [tgt EXCEPT ![r] = Append(@, i)],
           i.notes = <<>>,
           i.mark # 0 => i.mark \in DOMAIN src[r] /\ src[r][i.mark].mark = 0
    PROVE  TargetGrows /\ TargetAdds /\ NotesAdd
<1>1. /\ \A q \in Repos \ {r} : tgt'[q] = tgt[q]
      /\ DOMAIN tgt[r] \subseteq DOMAIN tgt'[r]
      /\ \A c \in DOMAIN tgt'[r] : /\ c \in DOMAIN tgt[r] => tgt'[r][c] = tgt[r][c]
                                   /\ c \notin DOMAIN tgt[r] => tgt'[r][c] = i
    BY Appended
<1>2. ASSUME NEW q \in Repos
      PROVE  /\ DOMAIN tgt[q] \subseteq DOMAIN tgt'[q]
             /\ \A c \in DOMAIN tgt[q] : tgt'[q][c] = tgt[q][c]
             /\ \A c \in DOMAIN tgt'[q] \ DOMAIN tgt[q] : q = r /\ tgt'[q][c] = i
    BY <1>1
<1>3. TargetGrows /\ NotesAdd
    BY <1>2 DEF TargetGrows, NotesAdd, Extends
<1>4. TargetAdds
    BY <1>2 DEF TargetAdds
<1> QED BY <1>3, <1>4

LEMMA SourceWritten ==
    ASSUME TypeOK, NEW r \in Repos, NEW n \in DOMAIN src[r], NEW i,
           src' = [src EXCEPT ![r] = [src[r] EXCEPT ![n] = i]],
           i.mark = src[r][n].mark, Extends(src[r][n].notes, i.notes)
    PROVE  SourceGrows /\ SourceAdds
<1>1. src \in [Repos -> Seq(SourceItem)]
    BY DEF TypeOK
<1>2. \A q \in Repos : src'[q] = IF q = r THEN [src[r] EXCEPT ![n] = i] ELSE src[q]
    BY <1>1
<1>3. \A q \in Repos : DOMAIN src'[q] = DOMAIN src[q]
    BY <1>2
<1>4. \A q \in Repos : \A m \in DOMAIN src[q] :
          src'[q][m] = IF q = r /\ m = n THEN i ELSE src[q][m]
    BY <1>2
<1> QED BY <1>3, <1>4 DEF SourceGrows, SourceAdds, Extends

LEMMA SourceAppended ==
    ASSUME TypeOK, UNCHANGED tgt, NEW r \in Repos, NEW i, src' = [src EXCEPT ![r] = Append(src[r], i)],
           i.notes = <<>>,
           i.mark # 0 => /\ i.mark \in DOMAIN tgt[r] /\ tgt[r][i.mark].mark = 0
                         /\ \A m \in DOMAIN src[r] : src[r][m].mark # i.mark
    PROVE  SourceGrows /\ SourceAdds
<1>1. src \in [Repos -> Seq(SourceItem)]
    BY DEF TypeOK
<1>2. /\ src'[r] = Append(src[r], i) /\ \A q \in Repos \ {r} : src'[q] = src[q]
      /\ DOMAIN src[r] = 1..Len(src[r]) /\ Len(src[r]) \in Nat /\ src[r] \in Seq(SourceItem)
    BY <1>1, LenProperties
<1>3. /\ DOMAIN src'[r] = 1..(Len(src[r]) + 1)
      /\ \A m \in 1..Len(src[r]) : src'[r][m] = src[r][m]
      /\ src'[r][Len(src[r]) + 1] = i
    BY <1>2
<1>4. \A m \in DOMAIN src'[r] \ DOMAIN src[r] : m = Len(src[r]) + 1 /\ src'[r][m] = i
    BY <1>2, <1>3
<1>5. SourceGrows
    BY <1>2, <1>3 DEF SourceGrows, Extends
<1>6. ASSUME i.mark # 0, NEW m \in DOMAIN src'[r], src'[r][m].mark = i.mark PROVE m = Len(src[r]) + 1
    <2>1. m \notin DOMAIN src[r]
        BY <1>2, <1>3, <1>6
    <2> QED BY <1>4, <2>1
<1>7. SourceAdds
    BY <1>2, <1>4, <1>6 DEF SourceAdds
<1> QED BY <1>5, <1>7

-----------------------------------------------------------------------------
(* What people, and restores long ended, do. *)

(* Item n of source r becomes i: it was edited, or a comment was added, or both. *)
ItemTouched(r, n, i) ==
    /\ src' = [src EXCEPT ![r] = [src[r] EXCEPT ![n] = i]]
    /\ rev' = rev + 1
    /\ UNCHANGED <<clock, tgt>>
    /\ i.mark = src[r][n].mark
    /\ i.notes = src[r][n].notes \/ \E k \in Nat : i.notes = Append(src[r][n].notes, k)
    /\ \/ i.rev = rev + 1 /\ i.at = clock /\ i.noted = src[r][n].noted
       \/ From = "gitlab" /\ i.rev = src[r][n].rev /\ i.at = src[r][n].at /\ i.noted = clock /\ i.state = src[r][n].state

ItemMade(r, i) ==
    /\ src' = [src EXCEPT ![r] = Append(src[r], i)]
    /\ rev' = rev + 1
    /\ UNCHANGED <<clock, tgt>>
    /\ i.rev = rev + 1 /\ i.at = clock /\ i.noted = 0 /\ i.notes = <<>>
    /\ i.mark # 0 => /\ i.mark \in DOMAIN tgt[r] /\ tgt[r][i.mark].mark = 0
                     /\ \A m \in DOMAIN src[r] : src[r][m].mark # i.mark

TargetWorked == \E r \in Repos :
    /\ UNCHANGED <<clock, src>> /\ rev' = rev + 1
    /\ \/ tgt' = [tgt EXCEPT ![r] = Append(@, [mark |-> 0, rev |-> 0, state |-> "open", notes |-> <<>>])]
       \/ \E c \in DOMAIN tgt[r] : tgt' = [tgt EXCEPT ![r][c].notes = Append(@, 0)]

LEMMA FreshFields ==
    ASSUME NEW s, NEW m
    PROVE  /\ Fresh(s, m).rev = rev + 1 /\ Fresh(s, m).at = clock /\ Fresh(s, m).noted = 0
           /\ Fresh(s, m).notes = <<>> /\ Fresh(s, m).mark = m /\ Fresh(s, m).state = s
BY DEF Fresh

LEMMA ChangeFields ==
    ASSUME NEW r, NEW items, Change(r, items)
    PROVE  src' = [src EXCEPT ![r] = items] /\ rev' = rev + 1 /\ UNCHANGED <<clock, tgt, cursor, pc, pass, work>>
BY DEF Change, jobs

LEMMA CommentTouches ==
    ASSUME TypeInv, NEW r \in Repos, NEW n \in DOMAIN src[r], NEW k \in Nat, Comment(r, n, k)
    PROVE  /\ \E i \in SourceItem : ItemTouched(r, n, i)
           /\ UNCHANGED <<cursor, pc, pass, work>>
<1> DEFINE old    == src[r][n]
           bumped == [old EXCEPT !.rev = rev + 1, !.at = clock, !.notes = Append(@, k)]
           noted  == [old EXCEPT !.noted = clock, !.notes = Append(@, k)]
<1>1. old \in SourceItem /\ rev + 1 \in Nat /\ clock \in Nat /\ Append(old.notes, k) \in Seq(Nat)
    BY SourceTyped, AppendProperties DEF TypeInv, TypeOK
<1>2. bumped \in SourceItem /\ noted \in SourceItem
    BY <1>1, ItemEdited
<1>3. /\ bumped.mark = old.mark /\ bumped.notes = Append(old.notes, k)
      /\ bumped.rev = rev + 1 /\ bumped.at = clock /\ bumped.noted = old.noted
      /\ noted.mark = old.mark /\ noted.notes = Append(old.notes, k)
      /\ noted.rev = old.rev /\ noted.at = old.at /\ noted.noted = clock /\ noted.state = old.state
    BY <1>1 DEF SourceItem
<1>4. Change(r, [src[r] EXCEPT ![n] = bumped]) \/ (From = "gitlab" /\ Change(r, [src[r] EXCEPT ![n] = noted]))
    BY DEF Comment
<1> HIDE DEF bumped, noted
<1>5. CASE Change(r, [src[r] EXCEPT ![n] = bumped])
    <2>1. /\ src' = [src EXCEPT ![r] = [src[r] EXCEPT ![n] = bumped]] /\ rev' = rev + 1
          /\ UNCHANGED <<clock, tgt, cursor, pc, pass, work>>
        BY <1>5, ChangeFields
    <2>2. ItemTouched(r, n, bumped)
        BY <1>3, <2>1 DEF ItemTouched
    <2> QED BY <1>2, <2>1, <2>2
<1>6. CASE From = "gitlab" /\ Change(r, [src[r] EXCEPT ![n] = noted])
    <2>1. /\ src' = [src EXCEPT ![r] = [src[r] EXCEPT ![n] = noted]] /\ rev' = rev + 1
          /\ UNCHANGED <<clock, tgt, cursor, pc, pass, work>>
        BY <1>6, ChangeFields
    <2>2. ItemTouched(r, n, noted)
        BY <1>3, <1>6, <2>1 DEF ItemTouched
    <2> QED BY <1>2, <2>1, <2>2
<1> QED BY <1>4, <1>5, <1>6

LEMMA NewSourceItem ==
    ASSUME TypeInv, NEW r \in Repos, NEW s \in States, NEW m \in Nat, Change(r, Append(src[r], Fresh(s, m))),
           m # 0 => /\ m \in DOMAIN tgt[r] /\ tgt[r][m].mark = 0
                    /\ \A k \in DOMAIN src[r] : src[r][k].mark # m
    PROVE  /\ \E i \in SourceItem : ItemMade(r, i)
           /\ UNCHANGED <<cursor, pc, pass, work>>
<1>1. rev + 1 \in Nat /\ clock \in Nat /\ <<>> \in Seq(Nat)
    BY EmptySeq DEF TypeInv, TypeOK
<1>2. Fresh(s, m) \in SourceItem
    BY <1>1 DEF SourceItem, Fresh
<1>3. /\ src' = [src EXCEPT ![r] = Append(src[r], Fresh(s, m))] /\ rev' = rev + 1
      /\ UNCHANGED <<clock, tgt, cursor, pc, pass, work>>
    BY ChangeFields
<1>4. ItemMade(r, Fresh(s, m))
    BY <1>3, FreshFields DEF ItemMade
<1> QED BY <1>2, <1>3, <1>4

(* The steps of everybody but the runs, by what they do to the forges. *)
LEMMA ForgesKinds ==
    ASSUME TypeInv, Forges
    PROVE  /\ UNCHANGED <<pc, pass, work>>
           /\ UNCHANGED cursor \/ \E f \in Paths : cursor' = [cursor EXCEPT ![f] = 0]
           /\ \/ UNCHANGED <<rev, src, tgt>> /\ clock' \in {clock, clock + 1}
              \/ \E r \in Repos : \E n \in DOMAIN src[r] : \E i \in SourceItem : ItemTouched(r, n, i)
              \/ \E r \in Repos : \E i \in SourceItem : ItemMade(r, i)
              \/ TargetWorked
<1>1. ASSUME NEW r \in Repos, NEW n \in DOMAIN src[r], EditItem(r, n)
      PROVE  (\E i \in SourceItem : ItemTouched(r, n, i)) /\ UNCHANGED <<cursor, pc, pass, work>>
    <2>1. PICK s \in States :
              Change(r, [src[r] EXCEPT ![n] = [@ EXCEPT !.rev = rev + 1, !.at = clock, !.state = s]])
        BY <1>1 DEF EditItem
    <2> DEFINE i == [src[r][n] EXCEPT !.rev = rev + 1, !.at = clock, !.state = s]
    <2>2. rev + 1 \in Nat /\ clock \in Nat /\ src[r][n] \in SourceItem
        BY SourceTyped DEF TypeInv, TypeOK
    <2>3. i \in SourceItem
        BY <2>2, ItemEdited
    <2>4. /\ i.mark = src[r][n].mark /\ i.notes = src[r][n].notes
          /\ i.rev = rev + 1 /\ i.at = clock /\ i.noted = src[r][n].noted
        BY <2>2 DEF SourceItem
    <2>5. Change(r, [src[r] EXCEPT ![n] = i])
        BY <2>1
    <2> HIDE DEF i
    <2> QED BY <2>3, <2>4, <2>5, ChangeFields DEF ItemTouched
<1>2. ASSUME NEW r \in Repos, NEW n \in DOMAIN src[r], RestoredNote(r, n)
      PROVE  (\E i \in SourceItem : ItemTouched(r, n, i)) /\ UNCHANGED <<cursor, pc, pass, work>>
    <2>1. PICK c \in Counterparts(r, n) : \E k \in DOMAIN tgt[r][c].notes : Comment(r, n, k)
        BY <1>2 DEF RestoredNote
    <2>2. c \in DOMAIN tgt[r]
        BY DEF Counterparts
    <2>3. tgt[r][c].notes \in Seq(Nat)
        BY <2>2, TargetTyped DEF TypeInv
    <2>4. DOMAIN tgt[r][c].notes \subseteq Nat
        BY <2>3, LenProperties
    <2> QED BY <2>1, <2>4, CommentTouches
<1>3. ASSUME NEW r \in Repos, NewItem(r)
      PROVE  (\E i \in SourceItem : ItemMade(r, i)) /\ UNCHANGED <<cursor, pc, pass, work>>
    BY <1>3, NewSourceItem DEF NewItem, States
<1>4. ASSUME NEW r \in Repos, NEW c \in DOMAIN tgt[r], RestoredItem(r, c)
      PROVE  (\E i \in SourceItem : ItemMade(r, i)) /\ UNCHANGED <<cursor, pc, pass, work>>
    <2>1. c \in Nat /\ tgt[r][c].state \in States
        BY TargetTyped DEF TypeInv, TargetItem
    <2> QED BY <1>4, <2>1, NewSourceItem DEF RestoredItem
<1>5. ASSUME NEW r \in Repos, NEW n \in DOMAIN src[r], CommentItem(r, n)
      PROVE  (\E i \in SourceItem : ItemTouched(r, n, i)) /\ UNCHANGED <<cursor, pc, pass, work>>
    BY <1>5, CommentTouches DEF CommentItem
<1>6. ASSUME NEW r \in Repos, OwnItem(r) \/ \E c \in DOMAIN tgt[r] : OwnNote(r, c)
      PROVE  TargetWorked /\ UNCHANGED <<cursor, pc, pass, work>>
    BY <1>6 DEF OwnItem, OwnNote, jobs, TargetWorked
<1>7. CASE Tick
    BY <1>7 DEF Tick, jobs
<1>8. ASSUME NEW f \in Paths, LoseCursor(f)
      PROVE  cursor' = [cursor EXCEPT ![f] = 0] /\ UNCHANGED <<clock, rev, src, tgt, pc, pass, work>>
    BY <1>8 DEF LoseCursor, forges
<1> QED BY <1>1, <1>2, <1>3, <1>4, <1>5, <1>6, <1>7, <1>8 DEF Forges

LEMMA ForgesAdds == ASSUME TypeInv, Forges PROVE Adds
<1>1. CASE UNCHANGED <<src, tgt>>
    BY <1>1, SourceKept, TargetKept DEF Adds
<1>2. ASSUME NEW r \in Repos, NEW n \in DOMAIN src[r], NEW i \in SourceItem, ItemTouched(r, n, i)
      PROVE  Adds
    <2>1. src[r][n].notes \in Seq(Nat)
        BY SourceTyped DEF TypeInv
    <2>2. Extends(src[r][n].notes, i.notes)
        <3>1. CASE i.notes = src[r][n].notes
            BY <3>1 DEF Extends
        <3>2. ASSUME NEW k \in Nat, i.notes = Append(src[r][n].notes, k) PROVE Extends(src[r][n].notes, i.notes)
            BY <2>1, <3>2, NoteAppended
        <3> QED BY <1>2, <3>1, <3>2 DEF ItemTouched
    <2>3. SourceGrows /\ SourceAdds
        BY <1>2, <2>2, SourceWritten DEF ItemTouched, TypeInv
    <2> QED BY <1>2, <2>3, TargetKept DEF ItemTouched, Adds
<1>3. ASSUME NEW r \in Repos, NEW i \in SourceItem, ItemMade(r, i) PROVE Adds
    <2>1. SourceGrows /\ SourceAdds
        BY <1>3, SourceAppended DEF ItemMade, TypeInv
    <2> QED BY <1>3, <2>1, TargetKept DEF ItemMade, Adds
<1>4. CASE TargetWorked
    <2>1. PICK r \in Repos :
              /\ UNCHANGED src
              /\ \/ tgt' = [tgt EXCEPT ![r] = Append(@, [mark |-> 0, rev |-> 0, state |-> "open", notes |-> <<>>])]
                 \/ \E c \in DOMAIN tgt[r] : tgt' = [tgt EXCEPT ![r][c].notes = Append(@, 0)]
        BY <1>4 DEF TargetWorked
    <2>2. TargetGrows /\ TargetAdds /\ NotesAdd
        <3>1. CASE \E c \in DOMAIN tgt[r] : tgt' = [tgt EXCEPT ![r][c].notes = Append(@, 0)]
            BY <3>1, NoteWritten DEF TypeInv
        <3> DEFINE own == [mark |-> 0, rev |-> 0, state |-> "open", notes |-> <<>>]
        <3>2. own.mark = 0 /\ own.notes = <<>>
            OBVIOUS
        <3>3. (\E c \in DOMAIN tgt[r] : tgt' = [tgt EXCEPT ![r][c].notes = Append(@, 0)])
              \/ tgt' = [tgt EXCEPT ![r] = Append(@, own)]
            BY <2>1
        <3> HIDE DEF own
        <3>4. CASE tgt' = [tgt EXCEPT ![r] = Append(@, own)]
            BY <3>2, <3>4, ItemWritten DEF TypeInv
        <3> QED BY <3>1, <3>3, <3>4
    <2> QED BY <2>1, <2>2, SourceKept DEF Adds
<1> QED BY <1>1, <1>2, <1>3, <1>4, ForgesKinds

-----------------------------------------------------------------------------
(* What a run at l with w in hand knows: it reads marks and notes nobody takes back. *)
Knows(l, w) ==
    /\ \A b \in w.batch : b.mark = src[w.repo][b.n].mark
    /\ l \in Informed => \A n \in Numbers : w.origins[n] # 0 => w.origins[n] \in Copies(w.repo, n)
    /\ l \in OnItem => w.ref \in Counterparts(w.repo, w.item.n)
    /\ l = "have" => w.notes \subseteq DOMAIN src[w.repo][w.item.n].notes
    /\ l = "post" => \A k \in w.notes : Original(w.repo, w.item.n, k)

Paired(p) == Knows(pc[p], work[p])

EchoInv == TypeInv /\ Backed /\ \A p \in Jobs : Paired(p)

LEMMA InitEcho == Init => EchoInv
<1> SUFFICES ASSUME Init PROVE EchoInv
    OBVIOUS
<1>1. TypeInv
    BY InitTypes
<1>2. Backed
    BY DEF Init, Backed, CopiesBacked, RestoresBacked, NotesBacked
<1>3. \A p \in Jobs : Paired(p)
    BY DEF Init, Paired, Knows, NoWork, Informed, OnItem
<1> QED BY <1>1, <1>2, <1>3 DEF EchoInv

LEMMA ItemInHand ==
    ASSUME EchoInv, NEW p \in Jobs, pc[p] \in OnItem
    PROVE  /\ Here(p) \in Repos /\ Here(p) = work[p].repo
           /\ work[p].item.n \in DOMAIN src[Here(p)]
           /\ work[p].ref \in Counterparts(Here(p), work[p].item.n)
           /\ work[p].ref \in DOMAIN tgt[Here(p)]
           /\ src[Here(p)][work[p].item.n].notes \in Seq(Nat)
           /\ tgt[Here(p)][work[p].ref].notes \in Seq(Nat)
<1>1. pc[p] \in InRepo
    BY DEF OnItem, InRepo
<1>2. /\ Here(p) \in Repos /\ Here(p) = work[p].repo
      /\ work[p].item.n \in DOMAIN src[Here(p)]
    BY <1>1, HereTyped DEF EchoInv
<1>3. work[p].ref \in Counterparts(Here(p), work[p].item.n)
    BY <1>2 DEF EchoInv, Paired, Knows
<1>4. work[p].ref \in DOMAIN tgt[Here(p)]
    BY <1>3 DEF Counterparts
<1> QED BY <1>2, <1>3, <1>4, SourceTyped, TargetTyped DEF EchoInv, TypeInv

LEMMA PostsOriginal ==
    ASSUME EchoInv, NEW p \in Jobs, NEW r, NEW c, NEW k, Posts(p, r, c, k)
    PROVE  /\ r \in Repos /\ work[p].item.n \in DOMAIN src[r] /\ c \in Counterparts(r, work[p].item.n)
           /\ Original(r, work[p].item.n, k)
<1>1. pc[p] = "post" /\ r = Here(p) /\ c = work[p].ref /\ k \in work[p].notes /\ pc[p] \in OnItem
    BY DEF Posts, OnItem
<1>2. r \in Repos /\ r = work[p].repo /\ work[p].item.n \in DOMAIN src[r] /\ c \in Counterparts(r, work[p].item.n)
    BY <1>1, ItemInHand
<1>3. Original(work[p].repo, work[p].item.n, k)
    BY <1>1 DEF EchoInv, Paired, Knows
<1> QED BY <1>2, <1>3

LEMMA BackedStep ==
    ASSUME EchoInv, TypeInv', Adds
    PROVE  Backed'
<1>1. CopiesBacked'
    <2> SUFFICES ASSUME NEW r \in Repos, NEW c \in DOMAIN tgt'[r], tgt'[r][c].mark # 0
                 PROVE  tgt'[r][c].mark \in DOMAIN src'[r] /\ src'[r][tgt'[r][c].mark].mark = 0
        BY DEF CopiesBacked
    <2>1. tgt'[r][c].mark \in DOMAIN src[r] /\ src[r][tgt'[r][c].mark].mark = 0
        BY DEF Adds, TargetGrows, TargetAdds, EchoInv, Backed, CopiesBacked
    <2> QED BY <2>1 DEF Adds, SourceGrows
<1>2. RestoresBacked'
    <2> SUFFICES ASSUME NEW r \in Repos, NEW n \in DOMAIN src'[r], src'[r][n].mark # 0
                 PROVE  /\ src'[r][n].mark \in DOMAIN tgt'[r] /\ tgt'[r][src'[r][n].mark].mark = 0
                        /\ \A m \in DOMAIN src'[r] : src'[r][m].mark = src'[r][n].mark => m = n
        BY DEF RestoresBacked
    <2>1. CASE n \in DOMAIN src[r]
        <3>1. /\ src'[r][n].mark = src[r][n].mark
              /\ src[r][n].mark \in DOMAIN tgt[r] /\ tgt[r][src[r][n].mark].mark = 0
            BY <2>1 DEF Adds, SourceGrows, EchoInv, Backed, RestoresBacked
        <3>2. src'[r][n].mark \in DOMAIN tgt'[r] /\ tgt'[r][src'[r][n].mark].mark = 0
            BY <3>1 DEF Adds, TargetGrows
        <3>3. ASSUME NEW m \in DOMAIN src'[r], src'[r][m].mark = src'[r][n].mark PROVE m = n
            <4>1. CASE m \in DOMAIN src[r]
                BY <2>1, <3>1, <3>3, <4>1 DEF Adds, SourceGrows, EchoInv, Backed, RestoresBacked
            <4>2. CASE m \notin DOMAIN src[r]
                BY <3>3, <4>2 DEF Adds, SourceAdds
            <4> QED BY <4>1, <4>2
        <3> QED BY <3>2, <3>3
    <2>2. CASE n \notin DOMAIN src[r]
        BY <2>2 DEF Adds, SourceAdds
    <2> QED BY <2>1, <2>2
<1>3. NotesBacked'
    <2>1. ASSUME NEW r \in Repos, NEW c \in DOMAIN tgt'[r], NEW j \in DOMAIN tgt'[r][c].notes, NEW k,
                 k = tgt'[r][c].notes[j], k # 0
          PROVE  \E n \in DOMAIN src'[r] : c \in Counterparts(r, n)' /\ Original(r, n, k)'
        <3>1. CASE c \in DOMAIN tgt[r]
            <4>1. \E n \in DOMAIN src[r] : c \in Counterparts(r, n) /\ Original(r, n, k)
                <5>1. CASE j \in DOMAIN tgt[r][c].notes
                    BY <2>1, <3>1, <5>1 DEF Adds, TargetGrows, Extends, EchoInv, Backed, NotesBacked
                <5>2. CASE j \notin DOMAIN tgt[r][c].notes
                    <6>1. PICK p \in Jobs : Posts(p, r, c, k)
                        BY <2>1, <3>1, <5>2 DEF Adds, NotesAdd
                    <6> QED BY <6>1, PostsOriginal
                <5> QED BY <5>1, <5>2
            <4>2. PICK n \in DOMAIN src[r] : c \in Counterparts(r, n) /\ Original(r, n, k)
                BY <4>1
            <4>3. c \in Counterparts(r, n)' /\ n \in DOMAIN src'[r] /\ Original(r, n, k)'
                BY <4>2, CounterpartsGrow DEF Adds, SourceGrows
            <4> QED BY <4>3
        <3>2. CASE c \notin DOMAIN tgt[r]
            <4>1. tgt'[r][c].notes = <<>>
                BY <3>2 DEF Adds, TargetAdds
            <4> QED BY <2>1, <4>1
        <3> QED BY <3>1, <3>2
    <2> QED BY <2>1 DEF NotesBacked, Original
<1> QED BY <1>1, <1>2, <1>3 DEF Backed

Placing(l, w) ==
    /\ l \in Informed \/ w.batch # {} => w.repo \in Repos
    /\ \A b \in w.batch : b.n \in DOMAIN src[w.repo]
    /\ l \in OnItem => w.item.n \in DOMAIN src[w.repo]

LEMMA JobPlaced == ASSUME TypeInv, NEW p \in Jobs PROVE Placing(pc[p], work[p])
<1>1. Informed \subseteq InRepo
    BY DEF Informed, InRepo
<1> QED BY <1>1 DEF TypeInv, Placed, Placing

LEMMA KnowsKept ==
    ASSUME SourceGrows, TargetGrows, NEW l, NEW w, Placing(l, w), Knows(l, w)
    PROVE  Knows(l, w)'
<1>0. OnItem \subseteq Informed /\ {"have", "post"} \subseteq OnItem
    BY DEF OnItem, Informed
<1>1. \A b \in w.batch : b.mark = src'[w.repo][b.n].mark
    BY DEF SourceGrows, Placing, Knows
<1>2. ASSUME l \in Informed, NEW n \in Numbers, w.origins[n] # 0 PROVE w.origins[n] \in Copies(w.repo, n)'
    BY <1>2 DEF TargetGrows, Placing, Knows, Copies
<1>3. ASSUME l \in OnItem
      PROVE  /\ w.ref \in Counterparts(w.repo, w.item.n)'
             /\ l = "have" => w.notes \subseteq DOMAIN src'[w.repo][w.item.n].notes
             /\ l = "post" => \A k \in w.notes : Original(w.repo, w.item.n, k)'
    <2>1. w.repo \in Repos /\ w.item.n \in DOMAIN src[w.repo]
        BY <1>0, <1>3 DEF Placing
    <2>2. w.ref \in Counterparts(w.repo, w.item.n)'
        BY <1>3, <2>1, CounterpartsGrow DEF Knows
    <2>3. l = "have" => w.notes \subseteq DOMAIN src'[w.repo][w.item.n].notes
        BY <2>1 DEF Knows, SourceGrows, Extends
    <2>4. l = "post" => \A k \in w.notes : Original(w.repo, w.item.n, k)'
        BY <2>1, CounterpartsGrow DEF Knows
    <2> QED BY <2>2, <2>3, <2>4
<1> QED BY <1>0, <1>1, <1>2, <1>3 DEF Knows

(* A step keeps what is known, and adds only what it may. *)
EchoNext == Adds /\ EchoInv'

(* What is known depends on nothing but the forges. *)
LEMMA KnowsPrimed ==
    ASSUME NEW q \in Jobs, NEW l, NEW w, pc'[q] = l, work'[q] = w, Knows(l, w)'
    PROVE  Paired(q)'
<1>1. /\ \A b \in w.batch : b.mark = src'[w.repo][b.n].mark
      /\ l \in Informed => \A n \in Numbers : w.origins[n] # 0 => w.origins[n] \in Copies(w.repo, n)'
      /\ l \in OnItem => w.ref \in Counterparts(w.repo, w.item.n)'
      /\ l = "have" => w.notes \subseteq DOMAIN src'[w.repo][w.item.n].notes
      /\ l = "post" => \A k \in w.notes : Original(w.repo, w.item.n, k)'
    BY DEF Knows
<1> QED BY <1>1 DEF Paired, Knows, Original, Copies, Counterparts

LEMMA EchoStep ==
    ASSUME EchoInv, Adds, TypeInv', NEW p \in Jobs, NEW l, NEW w,
           pc' = [pc EXCEPT ![p] = l], work' = [work EXCEPT ![p] = w],
           Knows(l, w)'
    PROVE  EchoNext
<1>1. Backed'
    BY BackedStep
<1>2. pc \in [Jobs -> Places] /\ work \in [Jobs -> Work]
    BY DEF EchoInv, TypeInv, TypeOK
<1>3. ASSUME NEW q \in Jobs PROVE Paired(q)'
    <2>1. CASE q = p
        <3>1. pc'[q] = l /\ work'[q] = w
            BY <1>2, <2>1
        <3> QED BY <3>1, KnowsPrimed
    <2>2. CASE q # p
        <3>1. pc'[q] = pc[q] /\ work'[q] = work[q]
            BY <1>2, <2>2
        <3>2. PICK m, v : m = pc[q] /\ v = work[q]
            OBVIOUS
        <3>3. Knows(m, v)'
            BY <3>2, JobPlaced, KnowsKept DEF EchoInv, Paired, Adds
        <3>4. pc'[q] = m /\ work'[q] = v
            BY <3>1, <3>2
        <3> QED BY <3>3, <3>4, KnowsPrimed
    <2> QED BY <2>1, <2>2
<1> QED BY <1>1, <1>3 DEF EchoInv, EchoNext

LEMMA ForgesEcho == ASSUME EchoInv, Forges PROVE EchoNext
<1>1. TypeInv' /\ Adds /\ UNCHANGED <<pc, work>>
    BY ForgesTypes, ForgesAdds, ForgesKinds DEF EchoInv
<1>2. Backed'
    BY <1>1, BackedStep
<1>3. ASSUME NEW q \in Jobs PROVE Paired(q)'
    <2>1. PICK m, v : m = pc[q] /\ v = work[q]
        OBVIOUS
    <2>2. Knows(m, v)'
        BY <1>1, <2>1, JobPlaced, KnowsKept DEF EchoInv, Paired, Adds
    <2> QED BY <1>1, <2>1, <2>2, KnowsPrimed
<1> QED BY <1>1, <1>2, <1>3 DEF EchoInv, EchoNext

(* A step that touches no mark and no note. *)
LEMMA QuietEcho ==
    ASSUME EchoInv, TypeInv', UNCHANGED <<src, tgt>>, NEW p \in Jobs, NEW l, NEW w,
           pc' = [pc EXCEPT ![p] = l], work' = [work EXCEPT ![p] = w],
           Knows(l, w)
    PROVE  EchoNext
<1>1. Adds
    BY SourceKept, TargetKept DEF Adds
<1>2. Knows(l, w)'
    BY DEF Knows, Original, Copies, Counterparts
<1> QED BY <1>1, <1>2, EchoStep

LEMMA LeaveEcho ==
    ASSUME EchoInv, TypeInv', UNCHANGED <<src, tgt>>, NEW p \in Jobs,
           NEW l \in {"idle", "repos", "next", "list"}, NEW w,
           pc' = [pc EXCEPT ![p] = l], work' = [work EXCEPT ![p] = w], w.batch = {}
    PROVE  EchoNext
<1>1. Knows(l, w)
    BY DEF Knows, Informed, OnItem
<1> QED BY <1>1, QuietEcho

LEMMA OutsideEmpty == ASSUME TypeInv, NEW p \in Jobs, pc[p] \notin InRepo PROVE work[p].batch = {}
BY DEF TypeInv, Placed

LEMMA RunEcho ==
    ASSUME EchoInv, TypeInv', NEW p \in Jobs,
           StartRun(p) \/ FindRepos(p) \/ FinishRun(p) \/ FailRun(p)
    PROVE  EchoNext
<1>1. PICK l \in {"idle", "repos", "next"} : pc' = [pc EXCEPT ![p] = l]
    BY DEF StartRun, FindRepos, FinishRun, FailRun
<1>2. pc[p] \notin InRepo /\ UNCHANGED <<src, tgt, work>>
    BY DEF StartRun, FindRepos, FinishRun, FailRun, forges, InRepo
<1>3. work' = [work EXCEPT ![p] = work[p]] /\ work[p].batch = {}
    BY <1>2, Frame, OutsideEmpty DEF EchoInv
<1> QED BY <1>1, <1>2, <1>3, LeaveEcho

LEMMA NextRepoEcho == ASSUME EchoInv, TypeInv', NEW p \in Jobs, NextRepo(p) PROVE EchoNext
<1>1. PICK r \in pass[p].todo : /\ pc[p] = "next"
                                /\ work' = [work EXCEPT ![p].repo = r]
                                /\ pc' = [pc EXCEPT ![p] = "list"]
                                /\ UNCHANGED <<src, tgt>>
    BY DEF NextRepo, forges
<1> DEFINE w == [work[p] EXCEPT !.repo = r]
<1>2. work[p].batch = {} /\ work[p] \in Work
    BY <1>1, JobTyped, OutsideEmpty DEF EchoInv, TypeInv, InRepo
<1>3. w.batch = {} /\ work' = [work EXCEPT ![p] = w]
    BY <1>1, <1>2 DEF Work
<1> HIDE DEF w
<1> QED BY <1>1, <1>3, LeaveEcho

LEMMA LeaveStepsEcho ==
    ASSUME EchoInv, TypeInv', NEW p \in Jobs, FinishRepo(p) \/ FailRepo(p) \/ Crash(p)
    PROVE  EchoNext
<1>1. PICK l \in {"next", "idle"} : pc' = [pc EXCEPT ![p] = l] /\ work' = [work EXCEPT ![p] = NoWork]
    BY DEF FinishRepo, FailRepo, Crash, LeaveRepo
<1>2. UNCHANGED <<src, tgt>>
    BY DEF FinishRepo, FailRepo, Crash, forges
<1>3. NoWork.batch = {}
    BY DEF NoWork
<1> QED BY <1>1, <1>2, <1>3, LeaveEcho

(* Listing: a snapshot has the mark its item has. *)
TrueMarks(r, batch) == \A b \in batch : b.mark = src[r][b.n].mark

LEMMA BatchEcho ==
    ASSUME EchoInv, TypeInv', UNCHANGED <<src, tgt>>, NEW p \in Jobs,
           NEW l \in {"list", "events", "fetch", "ensure"}, NEW w,
           pc' = [pc EXCEPT ![p] = l], work' = [work EXCEPT ![p] = w],
           TrueMarks(w.repo, w.batch)
    PROVE  EchoNext
<1>1. Knows(l, w)
    BY DEF Knows, TrueMarks, Informed, OnItem
<1> QED BY <1>1, QuietEcho

LEMMA EndListingEcho ==
    ASSUME EchoInv, TypeInv', UNCHANGED <<src, tgt>>, NEW p \in Jobs, NEW got,
           TrueMarks(work[p].repo, got), EndListing(p, got)
    PROVE  EchoNext
<1>1. CASE LeaveRepo(p)
    <2>1. NoWork.batch = {}
        BY DEF NoWork
    <2> QED BY <1>1, <2>1, LeaveEcho DEF LeaveRepo
<1>2. CASE /\ work' = [work EXCEPT ![p].batch = got, ![p].page = 1]
           /\ pc' = [pc EXCEPT ![p] = "ensure"]
    <2> DEFINE w == [work[p] EXCEPT !.batch = got, !.page = 1]
    <2>1. w.batch = got /\ w.repo = work[p].repo
        BY JobTyped DEF Work, EchoInv, TypeInv
    <2>2. work' = [work EXCEPT ![p] = w]
        BY <1>2
    <2> HIDE DEF w
    <2> QED BY <1>2, <2>1, <2>2, BatchEcho
<1> QED BY <1>1, <1>2 DEF EndListing

LEMMA ListingEcho ==
    ASSUME EchoInv, TypeInv', NEW p \in Jobs, ListPage(p) \/ ListChanged(p) \/ ListEvents(p) \/ Fetch(p)
    PROVE  EchoNext
<1> DEFINE r == Here(p)
<1>1. /\ UNCHANGED <<src, tgt>> /\ work[p] \in Work /\ r = work[p].repo
      /\ TrueMarks(r, work[p].batch)
    BY JobTyped DEF ListPage, ListChanged, ListEvents, Fetch, forges, EchoInv, TypeInv, Paired, Knows, Here, TrueMarks
<1>2. \A n : Snap(r, n).n = n /\ Snap(r, n).mark = src[r][n].mark
    BY DEF Snap
<1>3. ASSUME NEW N, NEW S, S = work[p].batch \cup {Snap(r, n) : n \in N}
      PROVE  TrueMarks(r, S)
    BY <1>1, <1>2, <1>3 DEF TrueMarks
<1>4. CASE ListPage(p)
    <2>1. PICK got : got = work[p].batch \cup {Snap(r, n) : n \in OnPage(r, pass[p].since, work[p].page)}
        OBVIOUS
    <2>2. TrueMarks(r, got)
        BY <1>3, <2>1
    <2>3. CASE EndListing(p, got)
        BY <1>1, <2>2, <2>3, EndListingEcho
    <2>4. CASE work' = [work EXCEPT ![p].batch = got, ![p].page = @ + 1] /\ UNCHANGED pc
        <3> DEFINE w == [work[p] EXCEPT !.batch = got, !.page = @ + 1]
        <3>1. w.batch = got /\ w.repo = r
            BY <1>1 DEF Work
        <3>2. work' = [work EXCEPT ![p] = w]
            BY <2>4
        <3>3. pc' = [pc EXCEPT ![p] = "list"]
            BY <1>4, <2>4, Frame DEF ListPage, EchoInv
        <3> HIDE DEF w
        <3> QED BY <1>1, <2>2, <3>1, <3>2, <3>3, BatchEcho
    <2> QED BY <1>4, <2>1, <2>3, <2>4 DEF ListPage
<1>5. CASE ListChanged(p)
    <2> DEFINE w == [work[p] EXCEPT !.batch = {Snap(r, n) : n \in Listed(r, pass[p].since)}]
    <2>1. work' = [work EXCEPT ![p] = w] /\ pc' = [pc EXCEPT ![p] = "events"]
        BY <1>5 DEF ListChanged
    <2>2. w.batch = {Snap(r, n) : n \in Listed(r, pass[p].since)} /\ w.repo = r
        BY <1>1 DEF Work
    <2>3. TrueMarks(r, w.batch)
        BY <1>2, <2>2 DEF TrueMarks
    <2> HIDE DEF w
    <2> QED BY <1>1, <2>1, <2>2, <2>3, BatchEcho
<1>6. CASE ListEvents(p)
    <2> DEFINE w == [work[p] EXCEPT !.commented = Commented(r, pass[p].since)]
    <2>1. work' = [work EXCEPT ![p] = w] /\ pc' = [pc EXCEPT ![p] = "fetch"]
        BY <1>6 DEF ListEvents
    <2>2. w.batch = work[p].batch /\ w.repo = r
        BY <1>1 DEF Work
    <2> HIDE DEF w
    <2> QED BY <1>1, <2>1, <2>2, BatchEcho
<1>7. ASSUME NEW n \in work[p].commented, pc[p] = "fetch", UNCHANGED pc,
             work' = [work EXCEPT ![p].commented = @ \ {n},
                        ![p].batch = @ \cup {Snap(Here(p), m) : m \in Unlisted(p, n)}]
      PROVE  EchoNext
    <2>1. PICK got : got = work[p].batch \cup {Snap(r, m) : m \in Unlisted(p, n)}
        OBVIOUS
    <2> DEFINE w == [work[p] EXCEPT !.commented = @ \ {n}, !.batch = got]
    <2>2. work' = [work EXCEPT ![p] = w]
        BY <1>7, <2>1
    <2>3. w.batch = got /\ w.repo = r
        BY <1>1 DEF Work
    <2>4. pc' = [pc EXCEPT ![p] = "fetch"]
        BY <1>7, Frame DEF EchoInv
    <2>5. TrueMarks(r, got)
        BY <1>3, <2>1
    <2> HIDE DEF w
    <2> QED BY <1>1, <2>2, <2>3, <2>4, <2>5, BatchEcho
<1>8. CASE EndListing(p, work[p].batch)
    BY <1>1, <1>8, EndListingEcho
<1> QED BY <1>4, <1>5, <1>6, <1>7, <1>8 DEF Fetch

(* Steps inside a repository, with the target prepared. *)
LEMMA PreparingEcho ==
    ASSUME EchoInv, TypeInv', NEW p \in Jobs, EnsureRepo(p) \/ EnsureLabels(p)
    PROVE  EchoNext
<1>1. /\ pc[p] \in {"ensure", "labels"} /\ UNCHANGED <<src, tgt>> /\ Paired(p)
      /\ work' = [work EXCEPT ![p] = work[p]] /\ pc = [pc EXCEPT ![p] = pc[p]]
    BY Frame DEF EnsureRepo, EnsureLabels, people, EchoInv
<1>2. CASE EnsureRepo(p)
    <2>1. pc' = [pc EXCEPT ![p] = "origins"]
        BY <1>2 DEF EnsureRepo
    <2>2. Knows("origins", work[p])
        BY <1>1 DEF Paired, Knows, Informed, OnItem
    <2> QED BY <1>1, <2>1, <2>2, QuietEcho
<1>3. CASE EnsureLabels(p)
    <2>1. PICK l \in {"labels", "issue"} : pc' = [pc EXCEPT ![p] = l]
        BY <1>1, <1>3 DEF EnsureLabels
    <2>2. Knows(l, work[p])
        BY <1>1, <1>3 DEF EnsureLabels, Paired, Knows, Informed, OnItem
    <2> QED BY <1>1, <2>1, <2>2, QuietEcho
<1> QED BY <1>2, <1>3

LEMMA ReadOriginsEcho == ASSUME EchoInv, TypeInv', NEW p \in Jobs, ReadOrigins(p) PROVE EchoNext
<1>0. PICK w : w = [work[p] EXCEPT !.origins = OriginsOf(Here(p))]
    OBVIOUS
<1>1. /\ pc[p] = "origins" /\ pc' = [pc EXCEPT ![p] = "labels"] /\ UNCHANGED <<src, tgt>>
      /\ work' = [work EXCEPT ![p] = w]
    BY <1>0 DEF ReadOrigins, forges
<1>2. Here(p) \in Repos /\ Here(p) = work[p].repo /\ work[p] \in Work
    BY <1>1, HereTyped DEF EchoInv, InRepo
<1>3. w.origins = OriginsOf(Here(p)) /\ w.batch = work[p].batch /\ w.repo = Here(p)
    BY <1>0, <1>2 DEF Work
<1>4. \A n \in Numbers : OriginsOf(Here(p))[n] # 0 => OriginsOf(Here(p))[n] \in Copies(Here(p), n)
    BY <1>2, OriginsTyped DEF EchoInv
<1>5. Knows("labels", w)
    BY <1>2, <1>3, <1>4 DEF EchoInv, Paired, Knows, Informed, OnItem
<1> QED BY <1>1, <1>5, QuietEcho

(* An item is taken out of the batch and written: the reference is the item of the
   target that is about it. *)
LEMMA BeginEcho ==
    ASSUME EchoInv, TypeInv', Adds, NEW p \in Jobs, pc[p] = "issue", NEW r, r = Here(p),
           NEW b \in work[p].batch, NEW ref, NEW l \in {"close", "comments"}, Begin(p, b, ref, l),
           ref \in Counterparts(r, b.n)'
    PROVE  EchoNext
<1>0. PICK v, w : v = work[p] /\ w = [v EXCEPT !.batch = @ \ {b}, !.item = b, !.ref = ref]
    OBVIOUS
<1>1. pc' = [pc EXCEPT ![p] = l] /\ work' = [work EXCEPT ![p] = w]
    BY <1>0 DEF Begin
<1>2. /\ w.batch = v.batch \ {b} /\ w.item = b /\ w.ref = ref
      /\ w.repo = v.repo /\ w.origins = v.origins /\ w.repo = r
    BY <1>0, JobTyped DEF EchoInv, TypeInv, Work, Here
<1>3. Knows("issue", v)'
    BY <1>0, JobPlaced, KnowsKept DEF EchoInv, Paired, Adds
<1>4. Knows(l, w)'
    BY <1>2, <1>3 DEF Knows, Informed, Copies, Counterparts
<1> QED BY <1>1, <1>4, EchoStep

LEMMA HandEcho ==
    ASSUME EchoInv, NEW p \in Jobs, pc[p] = "issue", NEW b \in work[p].batch
    PROVE  /\ Here(p) \in Repos /\ Here(p) = work[p].repo /\ b.n \in DOMAIN src[Here(p)] /\ b.n \in Numbers
           /\ b.mark = src[Here(p)][b.n].mark
           /\ work[p].origins[b.n] # 0 => work[p].origins[b.n] \in Copies(Here(p), b.n)
<1>1. /\ Here(p) \in Repos /\ Here(p) = work[p].repo /\ b.n \in DOMAIN src[Here(p)]
    BY HereTyped DEF EchoInv, InRepo
<1>2. b.n \in Numbers
    BY <1>1, SourceTyped DEF EchoInv, TypeInv, Placed, Numbers
<1> QED BY <1>1, <1>2 DEF EchoInv, Paired, Knows, Informed

LEMMA ReflectEcho == ASSUME EchoInv, TypeInv', NEW p \in Jobs, Reflect(p) PROVE EchoNext
<1>1. PICK r : r = Here(p)
    OBVIOUS
<1>2. PICK b \in work[p].batch : /\ pc[p] = "issue" /\ b.mark # 0
                                 /\ tgt' = [tgt EXCEPT ![r][b.mark].state = b.state]
                                 /\ Begin(p, b, b.mark, "comments")
    BY <1>1 DEF Reflect, IsCopyOfTarget
<1>3. PICK i : i = [tgt[r][b.mark] EXCEPT !.state = b.state]
    OBVIOUS
<1>4. tgt' = [tgt EXCEPT ![r] = [tgt[r] EXCEPT ![b.mark] = i]] /\ UNCHANGED src
    BY <1>2, <1>3 DEF Begin, people
<1>5. /\ r \in Repos /\ b.n \in DOMAIN src[r] /\ b.mark = src[r][b.n].mark
      /\ b.mark \in DOMAIN tgt[r]
    BY <1>1, <1>2, HandEcho DEF EchoInv, Backed, RestoresBacked
<1>6. i.mark = tgt[r][b.mark].mark /\ i.notes = tgt[r][b.mark].notes
    <2>1. tgt[r][b.mark] \in TargetItem
        BY <1>5, TargetTyped DEF EchoInv, TypeInv
    <2> QED BY <1>3, <2>1 DEF TargetItem
<1>7. Adds
    BY <1>4, <1>5, <1>6, StateWritten, SourceKept DEF Adds, EchoInv, TypeInv
<1>8. b.mark \in Counterparts(r, b.n)
    BY <1>2, <1>5 DEF Counterparts
<1>9. b.mark \in Counterparts(r, b.n)'
    BY <1>5, <1>7, <1>8, CounterpartsGrow DEF Adds
<1> QED BY <1>1, <1>2, <1>7, <1>9, BeginEcho

LEMMA UpdateEcho == ASSUME EchoInv, TypeInv', NEW p \in Jobs, Update(p) PROVE EchoNext
<1>1. PICK r : r = Here(p)
    OBVIOUS
<1>2. PICK b \in work[p].batch :
          /\ pc[p] = "issue" /\ b.mark = 0 /\ work[p].origins[b.n] # 0
          /\ tgt' = [tgt EXCEPT ![r][work[p].origins[b.n]] = [@ EXCEPT !.rev = b.rev, !.state = b.state]]
          /\ Begin(p, b, work[p].origins[b.n], "comments")
    BY <1>1 DEF Update, IsCopyOfTarget
<1>3. PICK ref : ref = work[p].origins[b.n]
    OBVIOUS
<1>4. PICK i : i = [tgt[r][ref] EXCEPT !.rev = b.rev, !.state = b.state]
    OBVIOUS
<1>5. tgt' = [tgt EXCEPT ![r] = [tgt[r] EXCEPT ![ref] = i]] /\ UNCHANGED src
    BY <1>2, <1>3, <1>4 DEF Begin, people
<1>6. /\ r \in Repos /\ b.n \in DOMAIN src[r] /\ b.mark = src[r][b.n].mark
      /\ ref \in Copies(r, b.n)
    BY <1>1, <1>2, <1>3, HandEcho
<1>7. ref \in DOMAIN tgt[r] /\ ref \in Counterparts(r, b.n)
    BY <1>2, <1>6 DEF Copies, Counterparts
<1>8. i.mark = tgt[r][ref].mark /\ i.notes = tgt[r][ref].notes
    BY <1>4, <1>6, <1>7, TargetTyped DEF TargetItem, EchoInv, TypeInv
<1>9. Adds
    BY <1>5, <1>6, <1>8, StateWritten, SourceKept DEF Adds, EchoInv, TypeInv
<1>10. ref \in Counterparts(r, b.n)'
    BY <1>6, <1>7, <1>9, CounterpartsGrow DEF Adds
<1> QED BY <1>1, <1>2, <1>3, <1>9, <1>10, BeginEcho

LEMMA CreateEcho == ASSUME EchoInv, TypeInv', NEW p \in Jobs, Create(p) PROVE EchoNext
<1>1. PICK r : r = Here(p)
    OBVIOUS
<1>2. PICK b \in work[p].batch :
          /\ pc[p] = "issue" /\ b.mark = 0
          /\ tgt' = [tgt EXCEPT ![r] =
                Append(@, [mark |-> b.n, rev |-> b.rev, state |-> "open", notes |-> <<>>])]
          /\ Begin(p, b, Len(tgt[r]) + 1, IF b.state = "closed" THEN "close" ELSE "comments")
    BY <1>1 DEF Create, IsCopyOfTarget
<1>3. PICK i : i = [mark |-> b.n, rev |-> b.rev, state |-> "open", notes |-> <<>>]
    OBVIOUS
<1>4. PICK l \in {"close", "comments"} : Begin(p, b, Len(tgt[r]) + 1, l)
    BY <1>2
<1>5. tgt' = [tgt EXCEPT ![r] = Append(@, i)] /\ UNCHANGED src /\ i.mark = b.n /\ i.notes = <<>>
    BY <1>2, <1>3 DEF Begin, people
<1>6. r \in Repos /\ b.n \in DOMAIN src[r] /\ b.mark = src[r][b.n].mark
    BY <1>1, <1>2, HandEcho
<1>7. Adds
    <2>1. i.mark # 0 => i.mark \in DOMAIN src[r] /\ src[r][i.mark].mark = 0
        BY <1>2, <1>5, <1>6
    <2>2. TypeOK
        BY DEF EchoInv, TypeInv
    <2>3. TargetGrows /\ TargetAdds /\ NotesAdd
        BY <1>5, <1>6, <2>1, <2>2, ItemWritten
    <2> QED BY <1>5, <2>3, SourceKept DEF Adds
<1>8. Len(tgt[r]) + 1 \in Counterparts(r, b.n)'
    <2>1. tgt \in [Repos -> Seq(TargetItem)] /\ tgt[r] \in Seq(TargetItem) /\ Len(tgt[r]) \in Nat
        BY <1>6, TargetTyped DEF EchoInv, TypeInv, TypeOK
    <2>2. tgt'[r] = Append(tgt[r], i)
        BY <1>5, <1>6, <2>1
    <2>3. Len(tgt[r]) + 1 \in DOMAIN tgt'[r] /\ tgt'[r][Len(tgt[r]) + 1] = i
        BY <2>1, <2>2
    <2> QED BY <1>2, <1>5, <1>6, <2>3 DEF Counterparts
<1>9. PICK ref : ref = Len(tgt[r]) + 1
    OBVIOUS
<1>10. ref \in Counterparts(r, b.n)' /\ Begin(p, b, ref, l)
    BY <1>4, <1>8, <1>9
<1> QED BY <1>1, <1>2, <1>7, <1>10, BeginEcho

LEMMA CloseItemEcho == ASSUME EchoInv, TypeInv', NEW p \in Jobs, CloseItem(p) PROVE EchoNext
<1>1. PICK r, c : r = Here(p) /\ c = work[p].ref
    OBVIOUS
<1>2. PICK i : i = [tgt[r][c] EXCEPT !.state = "closed"]
    OBVIOUS
<1>3. /\ pc[p] = "close" /\ tgt' = [tgt EXCEPT ![r] = [tgt[r] EXCEPT ![c] = i]] /\ UNCHANGED src
      /\ work' = [work EXCEPT ![p] = work[p]] /\ pc' = [pc EXCEPT ![p] = "comments"]
    BY <1>1, <1>2, Frame DEF CloseItem, people, EchoInv
<1>4. r \in Repos /\ c \in DOMAIN tgt[r]
    BY <1>1, <1>3, ItemInHand DEF OnItem
<1>5. i.mark = tgt[r][c].mark /\ i.notes = tgt[r][c].notes
    BY <1>2, <1>4, TargetTyped DEF TargetItem, EchoInv, TypeInv
<1>6. Adds
    BY <1>3, <1>4, <1>5, StateWritten, SourceKept DEF Adds, EchoInv, TypeInv
<1>7. PICK v : v = work[p]
    OBVIOUS
<1>8. Placing("comments", v) /\ Knows("comments", v)
    BY <1>3, <1>7, JobPlaced DEF EchoInv, Paired, Placing, Knows, Informed, OnItem
<1>9. Knows("comments", v)'
    BY <1>6, <1>8, KnowsKept DEF Adds
<1> QED BY <1>3, <1>6, <1>7, <1>9, EchoStep

LEMMA ItemDoneEcho ==
    ASSUME EchoInv, TypeInv', UNCHANGED <<src, tgt>>, NEW p \in Jobs, pc[p] \in OnItem, ItemDone(p)
    PROVE  EchoNext
<1>1. PICK w : w = [work[p] EXCEPT !.item = NoItem, !.ref = 0, !.notes = {}]
    OBVIOUS
<1>2. work' = [work EXCEPT ![p] = w] /\ pc' = [pc EXCEPT ![p] = "issue"] /\ work[p] \in Work
    BY <1>1, JobTyped DEF ItemDone, EchoInv, TypeInv
<1>3. w.repo = work[p].repo /\ w.batch = work[p].batch /\ w.origins = work[p].origins
    BY <1>1, <1>2 DEF Work
<1>4. Knows("issue", w)
    BY <1>3 DEF EchoInv, Paired, Knows, Informed, OnItem
<1> QED BY <1>2, <1>4, QuietEcho

(* The notes in hand are the item's. *)
Theirs(l, r, n, N) ==
    \/ l = "have" /\ N \subseteq DOMAIN src[r][n].notes
    \/ l = "post" /\ \A k \in N : Original(r, n, k)

LEMMA NotesEcho ==
    ASSUME EchoInv, TypeInv', Adds, NEW p \in Jobs, pc[p] \in OnItem, NEW r, NEW n, NEW N,
           r = Here(p), n = work[p].item.n,
           NEW l, pc' = [pc EXCEPT ![p] = l], work' = [work EXCEPT ![p].notes = N], Theirs(l, r, n, N)
    PROVE  EchoNext
<1>1. PICK w : w = [work[p] EXCEPT !.notes = N]
    OBVIOUS
<1>2. /\ work' = [work EXCEPT ![p] = w] /\ work[p] \in Work
      /\ r = work[p].repo
    BY <1>1, JobTyped DEF EchoInv, TypeInv, Here
<1>3. /\ w.repo = r /\ w.batch = work[p].batch /\ w.origins = work[p].origins /\ w.notes = N
      /\ w.item.n = n /\ w.ref = work[p].ref
    BY <1>1, <1>2 DEF Work
<1>4. Knows(l, w)
    <2>1. Knows(pc[p], work[p])
        BY DEF EchoInv, Paired
    <2>2. /\ \A b \in w.batch : b.mark = src[w.repo][b.n].mark
          /\ pc[p] \in Informed => \A m \in Numbers : w.origins[m] # 0 => w.origins[m] \in Copies(w.repo, m)
          /\ pc[p] \in OnItem => w.ref \in Counterparts(w.repo, w.item.n)
        BY <1>2, <1>3, <2>1 DEF Knows
    <2>3. l = "have" => w.notes \subseteq DOMAIN src[w.repo][w.item.n].notes
        BY <1>3 DEF Theirs
    <2>4. l = "post" => \A k \in w.notes : Original(w.repo, w.item.n, k)
        BY <1>3 DEF Theirs
    <2>5. l \in {"have", "post"}
        BY DEF Theirs
    <2> QED BY <2>2, <2>3, <2>4, <2>5 DEF Knows, Informed, OnItem
<1>5. Placing(l, w)
    BY <1>2, <1>3, JobPlaced DEF EchoInv, Placing, Informed, OnItem, Theirs
<1>6. Knows(l, w)'
    BY <1>4, <1>5, KnowsKept DEF Adds
<1> QED BY <1>2, <1>6, EchoStep

LEMMA CommentsEcho ==
    ASSUME EchoInv, TypeInv', NEW p \in Jobs, SourceComments(p) \/ TargetComments(p)
    PROVE  EchoNext
<1>1. UNCHANGED <<src, tgt>> /\ pc[p] \in OnItem
    BY DEF SourceComments, TargetComments, forges, OnItem
<1>2. Adds
    BY <1>1, SourceKept, TargetKept DEF Adds
<1>3. PICK r, n : r = Here(p) /\ n = work[p].item.n
    OBVIOUS
<1>4. CASE SourceComments(p)
    <2>1. \/ ItemDone(p)
          \/ /\ work' = [work EXCEPT ![p].notes = DOMAIN src[r][n].notes]
             /\ pc' = [pc EXCEPT ![p] = "have"]
        BY <1>3, <1>4 DEF SourceComments
    <2>2. CASE ItemDone(p)
        BY <1>1, <1>2, <2>2, ItemDoneEcho
    <2>3. CASE /\ work' = [work EXCEPT ![p].notes = DOMAIN src[r][n].notes]
               /\ pc' = [pc EXCEPT ![p] = "have"]
        <3>1. PICK N : N = DOMAIN src[r][n].notes
            OBVIOUS
        <3>2. work' = [work EXCEPT ![p].notes = N]
            BY <2>3, <3>1
        <3>3. Theirs("have", r, n, N)
            BY <3>1 DEF Theirs
        <3> QED BY <1>1, <1>2, <1>3, <2>3, <3>2, <3>3, NotesEcho
    <2> QED BY <2>1, <2>2, <2>3
<1>5. CASE TargetComments(p)
    <2>1. PICK N : N = ToPost(r, n, work[p].notes, Have(r, work[p].ref))
        OBVIOUS
    <2>2. pc[p] = "have" /\ work' = [work EXCEPT ![p].notes = N] /\ pc' = [pc EXCEPT ![p] = "post"]
        BY <1>3, <1>5, <2>1 DEF TargetComments
    <2>3. work[p].notes \subseteq DOMAIN src[r][n].notes
        BY <1>1, <1>3, <2>2, ItemInHand DEF EchoInv, Paired, Knows
    <2>4. \A k \in N : Original(r, n, k)
        BY <2>1, <2>3 DEF ToPost, Original
    <2>5. Theirs("post", r, n, N)
        BY <2>4 DEF Theirs
    <2> QED BY <1>1, <1>2, <1>3, <2>2, <2>5, NotesEcho
<1> QED BY <1>4, <1>5

LEMMA PostCommentEcho == ASSUME EchoInv, TypeInv', NEW p \in Jobs, PostComment(p) PROVE EchoNext
<1>1. pc[p] = "post" /\ pc[p] \in OnItem /\ UNCHANGED src
    BY DEF PostComment, OnItem, people
<1>2. PICK r, n, c : r = Here(p) /\ n = work[p].item.n /\ c = work[p].ref
    OBVIOUS
<1>3. /\ r \in Repos /\ n \in DOMAIN src[r] /\ c \in Counterparts(r, n) /\ c \in DOMAIN tgt[r]
      /\ r = work[p].repo
    BY <1>1, <1>2, ItemInHand
<1>4. \A k \in work[p].notes : Original(r, n, k)
    BY <1>1, <1>2, <1>3 DEF EchoInv, Paired, Knows
<1>5. ASSUME NEW k \in work[p].notes, IsNext(k, work[p].notes),
             tgt' = [tgt EXCEPT ![r][c].notes = Append(@, k)],
             work' = [work EXCEPT ![p].notes = @ \ {k}], UNCHANGED pc
      PROVE  EchoNext
    <2>1. k \in Nat
        BY JobTyped DEF EchoInv, TypeInv, Work
    <2>7. Posts(p, r, c, k)
        BY <1>1, <1>2, <1>5 DEF Posts
    <2>2. TargetGrows /\ TargetAdds /\ NotesAdd
        BY <1>3, <1>5, <2>1, <2>7, NoteWritten DEF EchoInv, TypeInv
    <2>3. Adds
        BY <1>1, <2>2, SourceKept DEF Adds
    <2>4. PICK N : N = work[p].notes \ {k}
        OBVIOUS
    <2>5. pc' = [pc EXCEPT ![p] = "post"] /\ work' = [work EXCEPT ![p].notes = N]
        BY <1>1, <1>5, <2>4, Frame DEF EchoInv
    <2>6. Theirs("post", r, n, N)
        BY <1>4, <2>4 DEF Theirs
    <2> QED BY <1>1, <1>2, <2>3, <2>5, <2>6, NotesEcho
<1>6. CASE ItemDone(p) /\ UNCHANGED tgt
    BY <1>1, <1>6, ItemDoneEcho
<1> QED BY <1>2, <1>5, <1>6 DEF PostComment

LEMMA NextEcho == ASSUME EchoInv, [Next]_vars PROVE EchoNext
<1>1. TypeInv'
    BY NextTypes DEF EchoInv
<1>2. CASE UNCHANGED vars
    <2>1. UNCHANGED <<src, tgt, pc, work>>
        BY <1>2 DEF vars
    <2>2. Backed'
        BY <1>1, <2>1, BackedStep, SourceKept, TargetKept DEF Adds
    <2>3. ASSUME NEW p \in Jobs PROVE Paired(p)'
        <3>1. PICK l, w : l = pc[p] /\ w = work[p]
            OBVIOUS
        <3>2. Knows(l, w)'
            BY <2>1, <3>1, JobPlaced, SourceKept, TargetKept, KnowsKept DEF EchoInv, Paired
        <3> QED BY <2>1, <3>1, <3>2, KnowsPrimed
    <2>4. Adds
        BY <2>1, SourceKept, TargetKept DEF Adds
    <2> QED BY <1>1, <2>2, <2>3, <2>4 DEF EchoInv, EchoNext
<1>3. CASE Forges
    BY <1>3, ForgesEcho
<1>4. ASSUME NEW p \in Jobs, StartRun(p) \/ Step(p) \/ Fault(p) PROVE EchoNext
    <2>1. CASE Step(p)
        BY <1>1, <2>1, RunEcho, NextRepoEcho, ListingEcho, PreparingEcho, ReadOriginsEcho, ReflectEcho,
           CreateEcho, CloseItemEcho, UpdateEcho, CommentsEcho, PostCommentEcho, LeaveStepsEcho
           DEF Step
    <2>2. CASE Fault(p)
        BY <1>1, <2>2, RunEcho, LeaveStepsEcho DEF Fault
    <2> QED BY <1>1, <1>4, <2>1, <2>2, RunEcho
<1> QED BY <1>2, <1>3, <1>4 DEF Next

LEMMA EchoInvariant == Spec => []EchoInv
<1>1. Init => EchoInv
    BY InitEcho
<1>2. EchoInv /\ [Next]_vars => EchoInv'
    BY NextEcho DEF EchoNext
<1> QED BY <1>1, <1>2, PTL DEF Spec

(* What is itself a copy is never copied back, neither an item (mirror.go:134-141)
   nor a note (mirror.go:232-239): whatever the jobs do at the same time, however
   pages shift and calls fail, in both directions. *)
THEOREM NothingEchoed == Spec => []NoEcho
<1>1. EchoInv => NoEcho
    <2> SUFFICES ASSUME EchoInv, NEW r \in Repos, NEW n \in DOMAIN src[r]
                 PROVE  /\ src[r][n].mark # 0 => Copies(r, n) = {}
                        /\ \A c \in Counterparts(r, n) : \A k \in DOMAIN src[r][n].notes :
                               src[r][n].notes[k] # 0 => \A j \in DOMAIN tgt[r][c].notes : tgt[r][c].notes[j] # k
        BY DEF NoEcho
    <2>1. ASSUME src[r][n].mark # 0, NEW c \in Copies(r, n) PROVE FALSE
        <3>1. n # 0
            BY SourceTyped DEF EchoInv, TypeInv
        <3> QED BY <2>1, <3>1 DEF EchoInv, Backed, CopiesBacked, Copies
    <2>2. ASSUME NEW c \in Counterparts(r, n), NEW k \in DOMAIN src[r][n].notes, src[r][n].notes[k] # 0,
                 NEW j \in DOMAIN tgt[r][c].notes, tgt[r][c].notes[j] = k
          PROVE  FALSE
        <3>1. c \in DOMAIN tgt[r]
            BY DEF Counterparts
        <3>2. src[r][n].notes \in Seq(Nat)
            BY SourceTyped DEF EchoInv, TypeInv
        <3>3. k # 0
            BY <3>2, LenProperties
        <3>4. PICK m \in DOMAIN src[r] : c \in Counterparts(r, m) /\ Original(r, m, k)
            BY <2>2, <3>1, <3>3 DEF EchoInv, Backed, NotesBacked
        <3>5. m = n
            BY <3>4, OneSource DEF EchoInv, TypeInv, Backed
        <3> QED BY <2>2, <3>4, <3>5 DEF Original
    <2> QED BY <2>1, <2>2
<1> QED BY <1>1, EchoInvariant, PTL

-----------------------------------------------------------------------------
(* One run at a time. *)

(* A run that moves is not idle, moves no other and leaves the source alone. *)
MovesAlone(p) ==
    /\ pc[p] # "idle" /\ UNCHANGED <<clock, rev, src>>
    /\ \A q \in Jobs \ {p} : pc'[q] = pc[q] /\ work'[q] = work[q]

LEMMA StepAlone == ASSUME TypeInv, NEW p \in Jobs, Step(p) \/ Fault(p) PROVE MovesAlone(p)
<1>0. pc \in [Jobs -> Places] /\ work \in [Jobs -> Work]
    BY DEF TypeInv, TypeOK
<1>1. CASE FindRepos(p) \/ NextRepo(p) \/ FinishRun(p) \/ FailRun(p)
    BY <1>0, <1>1 DEF FindRepos, NextRepo, FinishRun, FailRun, forges, MovesAlone
<1>2. ASSUME NEW got, EndListing(p, got)
      PROVE  \A q \in Jobs \ {p} : pc'[q] = pc[q] /\ work'[q] = work[q]
    BY <1>0, <1>2 DEF EndListing, LeaveRepo
<1>3. CASE ListPage(p)
    <2>1. PICK got, n : \/ EndListing(p, got)
                        \/ work' = [work EXCEPT ![p].batch = got, ![p].page = n] /\ UNCHANGED pc
        BY <1>3 DEF ListPage
    <2>2. \A q \in Jobs \ {p} : pc'[q] = pc[q] /\ work'[q] = work[q]
        BY <1>0, <1>2, <2>1
    <2> QED BY <1>3, <2>2 DEF ListPage, forges, MovesAlone
<1>4. CASE Fetch(p)
    <2>1. PICK got, N : \/ EndListing(p, got)
                        \/ work' = [work EXCEPT ![p].commented = N, ![p].batch = got] /\ UNCHANGED pc
        BY <1>4 DEF Fetch
    <2>2. \A q \in Jobs \ {p} : pc'[q] = pc[q] /\ work'[q] = work[q]
        BY <1>0, <1>2, <2>1
    <2> QED BY <1>4, <2>2 DEF Fetch, forges, MovesAlone
<1>5. CASE ListChanged(p) \/ ListEvents(p)
    BY <1>0, <1>5 DEF ListChanged, ListEvents, forges, MovesAlone
<1>6. CASE EnsureRepo(p) \/ ReadOrigins(p) \/ EnsureLabels(p) \/ CloseItem(p)
    BY <1>0, <1>6 DEF EnsureRepo, ReadOrigins, EnsureLabels, CloseItem, people, forges, MovesAlone
<1>7. CASE Reflect(p) \/ Create(p) \/ Update(p)
    <2>1. PICK b, ref, l : Begin(p, b, ref, l) /\ pc[p] = "issue"
        BY <1>7 DEF Reflect, Create, Update
    <2> QED BY <1>0, <2>1 DEF Begin, people, MovesAlone
<1>8. ASSUME ItemDone(p) PROVE \A q \in Jobs \ {p} : pc'[q] = pc[q] /\ work'[q] = work[q]
    BY <1>0, <1>8 DEF ItemDone
<1>9. CASE SourceComments(p) \/ TargetComments(p) \/ PostComment(p)
    <2>1. PICK N, l : \/ ItemDone(p)
                      \/ work' = [work EXCEPT ![p].notes = N] /\ (pc' = [pc EXCEPT ![p] = l] \/ UNCHANGED pc)
        BY <1>9 DEF SourceComments, TargetComments, PostComment
    <2>2. \A q \in Jobs \ {p} : pc'[q] = pc[q] /\ work'[q] = work[q]
        BY <1>0, <1>8, <2>1
    <2> QED BY <1>9, <2>2 DEF SourceComments, TargetComments, PostComment, people, forges, MovesAlone
<1>10. CASE FinishRepo(p) \/ FailRepo(p) \/ Crash(p)
    <2>1. Here(p) # NoRepo => pc[p] \in InRepo
        BY Frame DEF Here, Work
    <2>2. pc[p] # "idle"
        BY <1>10, <2>1 DEF FinishRepo, FailRepo, Crash, InRepo
    <2> QED BY <1>0, <1>10, <2>2 DEF FinishRepo, FailRepo, Crash, LeaveRepo, forges, MovesAlone
<1> QED BY <1>1, <1>3, <1>4, <1>5, <1>6, <1>7, <1>9, <1>10 DEF Step, Fault

LEMMA AloneOthers ==
    ASSUME TypeInv, Solo, NEW p \in Jobs, MovesAlone(p), NEW q \in Jobs, q # p
    PROVE  pc'[q] = "idle" /\ pc[q] = "idle" /\ work'[q] = work[q]
BY DEF Solo, MovesAlone

LEMMA NextSolo == ASSUME TypeInv, Solo, ~Overlap, [Next]_vars PROVE Solo'
<1>1. CASE UNCHANGED vars \/ Forges
    <2>1. UNCHANGED pc
        BY <1>1, ForgesKinds DEF vars
    <2> QED BY <2>1 DEF Solo
<1>2. ASSUME NEW p \in Jobs, StartRun(p) PROVE Solo'
    <2>1. (\A q \in Jobs : pc[q] = "idle") /\ pc' = [pc EXCEPT ![p] = "repos"] /\ pc \in [Jobs -> Places]
        BY <1>2 DEF StartRun, TypeInv, TypeOK
    <2> QED BY <2>1 DEF Solo
<1>3. ASSUME NEW p \in Jobs, Step(p) \/ Fault(p) PROVE Solo'
    <2>1. MovesAlone(p)
        BY <1>3, StepAlone
    <2>2. \A q \in Jobs \ {p} : pc'[q] = "idle"
        BY <2>1, AloneOthers
    <2> QED BY <2>2 DEF Solo
<1> QED BY <1>1, <1>2, <1>3 DEF Next

-----------------------------------------------------------------------------
(* Comments in order. *)

(* Every note of the target is on the page a run reads. *)
AllNotesListed == \A r \in Repos : \A c \in DOMAIN tgt[r] : Len(tgt[r][c].notes) <= NotesPage

Holds(r, c, k) == \E j \in DOMAIN tgt[r][c].notes : tgt[r][c].notes[j] = k

(* A copied note has all the older ones before it. *)
NotesFull == \A r \in Repos : \A n \in DOMAIN src[r] : \A c \in Counterparts(r, n) :
    \A j \in DOMAIN tgt[r][c].notes : \A k \in DOMAIN src[r][n].notes :
        Original(r, n, k) /\ k < tgt[r][c].notes[j] => Holds(r, c, k)

(* A run holds the notes of an item up to some point, then those of them to post: newer
   than any that was copied, and all there are up to the newest. *)
Initial(N) == \A k \in N : \A i \in Nat : 1 <= i /\ i <= k => i \in N

Newer(r, c, N) == \A k \in N : \A j \in DOMAIN tgt[r][c].notes : tgt[r][c].notes[j] < k

Complete(r, n, c, N) == \A k \in N : \A i \in Nat :
    i < k /\ Original(r, n, i) => i \in N \/ Holds(r, c, i)

Posting(l, w) ==
    /\ l = "have" => Initial(w.notes)
    /\ l = "post" => /\ Newer(w.repo, w.ref, w.notes)
                     /\ Complete(w.repo, w.item.n, w.ref, w.notes)

OrderInv ==
    /\ EchoInv /\ Solo /\ NotesInOrder /\ NotesFull
    /\ \A p \in Jobs : Posting(pc[p], work[p])

LEMMA InitOrder == Init => OrderInv
<1> SUFFICES ASSUME Init PROVE OrderInv
    OBVIOUS
<1>1. EchoInv
    BY InitEcho
<1>2. Solo /\ \A p \in Jobs : Posting(pc[p], work[p])
    BY DEF Init, Solo, Posting
<1>3. NotesInOrder /\ NotesFull
    BY DEF Init, NotesInOrder, NotesFull
<1> QED BY <1>1, <1>2, <1>3 DEF OrderInv

LEMMA CounterpartsBack ==
    ASSUME SourceGrows, TargetGrows, NEW r \in Repos, NEW n \in DOMAIN src[r], NEW c \in DOMAIN tgt[r],
           c \in Counterparts(r, n)'
    PROVE  c \in Counterparts(r, n)
BY DEF SourceGrows, TargetGrows, Counterparts

(* A note that is posted is newer than those before it and leaves none out. *)
LEMMA PostedNext ==
    ASSUME OrderInv, From = "github", NEW p \in Jobs, NEW r, NEW c, NEW k, Posts(p, r, c, k)
    PROVE  /\ \A j \in DOMAIN tgt[r][c].notes : tgt[r][c].notes[j] < k
           /\ \A n \in DOMAIN src[r] : c \in Counterparts(r, n) =>
                  /\ k \in DOMAIN src[r][n].notes
                  /\ \A i \in Nat : i < k /\ Original(r, n, i) => Holds(r, c, i)
<1>1. PICK m : m = work[p].item.n
    OBVIOUS
<1>2. /\ r \in Repos /\ m \in DOMAIN src[r] /\ c \in Counterparts(r, m) /\ Original(r, m, k)
    BY <1>1, PostsOriginal DEF OrderInv
<1>3. pc[p] = "post" /\ r = work[p].repo /\ c = work[p].ref /\ k \in work[p].notes
    BY DEF Posts, Here
<1>4. Newer(r, c, work[p].notes) /\ Complete(r, m, c, work[p].notes)
    BY <1>1, <1>3 DEF OrderInv, Posting
<1>5. k \in Nat /\ \A j \in work[p].notes : j \in Nat /\ k <= j
    BY JobTyped DEF Posts, IsNext, OrderInv, EchoInv, TypeInv, Work
<1>6. ASSUME NEW i \in Nat, i < k, Original(r, m, i) PROVE Holds(r, c, i)
    BY <1>3, <1>4, <1>5, <1>6 DEF Complete
<1>7. ASSUME NEW n \in DOMAIN src[r], c \in Counterparts(r, n) PROVE n = m
    BY <1>2, <1>7, OneSource DEF OrderInv, EchoInv, TypeInv, Backed
<1> QED BY <1>2, <1>3, <1>4, <1>6, <1>7 DEF Newer, Original

LEMMA NoteNumbers ==
    ASSUME TypeOK', NEW r \in Repos, NEW n \in DOMAIN src'[r]
    PROVE  DOMAIN src'[r][n].notes \subseteq Nat \ {0}
<1>1. src'[r] \in Seq(SourceItem)
    BY DEF TypeOK
<1>2. src'[r][n] \in SourceItem
    BY <1>1, LenProperties, ElementOfSeq
<1>3. src'[r][n].notes \in Seq(Nat)
    BY <1>2 DEF SourceItem
<1> QED BY <1>3, LenProperties

LEMMA OrderKept ==
    ASSUME OrderInv, EchoNext, From = "github"
    PROVE  NotesInOrder' /\ NotesFull'
<1>0. TypeOK /\ TypeOK' /\ SourceGrows /\ TargetGrows
    BY DEF OrderInv, EchoInv, TypeInv, EchoNext, Adds
<1>1. ASSUME NEW r \in Repos, NEW c \in DOMAIN tgt[r]
      PROVE  /\ DOMAIN tgt[r][c].notes = 1..Len(tgt[r][c].notes) /\ Len(tgt[r][c].notes) \in Nat
             /\ DOMAIN tgt[r][c].notes \subseteq DOMAIN tgt'[r][c].notes
             /\ \A j \in DOMAIN tgt[r][c].notes : tgt'[r][c].notes[j] = tgt[r][c].notes[j] /\ tgt[r][c].notes[j] \in Nat
             /\ c \in DOMAIN tgt'[r]
    <2>1. tgt[r][c].notes \in Seq(Nat)
        BY <1>0, TargetTyped
    <2> QED BY <1>0, <2>1, LenProperties, ElementOfSeq DEF TargetGrows, Extends
<1>2. ASSUME NEW r \in Repos, NEW c \in DOMAIN tgt[r], NEW j \in DOMAIN tgt'[r][c].notes \ DOMAIN tgt[r][c].notes,
             tgt'[r][c].notes[j] # 0
      PROVE  /\ j = Len(tgt[r][c].notes) + 1
             /\ \A i \in DOMAIN tgt[r][c].notes : tgt[r][c].notes[i] < tgt'[r][c].notes[j]
             /\ \A n \in DOMAIN src[r] : c \in Counterparts(r, n) =>
                    /\ tgt'[r][c].notes[j] \in DOMAIN src[r][n].notes
                    /\ \A i \in Nat : i < tgt'[r][c].notes[j] /\ Original(r, n, i) => Holds(r, c, i)
    <2>1. PICK k : k = tgt'[r][c].notes[j]
        OBVIOUS
    <2>2. PICK p \in Jobs : Posts(p, r, c, k)
        BY <1>2, <2>1 DEF EchoNext, Adds, NotesAdd
    <2>3. j = Len(tgt[r][c].notes) + 1
        BY DEF EchoNext, Adds, NotesAdd
    <2> QED BY <2>1, <2>2, <2>3, PostedNext
<1>3. ASSUME NEW r \in Repos, NEW c \in DOMAIN tgt'[r], c \notin DOMAIN tgt[r] PROVE DOMAIN tgt'[r][c].notes = {}
    <2>1. tgt'[r][c].notes = <<>>
        BY <1>3 DEF EchoNext, Adds, TargetAdds
    <2> QED BY <2>1
<1>4. NotesInOrder'
    <2> SUFFICES ASSUME NEW r \in Repos, NEW c \in DOMAIN tgt'[r],
                        NEW i \in DOMAIN tgt'[r][c].notes, NEW j \in DOMAIN tgt'[r][c].notes,
                        i < j, tgt'[r][c].notes[i] # 0, tgt'[r][c].notes[j] # 0
                 PROVE  tgt'[r][c].notes[i] < tgt'[r][c].notes[j]
        BY DEF NotesInOrder
    <2>1. c \in DOMAIN tgt[r]
        BY <1>3
    <2>2. tgt'[r][c].notes \in Seq(Nat)
        <3>1. tgt'[r] \in Seq(TargetItem)
            BY <1>0 DEF TypeOK
        <3>2. tgt'[r][c] \in TargetItem
            BY <3>1, LenProperties, ElementOfSeq
        <3> QED BY <3>2 DEF TargetItem
    <2>3. i \in Nat /\ j \in Nat
        BY <2>2, LenProperties
    <2>4. CASE j \in DOMAIN tgt[r][c].notes
        <3>1. i \in DOMAIN tgt[r][c].notes
            <4>1. DOMAIN tgt'[r][c].notes = 1..Len(tgt'[r][c].notes)
                BY <2>2, LenProperties
            <4> QED BY <1>1, <2>1, <2>3, <2>4, <4>1
        <3> QED BY <1>1, <2>1, <2>4, <3>1 DEF OrderInv, NotesInOrder
    <2>5. CASE j \notin DOMAIN tgt[r][c].notes
        <3>1. i \in DOMAIN tgt[r][c].notes
            BY <1>2, <2>1, <2>3, <2>5
        <3> QED BY <1>1, <1>2, <2>1, <2>5, <3>1
    <2> QED BY <2>4, <2>5
<1>5. NotesFull'
    <2>1. ASSUME NEW r \in Repos, NEW n \in DOMAIN src'[r], NEW c \in Counterparts(r, n)',
                 NEW j \in DOMAIN tgt'[r][c].notes, NEW k \in DOMAIN src'[r][n].notes,
                 Original(r, n, k)', k < tgt'[r][c].notes[j]
          PROVE  Holds(r, c, k)'
        <3>1. c \in DOMAIN tgt'[r]
            BY DEF Counterparts
        <3>2. c \in DOMAIN tgt[r]
            BY <1>3, <3>1
        <3>3. n \in DOMAIN src[r]
            <4>1. CASE n \notin DOMAIN src[r]
                <5>1. src'[r][n].notes = <<>>
                    BY <4>1 DEF EchoNext, Adds, SourceAdds
                <5> QED BY <5>1
            <4> QED BY <4>1
        <3>4. c \in Counterparts(r, n)
            BY <1>0, <3>2, <3>3, CounterpartsBack
        <3>5. src[r][n].notes \in Seq(Nat) /\ DOMAIN src[r][n].notes \subseteq DOMAIN src'[r][n].notes
            BY <1>0, <3>3, SourceTyped DEF SourceGrows, Extends
        <3>6. DOMAIN src[r][n].notes = 1..Len(src[r][n].notes) /\ Len(src[r][n].notes) \in Nat
            BY <3>5, LenProperties
        <3>7. k \in Nat \ {0}
            BY <1>0, NoteNumbers
        <3>8. PICK m : m = tgt'[r][c].notes[j]
            OBVIOUS
        <3>9. CASE j \in DOMAIN tgt[r][c].notes
            <4>1. m = tgt[r][c].notes[j] /\ m \in Nat /\ m # 0
                BY <1>1, <2>1, <3>2, <3>7, <3>8, <3>9
            <4>2. PICK i \in DOMAIN src[r] : c \in Counterparts(r, i) /\ Original(r, i, m)
                BY <3>2, <3>9, <4>1 DEF OrderInv, EchoInv, Backed, NotesBacked
            <4>3. i = n
                BY <3>3, <3>4, <4>2, OneSource DEF OrderInv, EchoInv, TypeInv, Backed
            <4>4. m \in DOMAIN src[r][n].notes
                BY <4>2, <4>3 DEF Original
            <4>5. k \in DOMAIN src[r][n].notes
                BY <2>1, <3>6, <3>7, <3>8, <4>1, <4>4
            <4>6. Original(r, n, k)
                BY <1>0, <2>1, <3>3, <4>5, CounterpartsGrow
            <4>7. Holds(r, c, k)
                BY <2>1, <3>3, <3>4, <3>8, <3>9, <4>1, <4>5, <4>6 DEF OrderInv, NotesFull
            <4> QED BY <1>1, <3>2, <4>7 DEF Holds
        <3>10. CASE j \notin DOMAIN tgt[r][c].notes
            <4>1. m # 0
                <5>1. CASE m = 0
                    BY <2>1, <3>7, <3>8, <5>1
                <5> QED BY <5>1
            <4>2. m \in DOMAIN src[r][n].notes /\ \A i \in Nat : i < m /\ Original(r, n, i) => Holds(r, c, i)
                BY <1>2, <3>2, <3>3, <3>4, <3>8, <3>10, <4>1
            <4>3. k \in DOMAIN src[r][n].notes
                BY <2>1, <3>6, <3>7, <3>8, <4>2
            <4>4. Original(r, n, k)
                BY <1>0, <2>1, <3>3, <4>3, CounterpartsGrow
            <4>5. Holds(r, c, k)
                BY <2>1, <3>7, <3>8, <4>2, <4>4
            <4> QED BY <1>1, <3>2, <4>5 DEF Holds
        <3> QED BY <3>9, <3>10
    <2> QED BY <2>1 DEF NotesFull, Holds, Original, Counterparts
<1> QED BY <1>4, <1>5

(* Notes people write in the target are no copies. *)
LEMMA OwnNotes ==
    ASSUME TypeOK, TargetWorked
    PROVE  \A r \in Repos : \A c \in DOMAIN tgt[r] :
               \A j \in DOMAIN tgt'[r][c].notes \ DOMAIN tgt[r][c].notes : tgt'[r][c].notes[j] = 0
<1>1. PICK r \in Repos :
          \/ tgt' = [tgt EXCEPT ![r] = Append(@, [mark |-> 0, rev |-> 0, state |-> "open", notes |-> <<>>])]
          \/ \E c \in DOMAIN tgt[r] : tgt' = [tgt EXCEPT ![r][c].notes = Append(@, 0)]
    BY DEF TargetWorked
<1>2. ASSUME NEW i, tgt' = [tgt EXCEPT ![r] = Append(@, i)], NEW q \in Repos, NEW c \in DOMAIN tgt[q]
      PROVE  tgt'[q][c] = tgt[q][c]
    <2>1. /\ \A u \in Repos \ {r} : tgt'[u] = tgt[u]
          /\ DOMAIN tgt[r] \subseteq DOMAIN tgt'[r]
          /\ \A d \in DOMAIN tgt'[r] : d \in DOMAIN tgt[r] => tgt'[r][d] = tgt[r][d]
        BY <1>2, Appended
    <2> QED BY <2>1
<1>3. ASSUME NEW d \in DOMAIN tgt[r], tgt' = [tgt EXCEPT ![r][d].notes = Append(@, 0)],
             NEW q \in Repos, NEW c \in DOMAIN tgt[q], NEW j \in DOMAIN tgt'[q][c].notes \ DOMAIN tgt[q][c].notes
      PROVE  tgt'[q][c].notes[j] = 0
    <2>0. PICK i : i = [tgt[r][d] EXCEPT !.notes = Append(@, 0)]
        OBVIOUS
    <2>1. tgt' = [tgt EXCEPT ![r] = [tgt[r] EXCEPT ![d] = i]]
        BY <1>3, <2>0
    <2>2. i.mark = tgt[r][d].mark /\ i.notes = Append(tgt[r][d].notes, 0) /\ tgt[r][d].notes \in Seq(Nat)
        <3>1. tgt[r][d] \in TargetItem /\ tgt[r][d].notes \in Seq(Nat)
            BY TargetTyped
        <3> QED BY <2>0, <3>1 DEF TargetItem
    <2>3. Wrote(r, d, i)
        BY <2>1, <2>2, TargetWritten
    <2>4. q = r /\ c = d /\ tgt'[q][c] = i
        BY <2>3 DEF Wrote
    <2> QED BY <2>2, <2>4, NoteAppended
<1>4. CASE \E c \in DOMAIN tgt[r] : tgt' = [tgt EXCEPT ![r][c].notes = Append(@, 0)]
    BY <1>3, <1>4
<1> DEFINE own == [mark |-> 0, rev |-> 0, state |-> "open", notes |-> <<>>]
<1>5. (\E c \in DOMAIN tgt[r] : tgt' = [tgt EXCEPT ![r][c].notes = Append(@, 0)])
        \/ tgt' = [tgt EXCEPT ![r] = Append(@, own)]
    BY <1>1
<1> HIDE DEF own
<1> QED BY <1>2, <1>4, <1>5

(* What is in hand stays right while nobody copies a note. *)
LEMMA PostingKept ==
    ASSUME TypeOK, TypeOK', SourceGrows, TargetGrows, NEW l, NEW w, Placing(l, w), Knows(l, w), Posting(l, w),
           w.notes \subseteq Nat,
           l = "post" => \A j \in DOMAIN tgt'[w.repo][w.ref].notes \ DOMAIN tgt[w.repo][w.ref].notes :
                             tgt'[w.repo][w.ref].notes[j] = 0
    PROVE  Posting(l, w)'
<1>1. CASE l = "post"
    <2>1. PICK r, n, c : r = w.repo /\ n = w.item.n /\ c = w.ref
        OBVIOUS
    <2>2. r \in Repos /\ n \in DOMAIN src[r] /\ c \in DOMAIN tgt[r]
        BY <1>1, <2>1 DEF Placing, Knows, Informed, OnItem, Counterparts
    <2>3. src[r][n].notes \in Seq(Nat)
        BY <2>2, SourceTyped
    <2>4. DOMAIN src[r][n].notes = 1..Len(src[r][n].notes) /\ Len(src[r][n].notes) \in Nat
        BY <2>3, LenProperties
    <2>5. \A k \in w.notes : k \in DOMAIN src[r][n].notes
        BY <1>1, <2>1 DEF Knows, Original
    <2>6. \A j \in DOMAIN tgt[r][c].notes : tgt'[r][c].notes[j] = tgt[r][c].notes[j]
        BY <2>2 DEF TargetGrows, Extends
    <2>7. Newer(r, c, w.notes)'
        <3>1. Newer(r, c, w.notes)
            BY <1>1, <2>1 DEF Posting
        <3>2. ASSUME NEW k \in w.notes, NEW j \in DOMAIN tgt'[r][c].notes PROVE tgt'[r][c].notes[j] < k
            <4>1. CASE j \in DOMAIN tgt[r][c].notes
                BY <2>6, <3>1, <4>1 DEF Newer
            <4>2. CASE j \notin DOMAIN tgt[r][c].notes
                <5>1. tgt'[r][c].notes[j] = 0
                    BY <1>1, <2>1, <3>2, <4>2
                <5>2. k \in 1..Len(src[r][n].notes)
                    BY <2>4, <2>5
                <5> QED BY <2>4, <5>1, <5>2
            <4> QED BY <4>1, <4>2
        <3> QED BY <3>2 DEF Newer
    <2>8. ASSUME NEW k \in w.notes, NEW i \in Nat, i < k, Original(r, n, i)'
          PROVE  i \in w.notes \/ Holds(r, c, i)'
        <3>1. i # 0
            <4>1. i \in DOMAIN src'[r][n].notes /\ n \in DOMAIN src'[r]
                BY <2>2, <2>8 DEF Original, SourceGrows
            <4> QED BY <2>2, <4>1, NoteNumbers
        <3>2. i \in DOMAIN src[r][n].notes
            BY <2>4, <2>5, <2>8, <3>1
        <3>3. Original(r, n, i)
            BY <2>2, <2>8, <3>2, CounterpartsGrow
        <3>4. i \in w.notes \/ Holds(r, c, i)
            BY <1>1, <2>1, <2>8, <3>3 DEF Posting, Complete
        <3> QED BY <2>2, <2>6, <3>4 DEF Holds, TargetGrows, Extends
    <2>9. Complete(r, n, c, w.notes)'
        BY <2>8 DEF Complete, Original, Holds
    <2>10. l = "post" /\ Newer(w.repo, w.ref, w.notes)' /\ Complete(w.repo, w.item.n, w.ref, w.notes)'
        BY <1>1, <2>1, <2>7, <2>9
    <2> QED BY <2>10 DEF Posting, Newer, Complete, Original, Holds
<1>2. CASE l # "post"
    BY <1>2 DEF Posting, Initial
<1> QED BY <1>1, <1>2

(* What the three steps that deal with an item's notes do to those in a run's hand. *)
NotesInHand(p, r, n, c) ==
    \/ pc'[p] = "issue"
    \/ /\ SourceComments(p) /\ UNCHANGED <<src, tgt>> /\ pc'[p] = "have" /\ pc[p] = "comments"
       /\ work'[p].notes = DOMAIN src[r][n].notes
    \/ /\ TargetComments(p) /\ UNCHANGED <<src, tgt>> /\ pc[p] = "have" /\ pc'[p] = "post"
       /\ work'[p].notes = ToPost(r, n, work[p].notes, Have(r, c))
       /\ work'[p].repo = r /\ work'[p].item.n = n /\ work'[p].ref = c
    \/ \E k : /\ Posts(p, r, c, k) /\ UNCHANGED src /\ pc'[p] = "post"
              /\ tgt' = [tgt EXCEPT ![r][c].notes = Append(@, k)]
              /\ work'[p].notes = work[p].notes \ {k}
              /\ work'[p].repo = r /\ work'[p].item.n = n /\ work'[p].ref = c

LEMMA ListedPosting ==
    ASSUME TypeInv, NEW p \in Jobs, SourceComments(p) \/ TargetComments(p) \/ PostComment(p),
           NEW r, NEW n, NEW c, r = Here(p), n = work[p].item.n, c = work[p].ref
    PROVE  NotesInHand(p, r, n, c)
<1>1. pc \in [Jobs -> Places] /\ work \in [Jobs -> Work] /\ work[p] \in Work
    BY JobTyped DEF TypeInv, TypeOK
<1>2. ASSUME NEW N, work' = [work EXCEPT ![p].notes = N]
      PROVE  work'[p].notes = N /\ work'[p].repo = r /\ work'[p].item.n = n /\ work'[p].ref = c
    BY <1>1, <1>2 DEF Work, Here
<1>3. ItemDone(p) => pc'[p] = "issue"
    BY <1>1 DEF ItemDone
<1>4. CASE SourceComments(p)
    BY <1>1, <1>2, <1>3, <1>4 DEF SourceComments, forges, NotesInHand
<1>5. CASE TargetComments(p)
    BY <1>1, <1>2, <1>5 DEF TargetComments, forges, NotesInHand
<1>6. CASE PostComment(p)
    <2>1. \/ ItemDone(p)
          \/ \E k \in work[p].notes :
                /\ IsNext(k, work[p].notes)
                /\ tgt' = [tgt EXCEPT ![r][c].notes = Append(@, k)]
                /\ work' = [work EXCEPT ![p].notes = work[p].notes \ {k}]
                /\ UNCHANGED pc
        BY <1>6 DEF PostComment
    <2>2. pc[p] = "post" /\ UNCHANGED src
        BY <1>6 DEF PostComment, people
    <2> QED BY <1>2, <1>3, <2>1, <2>2 DEF Posts, NotesInHand
<1> QED BY <1>4, <1>5, <1>6

LEMMA NotesSteps ==
    ASSUME TypeInv, NEW p \in Jobs, StartRun(p) \/ Step(p) \/ Fault(p), pc'[p] \in {"have", "post"}
    PROVE  SourceComments(p) \/ TargetComments(p) \/ PostComment(p)
<1>1. pc \in [Jobs -> Places]
    BY DEF TypeInv, TypeOK
<1>2. CASE StartRun(p) \/ FindRepos(p) \/ NextRepo(p) \/ FinishRun(p) \/ FailRun(p)
    BY <1>1, <1>2 DEF StartRun, FindRepos, NextRepo, FinishRun, FailRun
<1>3. CASE ListPage(p) \/ ListChanged(p) \/ ListEvents(p) \/ Fetch(p)
    BY <1>1, <1>3 DEF ListPage, ListChanged, ListEvents, Fetch, EndListing, LeaveRepo
<1>4. CASE EnsureRepo(p) \/ ReadOrigins(p) \/ EnsureLabels(p) \/ CloseItem(p)
    BY <1>1, <1>4 DEF EnsureRepo, ReadOrigins, EnsureLabels, CloseItem
<1>5. CASE Reflect(p) \/ Create(p) \/ Update(p)
    <2>1. ASSUME NEW b, NEW ref, NEW l, l \in {"close", "comments"}, Begin(p, b, ref, l)
          PROVE  FALSE
        BY <1>1, <2>1 DEF Begin
    <2>2. CASE Reflect(p)
        BY <2>1, <2>2 DEF Reflect
    <2>3. CASE Create(p)
        <3>1. PICK b : Begin(p, b, Len(tgt[Here(p)]) + 1, IF b.state = "closed" THEN "close" ELSE "comments")
            BY <2>3 DEF Create
        <3>2. PICK l : l = IF b.state = "closed" THEN "close" ELSE "comments"
            OBVIOUS
        <3>3. l \in {"close", "comments"} /\ Begin(p, b, Len(tgt[Here(p)]) + 1, l)
            BY <3>1, <3>2
        <3> QED BY <2>1, <3>3
    <2>4. CASE Update(p)
        BY <2>1, <2>4 DEF Update
    <2> QED BY <1>5, <2>2, <2>3, <2>4
<1>6. CASE FinishRepo(p) \/ FailRepo(p) \/ Crash(p)
    BY <1>1, <1>6 DEF FinishRepo, FailRepo, Crash, LeaveRepo
<1> QED BY <1>2, <1>3, <1>4, <1>5, <1>6 DEF Step, Fault

(* With all notes listed, what is not had is newer than all that is. *)
LEMMA ToPostNext ==
    ASSUME OrderInv, AllNotesListed, NEW p \in Jobs, pc[p] = "have",
           NEW r, NEW n, NEW c, r = Here(p), n = work[p].item.n, c = work[p].ref,
           NEW N, N = ToPost(r, n, work[p].notes, Have(r, c))
    PROVE  Newer(r, c, N) /\ Complete(r, n, c, N)
<1>1. /\ r \in Repos /\ n \in DOMAIN src[r] /\ c \in Counterparts(r, n) /\ c \in DOMAIN tgt[r]
      /\ tgt[r][c].notes \in Seq(Nat)
    BY ItemInHand DEF OrderInv, OnItem
<1>2. DOMAIN tgt[r][c].notes = 1..Len(tgt[r][c].notes) /\ Len(tgt[r][c].notes) \in Nat
      /\ Len(tgt[r][c].notes) <= NotesPage /\ \A j \in DOMAIN tgt[r][c].notes : tgt[r][c].notes[j] \in Nat
    BY <1>1, LenProperties, ElementOfSeq DEF AllNotesListed
<1>3. \A k : Holds(r, c, k) => k \in Have(r, c)
    <2>1. \A j \in DOMAIN tgt[r][c].notes : Len(tgt[r][c].notes) - j < NotesPage
        BY <1>2
    <2> QED BY <2>1 DEF Holds, Have
<1>9. \A k \in Have(r, c) : Holds(r, c, k)
    BY DEF Holds, Have
<1>4. work[p].notes \subseteq DOMAIN src[r][n].notes /\ Initial(work[p].notes)
    BY <1>1, ItemInHand DEF OrderInv, EchoInv, Paired, Knows, OnItem, Posting
<1>5. src[r][n].notes \in Seq(Nat) /\ DOMAIN src[r][n].notes \subseteq Nat \ {0}
    <2>1. TypeInv /\ TypeOK
        BY DEF OrderInv, EchoInv, TypeInv
    <2>2. src[r][n].notes \in Seq(Nat)
        BY <1>1, <2>1, SourceTyped
    <2>3. DOMAIN src[r][n].notes = 1..Len(src[r][n].notes) /\ Len(src[r][n].notes) \in Nat
        BY <2>2, LenProperties
    <2>4. ASSUME NEW i \in DOMAIN src[r][n].notes PROVE i \in Nat \ {0}
        BY <2>3
    <2> QED BY <2>2, <2>4
<1>6. ASSUME NEW k \in N
      PROVE  k \in work[p].notes /\ k \in Nat \ {0} /\ Original(r, n, k) /\ ~Holds(r, c, k)
    BY <1>3, <1>4, <1>5, <1>6 DEF ToPost, Original
<1>7. ASSUME NEW k \in N, NEW j \in DOMAIN tgt[r][c].notes PROVE tgt[r][c].notes[j] < k
    <2>1. tgt[r][c].notes[j] # k
        BY <1>6, <1>7 DEF Holds
    <2>2. ~(k < tgt[r][c].notes[j])
        BY <1>1, <1>6, <1>7 DEF OrderInv, NotesFull, Original
    <2>3. tgt[r][c].notes[j] \in Nat
        BY <1>2
    <2>4. k \in Nat
        BY <1>6
    <2> QED BY <2>1, <2>2, <2>3, <2>4
<1>8. ASSUME NEW k \in N, NEW i \in Nat, i < k, Original(r, n, i) PROVE i \in N \/ Holds(r, c, i)
    <2>1. i \in Nat \ {0} /\ src[r][n].notes[i] = 0
        BY <1>5, <1>8 DEF Original
    <2>2. i \in work[p].notes
        BY <1>4, <1>6, <1>8, <2>1 DEF Initial
    <2> QED BY <1>9, <2>1, <2>2 DEF ToPost
<1> QED BY <1>7, <1>8 DEF Newer, Complete

LEMMA NextPosting ==
    ASSUME OrderInv, EchoNext, From = "github", AllNotesListed, NEW p \in Jobs,
           StartRun(p) \/ Step(p) \/ Fault(p)
    PROVE  Posting(pc[p], work[p])'
<1>0. /\ TypeInv /\ TypeInv' /\ EchoInv /\ SourceGrows /\ TargetGrows
    BY DEF OrderInv, EchoInv, EchoNext, Adds
<1>1. CASE pc'[p] \notin {"have", "post"}
    BY <1>1 DEF Posting
<1>2. CASE pc'[p] \in {"have", "post"}
    <2>1. SourceComments(p) \/ TargetComments(p) \/ PostComment(p)
        BY <1>0, <1>2, NotesSteps
    <2>2. PICK r, n, c : r = Here(p) /\ n = work[p].item.n /\ c = work[p].ref
        OBVIOUS
    <2>3. CASE /\ SourceComments(p) /\ pc'[p] = "have" /\ pc[p] = "comments"
               /\ work'[p].notes = DOMAIN src[r][n].notes
        <3>1. src[r][n].notes \in Seq(Nat)
            BY <1>0, <2>2, <2>3, ItemInHand DEF OnItem
        <3>2. Initial(DOMAIN src[r][n].notes)
            BY <3>1, LenProperties DEF Initial
        <3> QED BY <2>3, <3>2 DEF Posting, Initial
    <2>4. CASE /\ pc[p] = "have" /\ pc'[p] = "post" /\ UNCHANGED <<src, tgt>>
               /\ work'[p].notes = ToPost(r, n, work[p].notes, Have(r, c))
               /\ work'[p].repo = r /\ work'[p].item.n = n /\ work'[p].ref = c
        <3>1. PICK N : N = work'[p].notes
            OBVIOUS
        <3>2. Newer(r, c, N) /\ Complete(r, n, c, N)
            BY <2>2, <2>4, <3>1, ToPostNext
        <3> QED BY <2>4, <3>1, <3>2 DEF Posting, Newer, Complete, Original, Holds
    <2>5. ASSUME NEW k, Posts(p, r, c, k), UNCHANGED src, pc'[p] = "post",
                 tgt' = [tgt EXCEPT ![r][c].notes = Append(@, k)],
                 work'[p].notes = work[p].notes \ {k},
                 work'[p].repo = r, work'[p].item.n = n, work'[p].ref = c
          PROVE  Posting(pc[p], work[p])'
        <3>1. PICK N : N = work[p].notes
            OBVIOUS
        <3>2. /\ r \in Repos /\ n \in DOMAIN src[r] /\ c \in DOMAIN tgt[r] /\ r = work[p].repo
              /\ pc[p] = "post" /\ k \in N /\ N \subseteq Nat
              /\ tgt[r][c].notes \in Seq(Nat)
            <4>1. pc[p] = "post" /\ pc[p] \in OnItem /\ k \in N
                BY <2>5, <3>1 DEF Posts, OnItem
            <4>2. r \in Repos /\ n \in DOMAIN src[r] /\ c \in DOMAIN tgt[r] /\ r = work[p].repo
                  /\ tgt[r][c].notes \in Seq(Nat)
                BY <1>0, <2>2, <4>1, ItemInHand
            <4>3. N \subseteq Nat
                BY <1>0, <3>1, JobTyped DEF TypeInv, Work
            <4> QED BY <4>1, <4>2, <4>3
        <3>3. \A i \in N : k <= i
            BY <2>5, <3>1 DEF Posts, IsNext
        <3>4. Newer(r, c, N) /\ Complete(r, n, c, N)
            BY <2>2, <3>1, <3>2 DEF OrderInv, Posting
        <3>5. tgt'[r][c].notes = Append(tgt[r][c].notes, k)
            <4>1. PICK i : i = [tgt[r][c] EXCEPT !.notes = Append(@, k)]
                OBVIOUS
            <4>2. tgt' = [tgt EXCEPT ![r] = [tgt[r] EXCEPT ![c] = i]]
                BY <2>5, <4>1
            <4>3. tgt[r][c] \in TargetItem /\ tgt \in [Repos -> Seq(TargetItem)]
                BY <1>0, <3>2, TargetTyped DEF TypeInv, TypeOK
            <4>4. tgt'[r][c] = i
                BY <3>2, <4>2, <4>3
            <4> QED BY <4>1, <4>3, <4>4 DEF TargetItem
        <3>6. /\ \A j \in DOMAIN tgt[r][c].notes : j \in DOMAIN tgt'[r][c].notes /\ tgt'[r][c].notes[j] = tgt[r][c].notes[j]
              /\ \A j \in DOMAIN tgt'[r][c].notes : j \notin DOMAIN tgt[r][c].notes => tgt'[r][c].notes[j] = k
              /\ Holds(r, c, k)'
            <4>1. PICK s, t : s = tgt[r][c].notes /\ t = tgt'[r][c].notes
                OBVIOUS
            <4>2. k \in Nat /\ s \in Seq(Nat) /\ t = Append(s, k)
                BY <3>2, <3>5, <4>1
            <4>3. /\ DOMAIN s = 1..Len(s) /\ DOMAIN t = 1..(Len(s) + 1) /\ Len(s) \in Nat
                  /\ t[Len(s) + 1] = k /\ \A j \in 1..Len(s) : t[j] = s[j]
                BY <4>2, AppendProperties, LenProperties
            <4>4. \A j \in DOMAIN s : j \in DOMAIN t /\ t[j] = s[j]
                BY <4>3
            <4>5. \A j \in DOMAIN t : j \notin DOMAIN s => t[j] = k
                BY <4>3
            <4>6. \E j \in DOMAIN t : t[j] = k
                BY <4>3
            <4> QED BY <4>1, <4>4, <4>5, <4>6 DEF Holds
        <3>7. Newer(r, c, N \ {k})'
            <4>1. ASSUME NEW m \in N \ {k}, NEW j \in DOMAIN tgt'[r][c].notes
                  PROVE  tgt'[r][c].notes[j] < m
                <5>1. CASE j \in DOMAIN tgt[r][c].notes
                    BY <3>4, <3>6, <4>1, <5>1 DEF Newer
                <5>2. CASE j \notin DOMAIN tgt[r][c].notes
                    <6>1. tgt'[r][c].notes[j] = k /\ k \in Nat /\ m \in Nat /\ k <= m /\ k # m
                        BY <3>2, <3>3, <3>6, <4>1, <5>2
                    <6> QED BY <6>1
                <5> QED BY <5>1, <5>2
            <4> QED BY <4>1 DEF Newer
        <3>8. \A i : Holds(r, c, i) => Holds(r, c, i)'
            BY <3>6 DEF Holds
        <3>9. Complete(r, n, c, N \ {k})'
            BY <2>5, <3>4, <3>6, <3>8 DEF Complete, Original
        <3>10. PICK M : M = N \ {k}
            OBVIOUS
        <3>11. Newer(r, c, M)' /\ Complete(r, n, c, M)' /\ pc[p] = "post" /\ pc'[p] = "post"
               /\ work'[p].notes = M /\ work'[p].repo = r /\ work'[p].item.n = n /\ work'[p].ref = c
            BY <2>5, <3>1, <3>2, <3>7, <3>9, <3>10
        <3> QED BY <3>11 DEF Posting, Newer, Complete, Original, Holds
    <2>6. NotesInHand(p, r, n, c)
        BY <1>0, <2>1, <2>2, ListedPosting
    <2>7. CASE \E k : /\ Posts(p, r, c, k) /\ UNCHANGED src /\ pc'[p] = "post"
                      /\ tgt' = [tgt EXCEPT ![r][c].notes = Append(@, k)]
                      /\ work'[p].notes = work[p].notes \ {k}
                      /\ work'[p].repo = r /\ work'[p].item.n = n /\ work'[p].ref = c
        <3>1. PICK k : /\ Posts(p, r, c, k) /\ UNCHANGED src /\ pc'[p] = "post"
                       /\ tgt' = [tgt EXCEPT ![r][c].notes = Append(@, k)]
                       /\ work'[p].notes = work[p].notes \ {k}
                       /\ work'[p].repo = r /\ work'[p].item.n = n /\ work'[p].ref = c
            BY <2>7
        <3> QED BY <2>5, <3>1
    <2> QED BY <1>2, <2>3, <2>4, <2>6, <2>7 DEF NotesInHand
<1> QED BY <1>1, <1>2

LEMMA NextOrder ==
    ASSUME OrderInv, ~Overlap, From = "github", AllNotesListed, [Next]_vars
    PROVE  OrderInv'
<1>1. EchoNext /\ TypeInv /\ TypeInv' /\ Solo
    BY NextEcho DEF OrderInv, EchoInv, EchoNext
<1>2. EchoInv' /\ Solo' /\ NotesInOrder' /\ NotesFull'
    BY <1>1, NextSolo, OrderKept DEF EchoNext
<1>3. ASSUME UNCHANGED vars \/ Forges, NEW q \in Jobs PROVE Posting(pc[q], work[q])'
    <2>1. PICK l, w : l = pc[q] /\ w = work[q]
        OBVIOUS
    <2>2. UNCHANGED <<pc, work>>
        BY <1>1, <1>3, ForgesKinds DEF vars
    <2>3. Placing(l, w) /\ Knows(l, w) /\ Posting(l, w) /\ w.notes \subseteq Nat
        BY <1>1, <2>1, JobPlaced, JobTyped DEF OrderInv, EchoInv, Paired, TypeInv, Work
    <2>4. ASSUME NEW r \in Repos, NEW c \in DOMAIN tgt[r], NEW j \in DOMAIN tgt'[r][c].notes \ DOMAIN tgt[r][c].notes
          PROVE  tgt'[r][c].notes[j] = 0
        <3>1. CASE UNCHANGED tgt
            BY <3>1
        <3>2. CASE TargetWorked
            BY <1>1, <3>2, OwnNotes DEF TypeInv
        <3>3. UNCHANGED tgt \/ TargetWorked
            BY <1>1, <1>3, ForgesKinds DEF vars, ItemTouched, ItemMade
        <3> QED BY <3>1, <3>2, <3>3
    <2>5. l = "post" => w.repo \in Repos /\ w.ref \in DOMAIN tgt[w.repo]
        BY <2>3 DEF Placing, Knows, Informed, OnItem, Counterparts
    <2>6. Posting(l, w)'
        BY <1>1, <2>3, <2>4, <2>5, PostingKept DEF EchoNext, Adds, TypeInv
    <2> QED BY <2>1, <2>2, <2>6 DEF Posting, Initial, Newer, Complete, Original, Holds
<1>4. ASSUME NEW p \in Jobs, StartRun(p) \/ Step(p) \/ Fault(p), NEW q \in Jobs
      PROVE  Posting(pc[q], work[q])'
    <2>1. CASE q = p
        BY <1>1, <1>4, <2>1, NextPosting
    <2>2. CASE q # p
        <3>1. pc'[q] = "idle"
            <4>1. CASE StartRun(p)
                BY <1>1, <2>2, <4>1 DEF StartRun, TypeInv, TypeOK
            <4>2. CASE Step(p) \/ Fault(p)
                BY <1>1, <2>2, <4>2, StepAlone, AloneOthers
            <4> QED BY <1>4, <4>1, <4>2
        <3> QED BY <3>1 DEF Posting
    <2> QED BY <2>1, <2>2
<1> QED BY <1>2, <1>3, <1>4 DEF OrderInv, Next

(* The copied comments of an item are each there once and in the order they were
   written (mirror.go:203-251, port.go:31): while one run at a time mirrors from GitHub
   and no item has more notes than GitLab's listing returns, whatever was lost, retried
   or written by hand between the copies. *)
THEOREM CommentsInOrder ==
    ASSUME ~Overlap, From = "github"
    PROVE  Spec /\ []AllNotesListed => []NotesInOrder
<1>1. Init => OrderInv
    BY InitOrder
<1>2. OrderInv /\ AllNotesListed /\ [Next]_vars => OrderInv'
    BY NextOrder
<1>3. OrderInv => NotesInOrder
    BY DEF OrderInv
<1> QED BY <1>1, <1>2, <1>3, PTL DEF Spec

=============================================================================
