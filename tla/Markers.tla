------------------------------- MODULE Markers -------------------------------
(***************************************************************************)
(* How a copy is recognised again: forge/origin.go, note.go and render.go. *)
(*                                                                         *)
(* A body is a sequence of tokens.  A token is a whole marker ("mark"), the *)
(* two halves of one that something may stand between ("left", "right"),   *)
(* the note prefix with a number after it ("note") or without ("mention"), *)
(* or prose and decoration, which no pattern matches ("text", "header").   *)
(* A search that finds something or nothing returns a set of one or none.  *)
(***************************************************************************)
EXTENDS Integers, Sequences, FiniteSets

(* An origin is written as forge:owner/name#number, and `owner/name` is one string:
   a path of segments with slashes between them. *)
Marker(o) == [is |-> "mark", forge |-> o.forge, path |-> o.owner \o o.name,
              kind |-> o.kind, number |-> o.number]

(* A marker cut in two: a blank before the kind, and something in between. *)
Left(m) == [is |-> "left", forge |-> m.forge, path |-> m.path, kind |-> m.kind, number |-> m.number]
Right == [is |-> "right"]

(* What the pattern matches.  No two matches overlap. *)
MarkersIn(body) == {k \in DOMAIN body :
    \/ body[k].is = "mark"
    \/ /\ body[k].is = "left"
       /\ k + 1 \in DOMAIN body /\ body[k + 1].is = "right"}

LastOf(S) == {k \in S : \A j \in S : j <= k}
FirstOf(S) == {k \in S : \A j \in S : k <= j}

(* The owner is what stands before the first slash, and the name is the rest. *)
Read(t) == [forge |-> t.forge, owner |-> <<t.path[1]>>, name |-> Tail(t.path),
            kind |-> t.kind, number |-> t.number]

(* Mutant: the first marker counts. *)
ParseFirst(body) == {Read(body[k]) : k \in FirstOf(MarkersIn(body))}

(* The last marker counts. *)
ParseOrigin(body) == {Read(body[k]) : k \in LastOf(MarkersIn(body))}

(* The elements of s at the positions K, in their order. *)
At(s, K) == [i \in 1..Cardinality(K) |->
                s[CHOOSE k \in K : Cardinality({j \in K : j <= k}) = i]]

(* All matches are removed at once: what closes up around one may be a marker. *)
stripMarkers(body) ==
    LET found == MarkersIn(body)
    IN  At(body, {k \in DOMAIN body :
                     k \notin found /\ ~(k - 1 \in found /\ body[k - 1].is = "left")})

Header == [is |-> "header"]

(* The copy's body: who wrote it, the original without markers, the marker. *)
Render(body, o) == <<Header>> \o stripMarkers(body) \o <<Marker(o)>>

NoteMarker(id) == [is |-> "note", id |-> id]

NotesIn(body) == {k \in DOMAIN body : body[k].is \in {"note", "mention"}}

(* Mutant: the first one counts. *)
FirstNoteID(body) ==
    {body[k].id : k \in {k \in FirstOf(NotesIn(body)) : body[k].is = "note"}}

(* The number after the last prefix, if there is one. *)
NoteID(body) == {body[k].id : k \in {k \in LastOf(NotesIn(body)) : body[k].is = "note"}}

(* The copy's comment.  Nothing is removed from what was written. *)
RenderComment(body, id) == <<Header>> \o body \o <<NoteMarker(id)>>

=============================================================================
