--------------------------- MODULE MarkersProofs ---------------------------
(* Proofs about Markers: what the program writes is read back, whatever it copied. *)
EXTENDS Markers, FiniteSetTheorems, SequenceTheorems, TLAPS

IsSeq(s) == \E T : s \in Seq(T)

(* Positions of a sequence pick out a sequence. *)
LEMMA AtType ==
    ASSUME NEW s, IsSeq(s), NEW K \in SUBSET DOMAIN s
    PROVE  IsSeq(At(s, K)) /\ Len(At(s, K)) = Cardinality(K)
<1>1. IsFiniteSet(DOMAIN s)
    <2>1. DOMAIN s = 1..Len(s) /\ Len(s) \in Nat
        BY DEF IsSeq
    <2> QED BY <2>1, FS_Interval, 1 \in Int, Len(s) \in Int
<1>2. Cardinality(K) \in Nat
    BY <1>1, FS_Subset, FS_CardinalityType
<1> DEFINE T == {At(s, K)[i] : i \in 1..Cardinality(K)}
<1>3. At(s, K) \in [1..Cardinality(K) -> T]
    BY DEF At
<1>4. At(s, K) \in Seq(T) /\ Len(At(s, K)) = Cardinality(K)
    <2> HIDE DEF T
    <2> QED BY <1>2, <1>3
<1> QED BY <1>4 DEF IsSeq

(* Something before and something after a sequence make a longer one. *)
LEMMA Between ==
    ASSUME NEW a, NEW s, IsSeq(s), NEW z
    PROVE  LET t == <<a>> \o s \o <<z>>
           IN  IsSeq(t) /\ Len(t) = Len(s) + 2 /\ t[Len(t)] = z
<1>1. PICK S : s \in Seq(S)
    BY DEF IsSeq
<1> DEFINE T == S \cup {a, z}
           b == <<a>> \o s
<1>2. s \in Seq(T) /\ <<a>> \in Seq(T) /\ <<z>> \in Seq(T) /\ Len(<<a>>) = 1 /\ Len(<<z>>) = 1
    BY <1>1
<1>3. b \in Seq(T) /\ Len(b) = Len(s) + 1 /\ Len(s) \in Nat
    BY <1>2
<1>4. b \o <<z>> \in Seq(T) /\ Len(b \o <<z>>) = Len(s) + 2 /\ (b \o <<z>>)[Len(s) + 2] = z
    <2> HIDE DEF b
    <2> QED BY <1>2, <1>3
<1> QED BY <1>4 DEF IsSeq

LEMMA Stripped ==
    ASSUME NEW body, IsSeq(body)
    PROVE  IsSeq(stripMarkers(body))
BY AtType DEF stripMarkers

LEMMA Rendered ==
    ASSUME NEW body, IsSeq(body), NEW o
    PROVE  IsSeq(Render(body, o))
BY Stripped, Between DEF Render

(* The last of some positions, when the end of the sequence is one. *)
LEMMA LastIsEnd ==
    ASSUME NEW n \in Nat, NEW K \in SUBSET (1..n), n \in K
    PROVE  LastOf(K) = {n}
<1>1. n \in LastOf(K)
    BY \A k \in K : k <= n DEF LastOf
<1>2. ASSUME NEW k \in LastOf(K) PROVE k = n
    BY k \in 1..n /\ n <= k DEF LastOf
<1> QED BY <1>1, <1>2

(* An origin whose owner is one segment, as GitHub's are and a group that lies in no
   other is. *)
Plain(o, S) ==
    /\ o = [forge |-> o.forge, owner |-> o.owner, name |-> o.name,
            kind |-> o.kind, number |-> o.number]
    /\ o.owner \in Seq(S) /\ Len(o.owner) = 1 /\ o.name \in Seq(S)

LEMMA TailOfConcat ==
    ASSUME NEW S, NEW u \in Seq(S), Len(u) = 1, NEW v \in Seq(S)
    PROVE  u = <<u[1]>> /\ (u \o v)[1] = u[1] /\ Tail(u \o v) = v
<1> DEFINE w == u \o v
<1>1. w \in Seq(S) /\ Len(w) = Len(v) + 1 /\ Len(v) \in Nat
    BY ConcatProperties
<1>2. w[1] = u[1] /\ \A i \in 1..Len(v) : w[i + 1] = v[i]
    <2>1. \A i \in 1..(1 + Len(v)) : w[i] = IF i <= 1 THEN u[i] ELSE v[i - 1]
        <3>1. \A i \in 1..(Len(u) + Len(v)) : w[i] = IF i <= Len(u) THEN u[i] ELSE v[i - Len(u)]
            BY ConcatProperties, Zenon
        <3> HIDE DEF w
        <3> QED BY <3>1
    <2>2. ASSUME NEW i \in 1..Len(v) PROVE w[i + 1] = v[i]
        <3>1. i + 1 \in 1..(1 + Len(v)) /\ ~(i + 1 <= 1) /\ (i + 1) - 1 = i
            BY <1>1
        <3> HIDE DEF w
        <3> QED BY <2>1, <3>1
    <2>3. 1 \in 1..(1 + Len(v))
        BY <1>1
    <2> HIDE DEF w
    <2> QED BY <2>1, <2>2, <2>3
<1>3. u = <<u[1]>>
    OBVIOUS
<1> HIDE DEF w
<1>4. Tail(w) \in Seq(S) /\ Len(Tail(w)) = Len(v) /\ \A i \in 1..Len(v) : Tail(w)[i] = w[i + 1]
    BY <1>1, HeadTailProperties
<1>5. Tail(w) = v
    BY <1>2, <1>4, SeqEqual
<1> QED BY <1>2, <1>3, <1>5 DEF w

LEMMA ReadMarker ==
    ASSUME NEW S, NEW o, Plain(o, S)
    PROVE  Read(Marker(o)) = o
<1> DEFINE path == o.owner \o o.name
<1>1. path[1] = o.owner[1] /\ Tail(path) = o.name /\ o.owner = <<o.owner[1]>>
    BY TailOfConcat DEF Plain
<1>2. Marker(o).forge = o.forge /\ Marker(o).path = path /\ Marker(o).kind = o.kind
      /\ Marker(o).number = o.number
    BY DEF Marker
<1> HIDE DEF path
<1> QED BY <1>1, <1>2 DEF Read, Plain

(* Whatever Render produces is read back as the origin it was given, however many
   markers of whatever sort the copied text quotes (render.go:19-46,
   origin.go:46-56, TestRenderIsParseable). *)
THEOREM RenderIsParseable ==
    ASSUME NEW S, NEW o, Plain(o, S), NEW body, IsSeq(body)
    PROVE  ParseOrigin(Render(body, o)) = {o}
<1> DEFINE t == Render(body, o)
           n == Len(t)
<1>1. IsSeq(t) /\ t[n] = Marker(o) /\ n = Len(stripMarkers(body)) + 2
    BY Stripped, Between DEF Render
<1>2. DOMAIN t = 1..n /\ n \in Nat /\ n > 0
    BY <1>1, Stripped DEF IsSeq
<1>3. n \in MarkersIn(t) /\ MarkersIn(t) \subseteq 1..n
    <2>1. t[n].is = "mark" /\ n \in 1..n
        BY <1>1, <1>2 DEF Marker
    <2> HIDE DEF t
    <2> QED BY <1>2, <2>1 DEF MarkersIn
<1>4. LastOf(MarkersIn(t)) = {n}
    BY <1>2, <1>3, LastIsEnd
<1>5. Read(t[n]) = o
    BY <1>1, ReadMarker
<1> HIDE DEF t, n
<1>6. ParseOrigin(t) = {o}
    BY <1>4, <1>5 DEF ParseOrigin
<1> QED BY <1>6 DEF t

(* A mirrored comment is read back as the copy of the comment it was made from, also
   when the text quotes another's marker or talks about it (note.go:23-43). *)
THEOREM CommentIsParseable ==
    ASSUME NEW body, IsSeq(body), NEW id
    PROVE  NoteID(RenderComment(body, id)) = {id}
<1> DEFINE t == RenderComment(body, id)
           n == Len(t)
<1>1. IsSeq(t) /\ t[n] = NoteMarker(id) /\ n = Len(body) + 2
    BY Between DEF RenderComment
<1>2. DOMAIN t = 1..n /\ n \in Nat /\ n > 0
    BY <1>1 DEF IsSeq
<1>3. t[n].is = "note" /\ t[n].id = id /\ n \in 1..n
    BY <1>1, <1>2 DEF NoteMarker
<1> HIDE DEF t, n
<1>4. n \in NotesIn(t) /\ NotesIn(t) \subseteq 1..n
    BY <1>2, <1>3 DEF NotesIn
<1>5. LastOf(NotesIn(t)) = {n}
    BY <1>2, <1>4, LastIsEnd
<1>6. NoteID(t) = {id}
    BY <1>5, <1>3 DEF NoteID
<1> QED BY <1>6 DEF t

=============================================================================
