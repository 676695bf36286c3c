--------------------------- MODULE BothWaysProofs ---------------------------
(***************************************************************************)
(* Proofs about BothWays, for any number of items and acts, where the      *)
(* GitLab group lies in no other one and people quote the markers of their *)
(* own forge only: PlainText.                                              *)
(***************************************************************************)
EXTENDS BothWays, MarkersProofs, LeastNumber

PlainText == AnyQuote = FALSE /\ Len(Group) = 1

-----------------------------------------------------------------------------
(* The invariant.  A body is either of somebody's own words, in which no marker
   names the other forge, or the rendering of something under the origin of the item
   it is a copy of. *)

OwnWords(f, body) ==
    /\ IsSeq(body)
    /\ \A k \in DOMAIN body : body[k].is \in {"mark", "left"} => body[k].forge = f

CopyOf(f, r, body) == \E b : IsSeq(b) /\ body = Render(b, OriginOf(Other(f), r))

(* What an item of forge f that is a copy of what `of` says may have for its body. *)
Honest(f, of, body) ==
    \/ of = {} /\ OwnWords(f, body)
    \/ \E r \in Refs : of = {r} /\ CopyOf(f, r, body)

Fields(item) ==
    /\ item = [of |-> item.of, body |-> item.body, state |-> item.state, notes |-> item.notes]
    /\ item.state \in States \cup {"merged"}

(* Everything that is on one forge. *)
Sound(f, its) ==
    /\ DOMAIN its \subseteq Refs
    /\ its = [r \in DOMAIN its |-> its[r]]
    /\ \A r \in DOMAIN its : Fields(its[r]) /\ Honest(f, its[r].of, its[r].body)
    /\ f = "github" => \A r, s \in DOMAIN its : r.n = s.n => r = s

(* Copies are of what is there and is no copy, each of something else. *)
Paired(its, others) == \A r \in DOMAIN its :
    /\ \A s \in its[r].of : s \in DOMAIN others /\ others[s].of = {}
    /\ \A s \in DOMAIN its : its[r].of = its[s].of /\ its[r].of # {} => r = s

ItemsOK(its) ==
    /\ its = [f \in Forges |-> its[f]]
    /\ \A f \in Forges : Sound(f, its[f]) /\ Paired(its[f], its[Other(f)])

TouchedOK ==
    /\ touched = [f \in Forges |-> touched[f]]
    /\ \A f \in Forges : touched[f] \subseteq DOMAIN items[f]

(* What a run listed is as it was then, but what is a copy of what never changes. *)
RunOK ==
    /\ run = [from |-> run.from, listed |-> run.listed, batch |-> run.batch,
              item |-> run.item, to |-> run.to]
    /\ run.from = "nowhere" => run = NoRun
    /\ run.from # "nowhere" =>
        /\ From \in Forges
        /\ run.listed \subseteq DOMAIN items[From]
        /\ run.to \subseteq DOMAIN items[To]
        /\ run.to # {} => run.item.ref \in DOMAIN items[From]
        /\ \A b \in run.batch :
            /\ b.ref \in DOMAIN items[From]
            /\ b.state \in States
            /\ IsSeq(b.body)
            /\ Honest(From, items[From][b.ref].of, b.body)

BothWaysInv ==
    /\ acts \in 0..MaxActs
    /\ ItemsOK(items)
    /\ TouchedOK
    /\ RunOK

-----------------------------------------------------------------------------
(* Origins and bodies. *)

LEMMA Forge == \A f \in Forges : Other(f) \in Forges /\ Other(f) # f /\ Other(Other(f)) = f
BY DEF Forges, Other

LEMMA OneLong ==
    ASSUME NEW S, NEW x \in S
    PROVE  <<x>> \in Seq(S) /\ Len(<<x>>) = 1
OBVIOUS

Segments == STRING \cup {"acme", "widget"}

LEMMA PlainOrigin ==
    ASSUME PlainText, NEW f \in Forges, NEW r
    PROVE  Plain(OriginOf(f, r), Segments)
<1>1. Group \in Seq(Segments) /\ Len(Group) = 1
    <2>1. Group \in Seq(STRING) /\ Len(Group) = 1 /\ STRING \subseteq Segments
        BY BothWaysAssumption DEF PlainText, Segments
    <2>2. \A S, T : S \subseteq T => Seq(S) \subseteq Seq(T)
        OBVIOUS
    <2> QED BY <2>1, <2>2
<1>2. <<"acme">> \in Seq(Segments) /\ Len(<<"acme">>) = 1 /\ <<"widget">> \in Seq(Segments)
    <2>1. "acme" \in Segments /\ "widget" \in Segments
        BY DEF Segments
    <2> QED BY <2>1, OneLong
<1> QED BY <1>1, <1>2 DEF Plain, OriginOf, Owner, Name

LEMMA OriginsDiffer ==
    ASSUME NEW f, NEW r \in Refs, NEW s \in Refs, OriginOf(f, r) = OriginOf(f, s)
    PROVE  r = s
<1>1. r.kind = s.kind /\ r.n = s.n
    BY DEF OriginOf
<1> QED BY <1>1 DEF Refs

LEMMA CopyReadBack ==
    ASSUME PlainText, NEW f \in Forges, NEW r, NEW body, CopyOf(f, r, body)
    PROVE  ParseOrigin(body) = {OriginOf(Other(f), r)} /\ IsSeq(body)
BY Forge, PlainOrigin, RenderIsParseable, Rendered DEF CopyOf

LEMMA OwnReadBack ==
    ASSUME NEW f \in Forges, NEW body, OwnWords(f, body), NEW o \in ParseOrigin(body)
    PROVE  o.forge = f
<1>1. PICK k \in MarkersIn(body) : o = Read(body[k])
    BY DEF ParseOrigin, LastOf
<1>2. body[k].is \in {"mark", "left"} /\ k \in DOMAIN body
    BY <1>1 DEF MarkersIn
<1> QED BY <1>1, <1>2 DEF Read, OwnWords

(* What an honest body is read back as. *)
LEMMA HonestReadBack ==
    ASSUME PlainText, NEW f \in Forges, NEW of, NEW body, Honest(f, of, body)
    PROVE  {o \in ParseOrigin(body) : o.forge = Other(f)} = {OriginOf(Other(f), s) : s \in of}
<1>1. CASE of = {} /\ OwnWords(f, body)
    BY <1>1, OwnReadBack, Forge
<1>2. CASE \E r \in Refs : of = {r} /\ CopyOf(f, r, body)
    <2>1. PICK r \in Refs : of = {r} /\ CopyOf(f, r, body)
        BY <1>2
    <2>2. ParseOrigin(body) = {OriginOf(Other(f), r)}
        BY <2>1, CopyReadBack
    <2>3. OriginOf(Other(f), r).forge = Other(f)
        BY DEF OriginOf
    <2> QED BY <2>1, <2>2, <2>3
<1> QED BY <1>1, <1>2 DEF Honest

(* An item of the target that has the origin of something is a copy of it. *)
LEMMA MadeIsCopy ==
    ASSUME PlainText, NEW f \in Forges, NEW of, NEW body, Honest(f, of, body),
           NEW r \in Refs, of \subseteq Refs, OriginOf(Other(f), r) \in ParseOrigin(body)
    PROVE  of = {r}
<1>1. OriginOf(Other(f), r).forge = Other(f)
    BY DEF OriginOf
<1>2. OriginOf(Other(f), r) \in {OriginOf(Other(f), s) : s \in of}
    BY <1>1, HonestReadBack
<1>3. r \in of
    BY <1>2, OriginsDiffer
<1> QED BY <1>3 DEF Honest

-----------------------------------------------------------------------------
(* The map of origins keeps one of the copies, if there is one. *)

LEMMA OldestOfKind ==
    ASSUME NEW M \in SUBSET Refs, M # {}
    PROVE  \E r \in M : \A s \in M : r.n <= s.n
<1> DEFINE N == {r.n : r \in M}
<1>1. N \in SUBSET Nat /\ N # {}
    BY DEF Refs, Numbers
<1>2. PICK n \in N : \A m \in N : n <= m
    <2> HIDE DEF N
    <2> QED BY <1>1, Smallest
<1>3. PICK r \in M : n = r.n
    BY <1>2
<1>4. ASSUME NEW s \in M PROVE r.n <= s.n
    BY <1>2, <1>3
<1> QED BY <1>4

LEMMA OriginsFinds ==
    ASSUME NEW o, Made(o) \subseteq Refs, Made(o) # {}
    PROVE  Origins(o) # {}
<1> DEFINE M == Made(o)
           I == {r \in M : r.kind = "issue"}
<1>1. CASE To = "gitlab" /\ I # {}
    <2>1. PICK r \in I : \A s \in I : r.n <= s.n
        <3>1. I \in SUBSET Refs
            OBVIOUS
        <3> QED BY <1>1, <3>1, OldestOfKind
    <2>2. ASSUME NEW s \in M PROVE Older(r, s)
        BY <1>1, <2>1 DEF Older
    <2> QED BY <2>1, <2>2 DEF Origins
<1>2. CASE ~(To = "gitlab" /\ I # {})
    <2>1. PICK r \in M : \A s \in M : r.n <= s.n
        BY OldestOfKind
    <2>2. ASSUME NEW s \in M PROVE Older(r, s)
        <3>1. r.kind \in Kinds /\ s.kind \in Kinds /\ r.n <= s.n
            BY <2>1 DEF Refs
        <3>2. To = "gitlab" => r.kind = s.kind
            BY <1>2, <3>1 DEF Kinds
        <3> QED BY <3>1, <3>2 DEF Older
    <2> QED BY <2>1, <2>2 DEF Origins
<1> QED BY <1>1, <1>2

-----------------------------------------------------------------------------
(* Writing one item leaves the others as they are. *)

LEMMA WithFacts ==
    ASSUME ItemsOK(items), NEW f \in Forges, NEW r, NEW item
    PROVE  /\ With(f, r, item)[Other(f)] = items[Other(f)]
           /\ DOMAIN With(f, r, item)[f] = DOMAIN items[f] \cup {r}
           /\ With(f, r, item)[f][r] = item
           /\ \A s \in DOMAIN items[f] : s # r => With(f, r, item)[f][s] = items[f][s]
<1> DEFINE new == [s \in DOMAIN items[f] \cup {r} |-> IF s = r THEN item ELSE items[f][s]]
           its == With(f, r, item)
<1>1. its = [items EXCEPT ![f] = new] /\ DOMAIN items = Forges
    BY DEF With, ItemsOK
<1>2. its[f] = new /\ its[Other(f)] = items[Other(f)]
    <2> HIDE DEF new, its
    <2> QED BY <1>1, Forge
<1>3. /\ DOMAIN new = DOMAIN items[f] \cup {r}
      /\ new[r] = item
      /\ \A s \in DOMAIN items[f] : s # r => new[s] = items[f][s]
    OBVIOUS
<1> HIDE DEF new, its
<1>4. /\ its[Other(f)] = items[Other(f)]
      /\ DOMAIN its[f] = DOMAIN items[f] \cup {r}
      /\ its[f][r] = item
      /\ \A s \in DOMAIN items[f] : s # r => its[f][s] = items[f][s]
    BY <1>2, <1>3
<1> QED BY <1>4 DEF its

LEMMA WithFunctions ==
    ASSUME ItemsOK(items), NEW f \in Forges, NEW r, NEW item
    PROVE  /\ With(f, r, item) = [g \in Forges |-> With(f, r, item)[g]]
           /\ With(f, r, item)[f] = [s \in DOMAIN With(f, r, item)[f] |-> With(f, r, item)[f][s]]
<1> DEFINE new == [s \in DOMAIN items[f] \cup {r} |-> IF s = r THEN item ELSE items[f][s]]
           its == With(f, r, item)
<1>1. its = [items EXCEPT ![f] = new] /\ DOMAIN items = Forges
    BY DEF With, ItemsOK
<1>2. its[f] = new /\ its = [g \in Forges |-> its[g]]
    <2> HIDE DEF new, its
    <2> QED BY <1>1
<1>3. new = [s \in DOMAIN new |-> new[s]]
    OBVIOUS
<1> HIDE DEF new, its
<1>4. its = [g \in Forges |-> its[g]] /\ its[f] = [s \in DOMAIN its[f] |-> its[f][s]]
    BY <1>2, <1>3
<1> QED BY <1>4 DEF its

(* Nothing is lost, and what is a copy of what stays. *)
Grows(its) == \A f \in Forges :
    /\ DOMAIN items[f] \subseteq DOMAIN its[f]
    /\ \A r \in DOMAIN items[f] : its[f][r].of = items[f][r].of

LEMMA Changed ==
    ASSUME ItemsOK(items), NEW f \in Forges, NEW r \in DOMAIN items[f], NEW item,
           Fields(item), item.of = items[f][r].of, Honest(f, item.of, item.body)
    PROVE  ItemsOK(With(f, r, item)) /\ Grows(With(f, r, item))
<1> DEFINE its == With(f, r, item)
           g == Other(f)
<1>1. /\ its = [h \in Forges |-> its[h]]
      /\ its[g] = items[g]
      /\ DOMAIN its[f] = DOMAIN items[f]
      /\ its[f] = [s \in DOMAIN its[f] |-> its[f][s]]
      /\ its[f][r] = item
      /\ \A s \in DOMAIN items[f] : s # r => its[f][s] = items[f][s]
    <2> HIDE DEF its
    <2>1. DOMAIN items[f] \cup {r} = DOMAIN items[f]
        OBVIOUS
    <2>2. /\ its[g] = items[g]
          /\ DOMAIN its[f] = DOMAIN items[f] \cup {r}
          /\ its[f][r] = item
          /\ \A s \in DOMAIN items[f] : s # r => its[f][s] = items[f][s]
        BY WithFacts DEF its
    <2>3. its = [h \in Forges |-> its[h]] /\ its[f] = [s \in DOMAIN its[f] |-> its[f][s]]
        BY WithFunctions DEF its
    <2> QED BY <2>1, <2>2, <2>3
<1>2. /\ f \in Forges /\ g \in Forges /\ f # g /\ Other(g) = f
      /\ \A h \in Forges : h = f \/ h = g
    BY Forge DEF Forges, Other
<1>3. Sound(f, items[f]) /\ Sound(g, items[g])
      /\ Paired(items[f], items[g]) /\ Paired(items[g], items[f])
    BY <1>2 DEF ItemsOK
<1> HIDE DEF its, g
<1>4. \A s \in DOMAIN items[f] : its[f][s].of = items[f][s].of
    BY <1>1
<1>5. Sound(f, its[f])
    <2>1. \A s \in DOMAIN its[f] : Fields(its[f][s]) /\ Honest(f, its[f][s].of, its[f][s].body)
        BY <1>1, <1>3 DEF Sound
    <2> QED BY <1>1, <1>3, <2>1 DEF Sound
<1>6. Paired(its[f], its[g]) /\ Paired(its[g], its[f])
    BY <1>1, <1>3, <1>4 DEF Paired
<1>7. ItemsOK(its)
    BY <1>1, <1>2, <1>3, <1>5, <1>6 DEF ItemsOK, g
<1>8. Grows(its)
    BY <1>1, <1>2, <1>4 DEF Grows
<1> QED BY <1>7, <1>8 DEF its

LEMMA Added ==
    ASSUME ItemsOK(items), NEW f \in Forges, NEW r \in Refs, r \notin DOMAIN items[f],
           f = "github" => \A s \in DOMAIN items[f] : s.n # r.n,
           NEW item, Fields(item), Honest(f, item.of, item.body),
           \A s \in item.of : s \in DOMAIN items[Other(f)] /\ items[Other(f)][s].of = {},
           \A s \in DOMAIN items[f] : items[f][s].of = item.of => item.of = {}
    PROVE  ItemsOK(With(f, r, item)) /\ Grows(With(f, r, item))
<1> DEFINE its == With(f, r, item)
           g == Other(f)
<1>1. /\ its = [h \in Forges |-> its[h]]
      /\ its[g] = items[g]
      /\ DOMAIN its[f] = DOMAIN items[f] \cup {r}
      /\ its[f] = [s \in DOMAIN its[f] |-> its[f][s]]
      /\ its[f][r] = item
      /\ \A s \in DOMAIN items[f] : its[f][s] = items[f][s]
    <2> HIDE DEF its
    <2>1. /\ its[g] = items[g]
          /\ DOMAIN its[f] = DOMAIN items[f] \cup {r}
          /\ its[f][r] = item
          /\ \A s \in DOMAIN items[f] : its[f][s] = items[f][s]
        BY WithFacts DEF its
    <2>2. its = [h \in Forges |-> its[h]] /\ its[f] = [s \in DOMAIN its[f] |-> its[f][s]]
        BY WithFunctions DEF its
    <2> QED BY <2>1, <2>2
<1>2. /\ f \in Forges /\ g \in Forges /\ f # g /\ Other(g) = f
      /\ \A h \in Forges : h = f \/ h = g
    BY Forge DEF Forges, Other
<1>3. Sound(f, items[f]) /\ Sound(g, items[g])
      /\ Paired(items[f], items[g]) /\ Paired(items[g], items[f])
    BY <1>2 DEF ItemsOK
<1>4. \A s \in item.of : s \in DOMAIN items[g] /\ items[g][s].of = {}
    OBVIOUS
<1> HIDE DEF its, g
<1>5. Sound(f, its[f])
    <2>1. \A s \in DOMAIN its[f] : Fields(its[f][s]) /\ Honest(f, its[f][s].of, its[f][s].body)
        BY <1>1, <1>3 DEF Sound
    <2>2. f = "github" => \A s, t \in DOMAIN its[f] : s.n = t.n => s = t
        BY <1>1, <1>3 DEF Sound
    <2> QED BY <1>1, <1>3, <2>1, <2>2 DEF Sound
<1>6. Paired(its[f], its[g])
    BY <1>1, <1>3, <1>4 DEF Paired
<1>7. Paired(its[g], its[f])
    BY <1>1, <1>3 DEF Paired
<1>8. ItemsOK(its)
    BY <1>1, <1>2, <1>3, <1>5, <1>6, <1>7 DEF ItemsOK, g
<1>9. Grows(its)
    BY <1>1, <1>2 DEF Grows
<1> QED BY <1>8, <1>9 DEF its

(* A run that goes on is not disturbed by what grows. *)
LEMMA RunKept ==
    ASSUME RunOK, Grows(items'), run' = run
    PROVE  RunOK'
<1>1. CASE run.from = "nowhere"
    BY <1>1 DEF RunOK, NoRun
<1>2. CASE run.from # "nowhere"
    <2>1. From' = From /\ To' = To /\ From \in Forges /\ To \in Forges
        BY <1>2, Forge DEF RunOK, From, To
    <2>2. /\ DOMAIN items[From] \subseteq DOMAIN items'[From]
          /\ DOMAIN items[To] \subseteq DOMAIN items'[To]
          /\ \A r \in DOMAIN items[From] : items'[From][r].of = items[From][r].of
        BY <2>1 DEF Grows
    <2> QED BY <1>2, <2>1, <2>2 DEF RunOK
<1> QED BY <1>1, <1>2

LEMMA TouchedKept ==
    ASSUME TouchedOK, Grows(items'), NEW f \in Forges, NEW r \in DOMAIN items'[f],
           touched' \in {touched, Touch(f, r)}
    PROVE  TouchedOK'
<1>1. \A g \in Forges : touched[g] \subseteq DOMAIN items'[g]
    BY DEF TouchedOK, Grows
<1>2. CASE touched' = touched
    BY <1>1, <1>2 DEF TouchedOK
<1>3. CASE touched' = Touch(f, r)
    <2>1. touched' = [touched EXCEPT ![f] = touched[f] \cup {r}]
        BY <1>3 DEF Touch
    <2> QED BY <1>1, <2>1 DEF TouchedOK
<1> QED BY <1>2, <1>3

-----------------------------------------------------------------------------
(* The initial state, and what people do. *)

LEMMA InitInv == Init => BothWaysInv
<1> SUFFICES ASSUME Init PROVE BothWaysInv
    OBVIOUS
<1>1. \A f \in Forges : DOMAIN items[f] = {} /\ items[f] = [r \in DOMAIN items[f] |-> items[f][r]]
    BY DEF Init
<1>2. ItemsOK(items)
    <2>1. items = [f \in Forges |-> items[f]]
        BY DEF Init
    <2>2. ASSUME NEW f \in Forges PROVE Sound(f, items[f]) /\ Paired(items[f], items[Other(f)])
        BY <1>1 DEF Sound, Paired
    <2> QED BY <2>1, <2>2 DEF ItemsOK
<1>3. TouchedOK
    BY DEF Init, TouchedOK
<1>4. RunOK
    BY DEF Init, RunOK, NoRun
<1>5. acts \in 0..MaxActs
    BY BothWaysAssumption DEF Init
<1> QED BY <1>2, <1>3, <1>4, <1>5 DEF BothWaysInv

LEMMA BodiesAreOwn ==
    ASSUME PlainText, NEW f, NEW body \in Bodies(f)
    PROVE  OwnWords(f, body)
<1> DEFINE text == [is |-> "text", rev |-> acts]
<1>1. \A q \in Quotes(f) : q.forge = f /\ q.is = "mark"
    BY DEF PlainText, Quotes
<1>2. \A q : Left(q).forge = q.forge
    BY DEF Left
<1>3. text.is = "text" /\ Right.is = "right"
    BY DEF Right
<1>4. CASE body = <<text>>
    <2>1. body \in Seq({text}) /\ DOMAIN body = {1} /\ body[1] = text
        BY <1>4
    <2> QED BY <1>3, <2>1 DEF OwnWords, IsSeq
<1>5. ASSUME NEW q \in Quotes(f), body = <<q, Left(q), q, Right, text>> PROVE OwnWords(f, body)
    <2>1. /\ body \in Seq({Left(q), q, Right, text}) /\ DOMAIN body = {1, 2, 3, 4, 5}
          /\ body[1] = q /\ body[2] = Left(q) /\ body[3] = q /\ body[4] = Right /\ body[5] = text
        BY <1>5
    <2>2. \A k \in DOMAIN body : k = 1 \/ k = 2 \/ k = 3 \/ k = 4 \/ k = 5
        BY <2>1
    <2> QED BY <1>1, <1>2, <1>3, <2>1, <2>2 DEF OwnWords, IsSeq
<1> HIDE DEF text
<1> QED BY <1>4, <1>5 DEF Bodies, text

LEMMA NewRef ==
    ASSUME ItemsOK(items), NEW f \in Forges, NEW kind \in Kinds, NEW r \in NewRefs(f, kind)
    PROVE  /\ r \in Refs /\ r \notin DOMAIN items[f]
           /\ f = "github" => \A s \in DOMAIN items[f] : s.n # r.n
<1>1. PICK n \in Unused(f, kind) : r = [kind |-> kind, n |-> n]
    BY DEF NewRefs, FirstOf
<1>2. n \in Numbers /\ \A s \in DOMAIN items[f] : s.n = n => f = "gitlab" /\ s.kind # kind
    BY DEF Unused
<1> QED BY <1>1, <1>2 DEF Refs

(* All of a step but what it does to the items. *)
LEMMA Written ==
    ASSUME BothWaysInv, ItemsOK(items'), Grows(items'), NEW f \in Forges,
           NEW r \in DOMAIN items'[f], touched' \in {touched, Touch(f, r)},
           acts' \in 0..MaxActs, RunOK'
    PROVE  BothWaysInv'
BY TouchedKept DEF BothWaysInv

LEMMA ChangeInv ==
    ASSUME BothWaysInv, NEW f \in Forges, NEW r, NEW item, Change(f, r, item),
           ItemsOK(With(f, r, item)), Grows(With(f, r, item))
    PROVE  BothWaysInv' /\ acts' # acts
<1>1. /\ items' = With(f, r, item) /\ touched' = Touch(f, r) /\ run' = run
      /\ acts < MaxActs /\ acts' = acts + 1
    BY DEF Change
<1>2. r \in DOMAIN items'[f]
    <2>1. DOMAIN With(f, r, item)[f] = DOMAIN items[f] \cup {r}
        BY WithFacts DEF BothWaysInv
    <2> QED BY <1>1, <2>1
<1>3. RunOK'
    BY <1>1, RunKept DEF BothWaysInv
<1>4. acts' \in 0..MaxActs /\ acts' # acts
    BY <1>1, BothWaysAssumption DEF BothWaysInv
<1> QED BY <1>1, <1>2, <1>3, <1>4, Written

LEMMA PeopleInv ==
    ASSUME PlainText, BothWaysInv, People
    PROVE  BothWaysInv' /\ acts' # acts
<1>1. ItemsOK(items) /\ \A f \in Forges : Sound(f, items[f])
    BY DEF BothWaysInv, ItemsOK
<1>2. ASSUME NEW f \in Forges, Open(f) PROVE BothWaysInv' /\ acts' # acts
    <2>1. PICK kind \in Kinds, body \in Bodies(f) : \E r \in NewRefs(f, kind) :
              Change(f, r, [of |-> {}, body |-> body, state |-> "open", notes |-> <<>>])
        BY <1>2 DEF Open
    <2>0. PICK r \in NewRefs(f, kind) :
              Change(f, r, [of |-> {}, body |-> body, state |-> "open", notes |-> <<>>])
        BY <2>1
    <2> DEFINE item == [of |-> {}, body |-> body, state |-> "open", notes |-> <<>>]
    <2>2. Fields(item) /\ item.of = {} /\ Honest(f, item.of, item.body)
        BY BodiesAreOwn DEF Fields, States, Honest
    <2> HIDE DEF item
    <2>3. ItemsOK(With(f, r, item)) /\ Grows(With(f, r, item))
        BY <1>1, <2>2, NewRef, Added
    <2> QED BY <2>0, <2>3, ChangeInv DEF item
<1>3. ASSUME NEW f \in Forges, NEW r \in DOMAIN items[f], NEW item, Change(f, r, item),
             Fields(item), item.of = items[f][r].of, Honest(f, item.of, item.body)
      PROVE  BothWaysInv' /\ acts' # acts
    BY <1>1, <1>3, Changed, ChangeInv
<1>4. ASSUME NEW f \in Forges, NEW r \in DOMAIN items[f],
             Rewrite(f, r) \/ Switch(f, r) \/ Merge(f, r) \/ Say(f, r)
      PROVE  BothWaysInv' /\ acts' # acts
    <2> DEFINE old == items[f][r]
    <2>1. Fields(old) /\ Honest(f, old.of, old.body)
        BY <1>1 DEF Sound
    <2>2. CASE Rewrite(f, r)
        <3>1. PICK body \in Bodies(f) : old.of = {} /\ Change(f, r, [old EXCEPT !.body = body])
            BY <2>2 DEF Rewrite
        <3> DEFINE item == [old EXCEPT !.body = body]
        <3> HIDE DEF old
        <3>2. Fields(item) /\ item.of = old.of /\ item.body = body
            BY <2>1 DEF Fields
        <3>3. Honest(f, item.of, item.body)
            BY <3>1, <3>2, BodiesAreOwn DEF Honest
        <3> HIDE DEF item
        <3> QED BY <1>3, <3>1, <3>2, <3>3 DEF item, old
    <2>3. CASE Switch(f, r) \/ Merge(f, r)
        <3>1. PICK s \in States \cup {"merged"} : Change(f, r, [old EXCEPT !.state = s])
            BY <2>3 DEF Switch, Merge
        <3> DEFINE item == [old EXCEPT !.state = s]
        <3> HIDE DEF old
        <3>2. Fields(item) /\ item.of = old.of /\ item.body = old.body
            BY <2>1 DEF Fields
        <3> HIDE DEF item
        <3> QED BY <1>3, <2>1, <3>1, <3>2 DEF item, old
    <2>4. CASE Say(f, r)
        <3>1. PICK notes : Change(f, r, [old EXCEPT !.notes = notes])
            BY <2>4 DEF Say
        <3> DEFINE item == [old EXCEPT !.notes = notes]
        <3> HIDE DEF old
        <3>2. Fields(item) /\ item.of = old.of /\ item.body = old.body
            BY <2>1 DEF Fields
        <3> HIDE DEF item
        <3> QED BY <1>3, <2>1, <3>1, <3>2 DEF item, old
    <2> QED BY <1>4, <2>2, <2>3, <2>4
<1> QED BY <1>2, <1>4 DEF People

-----------------------------------------------------------------------------
(* What a run does. *)

LEMMA StartRunInv ==
    ASSUME BothWaysInv, NEW f \in Forges, StartRun(f)
    PROVE  BothWaysInv'
<1>1. /\ run' = [NoRun EXCEPT !.from = f, !.listed = touched[f],
                              !.batch = {Snap(f, r) : r \in touched[f]}]
      /\ touched' = [touched EXCEPT ![f] = {}]
      /\ acts' = acts /\ items' = items
    BY DEF StartRun
<1>2. TouchedOK'
    BY <1>1 DEF BothWaysInv, TouchedOK
<1>3. /\ run'.from = f /\ run'.listed = touched[f] /\ run'.to = {}
      /\ run'.batch = {Snap(f, r) : r \in touched[f]}
      /\ run' = [from |-> run'.from, listed |-> run'.listed, batch |-> run'.batch,
                 item |-> run'.item, to |-> run'.to]
      /\ From' = f /\ run'.from # "nowhere"
    BY <1>1 DEF NoRun, From, Forges
<1>4. touched[f] \subseteq DOMAIN items[f] /\ Sound(f, items[f])
    BY DEF BothWaysInv, TouchedOK, ItemsOK
<1>5. ASSUME NEW b \in run'.batch
      PROVE  /\ b.ref \in DOMAIN items[f] /\ b.state \in States
             /\ IsSeq(b.body) /\ Honest(f, items[f][b.ref].of, b.body)
    <2>1. PICK r \in touched[f] : b = Snap(f, r)
        BY <1>3
    <2>2. /\ b.ref = r /\ b.body = items[f][r].body /\ b.state = Shown(items[f][r])
          /\ r \in DOMAIN items[f]
        BY <1>4, <2>1 DEF Snap
    <2>3. Fields(items[f][r]) /\ Honest(f, items[f][r].of, items[f][r].body)
        BY <1>4, <2>2 DEF Sound
    <2>4. IsSeq(items[f][r].body)
        BY <2>3, Rendered DEF Honest, OwnWords, CopyOf
    <2> QED BY <2>2, <2>3, <2>4 DEF Fields, Shown, States
<1>6. RunOK'
    BY <1>1, <1>3, <1>4, <1>5 DEF RunOK
<1> QED BY <1>1, <1>2, <1>6 DEF BothWaysInv

(* No run is in flight where it holds nothing. *)
LEMMA InFlight ==
    ASSUME RunOK, run.batch # {} \/ run.to # {} \/ run # NoRun
    PROVE  run.from # "nowhere" /\ From \in Forges /\ To \in Forges /\ Other(To) = From
           /\ Other(From) = To
<1>1. run.from # "nowhere"
    BY DEF RunOK, NoRun
<1> QED BY <1>1, Forge DEF RunOK, From, To

LEMMA Begun ==
    ASSUME RunOK, Grows(items'), NEW b \in run.batch, NEW r \in DOMAIN items'[To], Begin(b, r)
    PROVE  RunOK'
<1>1. run.from # "nowhere" /\ From \in Forges /\ To \in Forges
    BY InFlight
<1>2. /\ run'.from = run.from /\ run'.listed = run.listed /\ run'.batch \subseteq run.batch
      /\ run'.item = b /\ run'.to = {r}
      /\ run' = [from |-> run'.from, listed |-> run'.listed, batch |-> run'.batch,
                 item |-> run'.item, to |-> run'.to]
    BY DEF Begin, RunOK
<1>3. From' = From /\ To' = To
    BY <1>2 DEF From, To
<1>4. /\ DOMAIN items[From] \subseteq DOMAIN items'[From]
      /\ \A s \in DOMAIN items[From] : items'[From][s].of = items[From][s].of
    BY <1>1 DEF Grows
<1> QED BY <1>1, <1>2, <1>3, <1>4 DEF RunOK

(* People's words are where they were. *)
OwnKept == \A f \in Forges : \A r \in DOMAIN items[f] :
    items[f][r].of = {} /\ items'[f][r].body # items[f][r].body => acts' # acts

(* A run that writes one item and goes on with its comments. *)
LEMMA WrittenByRun ==
    ASSUME BothWaysInv, NEW b \in run.batch, NEW r, NEW item, items' = With(To, r, item),
           touched' \in {touched, Touch(To, r)}, Begin(b, r), acts' = acts,
           ItemsOK(items'), Grows(items'),
           r \in DOMAIN items[To] =>
               items[To][r].of # {} \/ item.body = items[To][r].body
    PROVE  BothWaysInv' /\ OwnKept
<1>1. run.from # "nowhere" /\ From \in Forges /\ To \in Forges /\ Other(To) = From
      /\ ItemsOK(items)
    BY InFlight DEF BothWaysInv
<1>2. /\ items'[Other(To)] = items[Other(To)]
      /\ DOMAIN items'[To] = DOMAIN items[To] \cup {r}
      /\ items'[To][r] = item
      /\ \A s \in DOMAIN items[To] : s # r => items'[To][s] = items[To][s]
    BY <1>1, WithFacts
<1>3. RunOK'
    BY <1>2, Begun DEF BothWaysInv
<1>4. BothWaysInv'
    BY <1>1, <1>2, <1>3, Written DEF BothWaysInv
<1>5. \A f \in Forges : f = To \/ f = From
    BY <1>1 DEF Forges, Other
<1>6. OwnKept
    BY <1>1, <1>2, <1>5 DEF OwnKept
<1> QED BY <1>4, <1>6

LEMMA ReflectInv ==
    ASSUME BothWaysInv, NEW b \in run.batch, Reflect(b)
    PROVE  BothWaysInv' /\ OwnKept
<1>1. run.from # "nowhere" /\ From \in Forges /\ To \in Forges /\ ItemsOK(items)
    BY InFlight DEF BothWaysInv
<1>2. PICK r \in DOMAIN items[To] :
          /\ items' = With(To, r, [items[To][r] EXCEPT !.state = MovedTo(items[To][r], b.state)])
          /\ touched' \in {touched, Touch(To, r)}
          /\ Begin(b, r)
    BY DEF Reflect, Write, Named
<1> DEFINE old == items[To][r]
           item == [old EXCEPT !.state = MovedTo(old, b.state)]
<1>3. Fields(old) /\ Honest(To, old.of, old.body) /\ b.state \in States
    BY <1>1 DEF ItemsOK, Sound, BothWaysInv, RunOK
<1>4. Fields(item) /\ item.of = old.of /\ item.body = old.body
    <2> HIDE DEF old
    <2>1. MovedTo(old, b.state) \in States \cup {"merged"}
        BY <1>3 DEF MovedTo
    <2> QED BY <1>3, <2>1 DEF Fields
<1>5. items' = With(To, r, item) /\ acts' = acts
    BY <1>2 DEF Reflect
<1> HIDE DEF item
<1>6. ItemsOK(With(To, r, item)) /\ Grows(With(To, r, item))
    BY <1>1, <1>3, <1>4, Changed
<1> QED BY <1>2, <1>4, <1>5, <1>6, WrittenByRun

(* What is created is the copy of something that is no copy and had none. *)
LEMMA HadNone ==
    ASSUME PlainText, BothWaysInv, NEW b \in run.batch, Create(b)
    PROVE  /\ items[From][b.ref].of = {}
           /\ \A s \in DOMAIN items[To] : items[To][s].of # {b.ref}
<1>1. /\ From \in Forges /\ To \in Forges /\ Other(To) = From /\ Other(From) = To /\ ItemsOK(items)
      /\ run.from # "nowhere"
    BY InFlight DEF BothWaysInv
<1>2. PICK o : o = OriginOf(From, b.ref)
    OBVIOUS
<1>3. Back(b) = {} /\ Origins(o) = {}
    BY <1>2 DEF Create
<1>4. b.ref \in DOMAIN items[From] /\ IsSeq(b.body) /\ Honest(From, items[From][b.ref].of, b.body)
    BY <1>1 DEF BothWaysInv, RunOK
<1>5. items[From][b.ref].of = {}
    <2>1. {w \in ParseOrigin(b.body) : w.forge = To} = {}
        BY <1>3 DEF Back
    <2>2. {OriginOf(To, s) : s \in items[From][b.ref].of} = {}
        BY <1>1, <1>4, <2>1, HonestReadBack
    <2> QED BY <2>2
<1>6. ASSUME NEW s \in DOMAIN items[To], items[To][s].of = {b.ref} PROVE FALSE
    <2>1. Sound(To, items[To])
        BY <1>1 DEF ItemsOK
    <2>2. Honest(To, {b.ref}, items[To][s].body) /\ DOMAIN items[To] \subseteq Refs
        BY <1>6, <2>1 DEF Sound
    <2>3. PICK t \in Refs : {b.ref} = {t} /\ CopyOf(To, t, items[To][s].body)
        BY <2>2 DEF Honest
    <2>4. t = b.ref
        BY <2>3
    <2>5. o \in ParseOrigin(items[To][s].body)
        BY <1>1, <1>2, <2>3, <2>4, CopyReadBack
    <2>6. Made(o) # {} /\ Made(o) \subseteq Refs
        BY <2>2, <2>5 DEF Made
    <2> QED BY <1>3, <2>6, OriginsFinds
<1> QED BY <1>5, <1>6

LEMMA CreateInv ==
    ASSUME PlainText, BothWaysInv, NEW b \in run.batch, Create(b)
    PROVE  BothWaysInv' /\ OwnKept
<1> DEFINE o == OriginOf(From, b.ref)
<1>1. /\ run.from # "nowhere" /\ From \in Forges /\ To \in Forges
      /\ Other(To) = From /\ Other(From) = To /\ ItemsOK(items)
    BY InFlight DEF BothWaysInv
<1>2. PICK kind \in CopyKinds(b) : \E r \in NewRefs(To, kind) :
          /\ items' = With(To, r, [of |-> {b.ref}, body |-> Render(b.body, o),
                                   state |-> b.state, notes |-> <<>>])
          /\ touched' \in {touched, Touch(To, r)}
          /\ Begin(b, r)
    BY DEF Create, Write
<1>3. PICK r \in NewRefs(To, kind) :
          /\ items' = With(To, r, [of |-> {b.ref}, body |-> Render(b.body, o),
                                   state |-> b.state, notes |-> <<>>])
          /\ touched' \in {touched, Touch(To, r)}
          /\ Begin(b, r)
    BY <1>2
<1>4. Back(b) = {} /\ Origins(o) = {} /\ acts' = acts
    BY DEF Create, Write
<1>5. kind \in Kinds
    BY <1>2 DEF CopyKinds, Kinds
<1>6. /\ r \in Refs /\ r \notin DOMAIN items[To]
      /\ To = "github" => \A s \in DOMAIN items[To] : s.n # r.n
    BY <1>1, <1>3, <1>5, NewRef
<1> DEFINE item == [of |-> {b.ref}, body |-> Render(b.body, o), state |-> b.state, notes |-> <<>>]
<1>7. /\ b.ref \in DOMAIN items[From] /\ b.ref \in Refs /\ b.state \in States
      /\ IsSeq(b.body) /\ Honest(From, items[From][b.ref].of, b.body)
    BY <1>1 DEF BothWaysInv, RunOK, ItemsOK, Sound
<1>8. items[From][b.ref].of = {}
    BY HadNone
<1>9. Fields(item) /\ Honest(To, item.of, item.body)
    <2>1. CopyOf(To, b.ref, item.body)
        BY <1>1, <1>7 DEF CopyOf
    <2> QED BY <1>7, <2>1 DEF Fields, Honest
<1>10. ASSUME NEW s \in DOMAIN items[To], items[To][s].of = {b.ref} PROVE FALSE
    BY <1>10, HadNone
<1>11. ItemsOK(With(To, r, item)) /\ Grows(With(To, r, item))
    <2>1. item.of = {b.ref}
        OBVIOUS
    <2> HIDE DEF item
    <2> QED BY <1>1, <1>6, <1>7, <1>8, <1>9, <1>10, <2>1, Added
<1>12. items' = With(To, r, item)
    BY <1>3
<1> HIDE DEF item
<1> QED BY <1>3, <1>4, <1>6, <1>11, <1>12, WrittenByRun

LEMMA TwoFields ==
    ASSUME NEW it, it = [of |-> it.of, body |-> it.body, state |-> it.state, notes |-> it.notes],
           NEW body, NEW state
    PROVE  [it EXCEPT !.body = body, !.state = state]
               = [of |-> it.of, body |-> body, state |-> state, notes |-> it.notes]
<1> DEFINE one == [of |-> it.of, body |-> body, state |-> it.state, notes |-> it.notes]
<1>1. [it EXCEPT !.body = body] = one
    OBVIOUS
<1>2. [one EXCEPT !.state = state] = [of |-> it.of, body |-> body, state |-> state, notes |-> it.notes]
    OBVIOUS
<1> HIDE DEF one
<1>3. [it EXCEPT !.body = body, !.state = state] = [[it EXCEPT !.body = body] EXCEPT !.state = state]
    OBVIOUS
<1> QED BY <1>1, <1>2, <1>3

(* What is updated is the copy of the item in hand. *)
LEMMA UpdateInv ==
    ASSUME PlainText, BothWaysInv, NEW b \in run.batch, Update(b)
    PROVE  BothWaysInv' /\ OwnKept
<1> DEFINE o == OriginOf(From, b.ref)
<1>1. /\ run.from # "nowhere" /\ From \in Forges /\ To \in Forges
      /\ Other(To) = From /\ ItemsOK(items)
    BY InFlight DEF BothWaysInv
<1>2. PICK r \in Origins(o) :
          /\ items' = With(To, r, [items[To][r] EXCEPT !.body = Render(b.body, o),
                                               !.state = MovedTo(items[To][r], b.state)])
          /\ touched' \in {touched, Touch(To, r)}
          /\ Begin(b, r)
    BY DEF Update, Write
<1>3. r \in DOMAIN items[To] /\ o \in ParseOrigin(items[To][r].body) /\ acts' = acts
    BY <1>2 DEF Origins, Made, Update
<1> DEFINE old == items[To][r]
           item == [old EXCEPT !.body = Render(b.body, o), !.state = MovedTo(old, b.state)]
<1>4. b.ref \in Refs /\ b.state \in States /\ IsSeq(b.body)
    BY <1>1 DEF BothWaysInv, RunOK, ItemsOK, Sound
<1>5. Fields(old) /\ Honest(To, old.of, old.body)
    BY <1>1, <1>3 DEF ItemsOK, Sound
<1>6. old.of = {b.ref}
    <2>1. old.of \subseteq Refs
        BY <1>5 DEF Honest
    <2> QED BY <1>1, <1>3, <1>4, <1>5, <2>1, MadeIsCopy
<1>7. Fields(item) /\ item.of = {b.ref} /\ item.body = Render(b.body, o)
    <2> DEFINE body == Render(b.body, o)
    <2> HIDE DEF old, body
    <2>1. old = [of |-> old.of, body |-> old.body, state |-> old.state, notes |-> old.notes]
        BY <1>5 DEF Fields
    <2>2. [old EXCEPT !.body = body, !.state = MovedTo(old, b.state)]
              = [of |-> old.of, body |-> body, state |-> MovedTo(old, b.state), notes |-> old.notes]
        BY <2>1, TwoFields
    <2>3. item = [of |-> {b.ref}, body |-> body, state |-> MovedTo(old, b.state), notes |-> old.notes]
        BY <1>6, <2>2 DEF body
    <2>4. MovedTo(old, b.state) \in States \cup {"merged"}
        BY <1>4 DEF MovedTo
    <2> QED BY <2>3, <2>4 DEF Fields, body
<1>8. items' = With(To, r, item)
    BY <1>2
<1> HIDE DEF item
<1>9. Honest(To, item.of, item.body)
    BY <1>1, <1>4, <1>7 DEF Honest, CopyOf
<1>10. ItemsOK(With(To, r, item)) /\ Grows(With(To, r, item))
    BY <1>1, <1>3, <1>6, <1>7, <1>9, Changed
<1> QED BY <1>2, <1>3, <1>6, <1>8, <1>10, WrittenByRun

LEMMA CommentsInv ==
    ASSUME BothWaysInv, Comments
    PROVE  BothWaysInv' /\ OwnKept
<1>0. PICK r \in run.to : \E notes :
          /\ items' = With(To, r, [items[To][r] EXCEPT !.notes = notes])
          /\ touched' \in {touched, Touch(To, r)}
          /\ run' = [run EXCEPT !.item = NoItem, !.to = {}]
          /\ acts' = acts
    BY DEF Comments
<1>1. PICK notes :
          /\ items' = With(To, r, [items[To][r] EXCEPT !.notes = notes])
          /\ touched' \in {touched, Touch(To, r)}
          /\ run' = [run EXCEPT !.item = NoItem, !.to = {}]
          /\ acts' = acts
    BY <1>0
<1>2. /\ run.from # "nowhere" /\ From \in Forges /\ To \in Forges /\ Other(To) = From
      /\ ItemsOK(items)
    BY <1>0, InFlight DEF BothWaysInv
<1>3. r \in DOMAIN items[To]
    BY <1>0, <1>2 DEF BothWaysInv, RunOK
<1> DEFINE old == items[To][r]
           item == [old EXCEPT !.notes = notes]
<1>4. Fields(old) /\ Honest(To, old.of, old.body)
    BY <1>2, <1>3 DEF ItemsOK, Sound
<1>5. Fields(item) /\ item.of = old.of /\ item.body = old.body
    <2> HIDE DEF old
    <2> QED BY <1>4 DEF Fields
<1>6. items' = With(To, r, item)
    BY <1>1
<1> HIDE DEF item
<1>7. ItemsOK(items') /\ Grows(items')
    BY <1>2, <1>3, <1>4, <1>5, <1>6, Changed
<1>8. /\ items'[Other(To)] = items[Other(To)]
      /\ DOMAIN items'[To] = DOMAIN items[To] \cup {r}
      /\ items'[To][r] = item
      /\ \A s \in DOMAIN items[To] : s # r => items'[To][s] = items[To][s]
    BY <1>2, <1>6, WithFacts
<1>9. RunOK'
    <2>1. /\ run'.from = run.from /\ run'.listed = run.listed /\ run'.batch = run.batch
          /\ run'.to = {}
          /\ run' = [from |-> run'.from, listed |-> run'.listed, batch |-> run'.batch,
                     item |-> run'.item, to |-> run'.to]
        BY <1>1 DEF BothWaysInv, RunOK
    <2>2. From' = From /\ To' = To
        BY <2>1 DEF From, To
    <2>3. /\ DOMAIN items[From] \subseteq DOMAIN items'[From]
          /\ \A s \in DOMAIN items[From] : items'[From][s].of = items[From][s].of
        BY <1>2, <1>7 DEF Grows
    <2> QED BY <1>2, <2>1, <2>2, <2>3 DEF BothWaysInv, RunOK
<1>10. BothWaysInv'
    BY <1>1, <1>2, <1>7, <1>8, <1>9, Written DEF BothWaysInv
<1>11. \A f \in Forges : f = To \/ f = From
    BY <1>2 DEF Forges, Other
<1>12. OwnKept
    BY <1>2, <1>5, <1>8, <1>11 DEF OwnKept
<1> QED BY <1>10, <1>12

LEMMA FinishRunInv ==
    ASSUME BothWaysInv, FinishRun
    PROVE  BothWaysInv' /\ OwnKept
<1>1. run' = NoRun /\ acts' = acts /\ items' = items /\ touched' = touched
    BY DEF FinishRun
<1>2. RunOK'
    BY <1>1 DEF RunOK, NoRun
<1> QED BY <1>1, <1>2 DEF BothWaysInv, TouchedOK, OwnKept

LEMMA CrashInv ==
    ASSUME BothWaysInv, Crash
    PROVE  BothWaysInv' /\ OwnKept
<1>1. /\ run' = NoRun /\ acts' = acts /\ items' = items
      /\ touched' = [touched EXCEPT ![From] = touched[From] \cup run.listed]
    BY DEF Crash
<1>2. From \in Forges /\ run.listed \subseteq DOMAIN items[From]
    BY InFlight DEF Crash, BothWaysInv, RunOK
<1>3. RunOK'
    BY <1>1 DEF RunOK, NoRun
<1>4. TouchedOK'
    BY <1>1, <1>2 DEF BothWaysInv, TouchedOK
<1> QED BY <1>1, <1>3, <1>4 DEF BothWaysInv, OwnKept

LEMMA NextInv ==
    ASSUME PlainText, BothWaysInv, [Next]_vars
    PROVE  BothWaysInv' /\ OwnKept
<1>1. CASE People
    BY <1>1, PeopleInv DEF OwnKept
<1>2. CASE Crash
    BY <1>2, CrashInv
<1>3. CASE FinishRun
    BY <1>3, FinishRunInv
<1>4. CASE Comments
    BY <1>4, CommentsInv
<1>5. ASSUME NEW b \in run.batch, Reflect(b) \/ Create(b) \/ Update(b) \/ Refused(b)
      PROVE  BothWaysInv' /\ OwnKept
    BY <1>5, ReflectInv, CreateInv, UpdateInv, CrashInv DEF Refused
<1>6. ASSUME NEW f \in Forges, StartRun(f) PROVE BothWaysInv' /\ OwnKept
    BY <1>6, StartRunInv DEF OwnKept, StartRun
<1>7. CASE UNCHANGED vars
    <2>1. acts' = acts /\ items' = items /\ touched' = touched /\ run' = run
        BY <1>7 DEF vars
    <2>2. TouchedOK' /\ RunOK'
        BY <2>1 DEF BothWaysInv, TouchedOK, RunOK, From, To
    <2> QED BY <2>1, <2>2 DEF BothWaysInv, OwnKept
<1> QED BY <1>1, <1>2, <1>3, <1>4, <1>5, <1>6, <1>7 DEF Next, Step

(* Every state that people, mirror and restore reach satisfies the invariant. *)
THEOREM Inductive == ASSUME PlainText PROVE Spec => []BothWaysInv
<1>1. Init => BothWaysInv
    BY InitInv
<1>2. BothWaysInv /\ [Next]_vars => BothWaysInv'
    BY NextInv
<1> QED BY <1>1, <1>2, PTL DEF Spec

-----------------------------------------------------------------------------
(* What follows from it. *)

(* Every variable keeps the shape the code gives it, and no run ever holds a reference
   to something that is not there. *)
THEOREM TypeCorrect == ASSUME PlainText PROVE Spec => []TypeOK
<1>1. ASSUME BothWaysInv PROVE TypeOK
    <2>1. DOMAIN items = Forges
        BY <1>1 DEF BothWaysInv, ItemsOK
    <2>2. \A f \in Forges : Sound(f, items[f]) /\ touched[f] \subseteq DOMAIN items[f]
        BY <1>1 DEF BothWaysInv, ItemsOK, TouchedOK
    <2>3. ASSUME NEW f \in Forges
          PROVE  /\ DOMAIN items[f] \subseteq Refs
                 /\ touched[f] \subseteq DOMAIN items[f]
                 /\ \A r \in DOMAIN items[f] : items[f][r].of \subseteq Refs /\ items[f][r].state \in States \cup {"merged"}
        <3>1. DOMAIN items[f] \subseteq Refs /\ touched[f] \subseteq DOMAIN items[f]
            BY <2>2 DEF Sound
        <3>2. ASSUME NEW r \in DOMAIN items[f]
              PROVE  items[f][r].of \subseteq Refs /\ items[f][r].state \in States \cup {"merged"}
            <4>1. Fields(items[f][r]) /\ Honest(f, items[f][r].of, items[f][r].body)
                BY <2>2, <3>2 DEF Sound
            <4> QED BY <4>1 DEF Fields, Honest
        <3> QED BY <3>1, <3>2
    <2>4. \A r, s \in DOMAIN items["github"] : r.n = s.n => r = s
        BY <2>2 DEF Sound, Forges
    <2>5. run = NoRun \/
              /\ From \in Forges
              /\ run.listed \cup {b.ref : b \in run.batch} \subseteq DOMAIN items[From]
              /\ run.to \subseteq DOMAIN items[To]
              /\ run.to # {} => run.item.ref \in DOMAIN items[From]
        BY <1>1 DEF BothWaysInv, RunOK
    <2> QED BY <1>1, <2>1, <2>3, <2>4, <2>5 DEF TypeOK, BothWaysInv
<1> QED BY <1>1, Inductive, PTL

(* What the program made is read back as the copy of just what it was made from, and
   nothing people wrote is taken for a copy, with any number of items, rewritten,
   quoted and copied in any order, and runs killed anywhere. *)
THEOREM MarkersAlwaysTrue == ASSUME PlainText PROVE Spec => []MarkersTrue
<1>1. ASSUME BothWaysInv PROVE MarkersTrue
    <2>1. ASSUME NEW f \in Forges, NEW r \in DOMAIN items[f]
          PROVE  Honest(f, items[f][r].of, items[f][r].body)
        BY <1>1 DEF BothWaysInv, ItemsOK, Sound
    <2> QED BY <2>1, HonestReadBack DEF MarkersTrue
<1> QED BY <1>1, Inductive, PTL

(* Mirror and restore, in turn and again and again, never make a second copy of one
   thing, nor a copy of a copy. *)
THEOREM OneOfEach == ASSUME PlainText PROVE Spec => []OneEach
<1>1. ASSUME BothWaysInv PROVE OneEach
    <2>1. \A f \in Forges : Paired(items[f], items[Other(f)])
        BY <1>1 DEF BothWaysInv, ItemsOK
    <2> QED BY <2>1 DEF OneEach, Paired
<1> QED BY <1>1, Inductive, PTL

(* No step of the program changes the body of what somebody wrote. *)
THEOREM OwnWorkSafe == ASSUME PlainText PROVE Spec => OwnWorkKept
<1>1. BothWaysInv /\ [Next]_vars => [OwnKept]_vars
    BY NextInv
<1>2. OwnWorkKept <=> [][OwnKept]_vars
    BY PTL DEF OwnWorkKept, OwnKept
<1> QED BY <1>1, <1>2, Inductive, PTL DEF Spec

-----------------------------------------------------------------------------
(* Positions and the order they are in. *)

LEMMA Largest ==
    ASSUME NEW n \in Nat, NEW K \in SUBSET (1..n), K # {}
    PROVE  \E c \in K : \A d \in K : d <= c
<1> DEFINE S == {n - k : k \in K}
<1>1. S \in SUBSET Nat /\ S # {}
    <2>1. \A k \in K : n - k \in Nat
        OBVIOUS
    <2> QED BY <2>1
<1>2. PICK x \in S : \A y \in S : x <= y
    <2> HIDE DEF S
    <2> QED BY <1>1, Smallest
<1>3. PICK c \in K : x = n - c
    BY <1>2
<1>4. ASSUME NEW d \in K PROVE d <= c
    <2>1. n - d \in S
        OBVIOUS
    <2>2. x <= n - d
        BY <1>2, <2>1
    <2>3. c \in Nat /\ d \in Nat
        OBVIOUS
    <2> HIDE DEF S
    <2> QED BY <1>3, <2>2, <2>3
<1> QED BY <1>4

Upto(K, k) == {j \in K : j <= k}

LEMMA UptoFacts ==
    ASSUME NEW n \in Nat, NEW K \in SUBSET (1..n), NEW k
    PROVE  IsFiniteSet(K) /\ IsFiniteSet(Upto(K, k)) /\ Cardinality(Upto(K, k)) \in Nat
           /\ Cardinality(K) \in Nat /\ Cardinality(Upto(K, k)) <= Cardinality(K)
<1>1. IsFiniteSet(1..n)
    BY FS_Interval, 1 \in Int, n \in Int
<1>2. IsFiniteSet(K)
    BY <1>1, FS_Subset
<1> QED BY <1>2, FS_Subset, FS_CardinalityType DEF Upto

(* Every rank is somebody's. *)
LEMMA Ranks ==
    ASSUME NEW n \in Nat, NEW K \in SUBSET (1..n), NEW i \in 1..Cardinality(K)
    PROVE  \E k \in K : Cardinality(Upto(K, k)) = i
<1>1. IsFiniteSet(K) /\ Cardinality(K) \in Nat /\ \A k : Cardinality(Upto(K, k)) \in Nat /\ IsFiniteSet(Upto(K, k))
    BY UptoFacts
<1>2. K # {}
    BY <1>1, FS_EmptySet
<1> DEFINE S == {k \in K : i <= Cardinality(Upto(K, k))}
<1>3. S # {}
    <2>1. PICK c \in K : \A d \in K : d <= c
        BY <1>2, Largest
    <2>2. Upto(K, c) = K
        BY <2>1 DEF Upto
    <2> QED BY <2>1, <2>2
<1>4. PICK c \in S : \A d \in S : c <= d
    <2>1. S \in SUBSET Nat
        <3>1. \A k \in K : k \in Nat
            OBVIOUS
        <3> QED BY <3>1
    <2> HIDE DEF S
    <2> QED BY <1>3, <2>1, Smallest
<1>5. CASE Cardinality(Upto(K, c)) = i
    BY <1>5
<1>6. CASE Cardinality(Upto(K, c)) # i
    <2>1. i < Cardinality(Upto(K, c)) /\ c \in K /\ c \in 1..n
        BY <1>1, <1>6
    <2> DEFINE B == Upto(K, c) \ {c}
    <2>2. c \in Upto(K, c)
        BY <2>1 DEF Upto
    <2>3. Cardinality(B) = Cardinality(Upto(K, c)) - 1 /\ IsFiniteSet(B)
        BY <1>1, <2>2, FS_RemoveElement
    <2>4. i <= Cardinality(B) /\ B # {}
        <3>1. i <= Cardinality(B)
            BY <1>1, <2>1, <2>3
        <3>2. Cardinality({}) = 0
            BY FS_EmptySet
        <3> HIDE DEF B
        <3> QED BY <3>1, <3>2
    <2>5. B \in SUBSET (1..n)
        BY DEF Upto
    <2>6. PICK d \in B : \A e \in B : e <= d
        <3> HIDE DEF B
        <3> QED BY <2>4, <2>5, Largest
    <2>7. d \in K /\ d < c /\ d \in 1..n
        BY <2>1 DEF Upto
    <2>8. Upto(K, d) = B
        <3>1. \A j \in K : j \in 1..n
            OBVIOUS
        <3>2. \A j \in K : j <= d => j <= c /\ j # c
            BY <2>1, <2>7, <3>1
        <3> QED BY <2>6, <3>2 DEF Upto
    <2>9. d \in S
        BY <2>4, <2>7, <2>8
    <2> QED BY <1>4, <2>1, <2>7, <2>9
<1> QED BY <1>5, <1>6

(* What is picked out of a sequence comes from one of the positions each, and each from
   another. *)
LEMMA AtPicks ==
    ASSUME NEW s, IsSeq(s), NEW K \in SUBSET DOMAIN s
    PROVE  /\ IsSeq(At(s, K))
           /\ \E p : \A i \in DOMAIN At(s, K) :
                  /\ p[i] \in K /\ At(s, K)[i] = s[p[i]]
                  /\ \A j \in DOMAIN At(s, K) : p[i] = p[j] => i = j
<1>1. IsSeq(At(s, K)) /\ Len(At(s, K)) = Cardinality(K)
    BY AtType
<1>2. DOMAIN s = 1..Len(s) /\ Len(s) \in Nat
    BY DEF IsSeq
<1> DEFINE p == [i \in 1..Cardinality(K) |-> CHOOSE k \in K : Cardinality(Upto(K, k)) = i]
<1>3. ASSUME NEW i \in 1..Cardinality(K) PROVE p[i] \in K /\ Cardinality(Upto(K, p[i])) = i
    <2>1. \E k \in K : Cardinality(Upto(K, k)) = i
        BY <1>2, Ranks
    <2> QED BY <2>1
<1>4. DOMAIN At(s, K) = 1..Cardinality(K) /\ \A i \in 1..Cardinality(K) : At(s, K)[i] = s[p[i]]
    BY DEF At, Upto
<1> HIDE DEF p
<1> QED BY <1>1, <1>3, <1>4

LEMMA InOrderPicks ==
    ASSUME NEW s, IsSeq(s)
    PROVE  LET t == InOrder(s)
           IN  /\ IsSeq(t)
               /\ \E p : \A i \in DOMAIN t : /\ p[i] \in DOMAIN s /\ t[i] = s[p[i]]
                                             /\ \A j \in DOMAIN t : p[i] = p[j] => i = j
<1>1. PICK S : s \in Seq(S)
    BY DEF IsSeq
<1>2. PICK m \in Nat : m = Len(s) /\ DOMAIN s = 1..m
    BY <1>1
<1>3. CASE From = "gitlab"
    <2> DEFINE t == [i \in 1..m |-> s[(m - i) + 1]]
               p == [i \in 1..m |-> (m - i) + 1]
    <2>1. InOrder(s) = t
        BY <1>2, <1>3 DEF InOrder, Seqs!Reverse
    <2>2. \A i \in 1..m : /\ p[i] \in 1..m /\ t[i] = s[p[i]]
                          /\ \A j \in 1..m : p[i] = p[j] => i = j
        OBVIOUS
    <2>3. t \in Seq(S) /\ DOMAIN t = 1..m
        <3>1. \A i \in 1..m : s[(m - i) + 1] \in S
            BY <1>1, <1>2
        <3> QED BY <3>1
    <2> HIDE DEF t, p
    <2> QED BY <1>2, <2>1, <2>2, <2>3 DEF IsSeq
<1>4. CASE From # "gitlab"
    <2> DEFINE p == [i \in 1..m |-> i]
    <2>1. InOrder(s) = s
        BY <1>4 DEF InOrder
    <2>2. \A i \in 1..m : p[i] = i
        OBVIOUS
    <2> HIDE DEF p
    <2> QED BY <1>1, <1>2, <2>1, <2>2 DEF IsSeq
<1> QED BY <1>3, <1>4

-----------------------------------------------------------------------------
(* Comments cross once. *)

(* A comment says of itself what it is a copy of. *)
NoteOK(note) ==
    /\ note = [of |-> note.of, body |-> note.body]
    /\ IsSeq(note.body) /\ NoteID(note.body) = note.of

(* Note n of item r of forge f is the copy of a note that is there and no copy. *)
Crossed(f, r, n) == \E s \in Counterparts(f, r) : \E i \in DOMAIN items[Other(f)][s].notes :
    n.of = {i} /\ items[Other(f)][s].notes[i].of = {}

NotesOK(f, r) ==
    /\ IsSeq(items[f][r].notes)
    /\ \A j \in DOMAIN items[f][r].notes :
           /\ NoteOK(items[f][r].notes[j])
           /\ items[f][r].notes[j].of # {} => Crossed(f, r, items[f][r].notes[j])

(* No two notes are copies of one. *)
Distinct(notes) == \A j, k \in DOMAIN notes : notes[j].of # {} /\ notes[j].of = notes[k].of => j = k

AllDistinct == \A f \in Forges : \A r \in DOMAIN items[f] : Distinct(items[f][r].notes)

(* The two items a run has in hand belong together. *)
HandOK == \A r \in run.to : run.item.ref \in Counterparts(To, r)

NotesInv ==
    /\ BothWaysInv /\ HandOK
    /\ \A f \in Forges : \A r \in DOMAIN items[f] : NotesOK(f, r)

LEMMA OneCounterpart ==
    ASSUME BothWaysInv, NEW f \in Forges, NEW r \in DOMAIN items[f],
           NEW s \in Counterparts(f, r), NEW t \in Counterparts(f, r)
    PROVE  s = t
<1>1. Paired(items[f], items[Other(f)]) /\ Paired(items[Other(f)], items[f])
    BY Forge DEF BothWaysInv, ItemsOK
<1>2. /\ s \in DOMAIN items[Other(f)] /\ t \in DOMAIN items[Other(f)]
      /\ items[f][r].of = {s} \/ items[Other(f)][s].of = {r}
      /\ items[f][r].of = {t} \/ items[Other(f)][t].of = {r}
    BY DEF Counterparts
<1>3. \A u \in DOMAIN items[Other(f)] : items[Other(f)][u].of = {r} => items[f][r].of = {}
    BY <1>1 DEF Paired
<1>4. CASE items[f][r].of = {}
    BY <1>1, <1>2, <1>4 DEF Paired
<1>5. CASE items[f][r].of # {}
    BY <1>2, <1>3, <1>5
<1> QED BY <1>4, <1>5

LEMMA StillCounterparts ==
    ASSUME Grows(items'), NEW f \in Forges, NEW r \in DOMAIN items[f], NEW s \in Counterparts(f, r)
    PROVE  s \in Counterparts(f, r)'
BY Forge DEF Grows, Counterparts

(* An item of forge f gets its notes, those it had and more. *)
LEMMA NotesGrow ==
    ASSUME NotesInv, BothWaysInv', Grows(items'), NEW f \in Forges, NEW r, NEW item,
           items' = With(f, r, item), NEW old,
           r \in DOMAIN items[f] => old = items[f][r].notes,
           r \notin DOMAIN items[f] => old = <<>>,
           IsSeq(item.notes), DOMAIN old \subseteq DOMAIN item.notes,
           \A j \in DOMAIN old : item.notes[j] = old[j],
           \A j \in DOMAIN item.notes \ DOMAIN old :
               /\ NoteOK(item.notes[j])
               /\ item.notes[j].of # {} => r \in DOMAIN items[f] /\ Crossed(f, r, item.notes[j])
    PROVE  \A h \in Forges : \A q \in DOMAIN items'[h] : NotesOK(h, q)'
<1>1. PICK g : g = Other(f) /\ g \in Forges /\ g # f /\ Other(g) = f /\ \A h \in Forges : h = f \/ h = g
    BY Forge DEF Forges, Other
<1>2. /\ items'[g] = items[g]
      /\ DOMAIN items'[f] = DOMAIN items[f] \cup {r}
      /\ items'[f][r] = item
      /\ \A s \in DOMAIN items[f] : s # r => items'[f][s] = items[f][s]
    BY <1>1, WithFacts DEF NotesInv, BothWaysInv
<1>3. ASSUME NEW h \in Forges, NEW q \in DOMAIN items[h], NEW n, Crossed(h, q, n)
      PROVE  Crossed(h, q, n)'
    <2>1. PICK s \in Counterparts(h, q) : \E i \in DOMAIN items[Other(h)][s].notes :
              n.of = {i} /\ items[Other(h)][s].notes[i].of = {}
        BY <1>3 DEF Crossed
    <2>2. PICK i \in DOMAIN items[Other(h)][s].notes :
              n.of = {i} /\ items[Other(h)][s].notes[i].of = {}
        BY <2>1
    <2>3. s \in Counterparts(h, q)' /\ s \in DOMAIN items[Other(h)]
        BY StillCounterparts DEF Counterparts
    <2>4. i \in DOMAIN items'[Other(h)][s].notes /\ items'[Other(h)][s].notes[i] = items[Other(h)][s].notes[i]
        BY <1>1, <1>2, <2>3
    <2> QED BY <2>2, <2>3, <2>4 DEF Crossed
<1>4. ASSUME NEW h \in Forges, NEW q \in DOMAIN items[h], items'[h][q].notes = items[h][q].notes
      PROVE  NotesOK(h, q)'
    <2>1. NotesOK(h, q)
        BY DEF NotesInv
    <2>2. PICK notes : notes = items[h][q].notes
        OBVIOUS
    <2>3. /\ IsSeq(notes)
          /\ \A j \in DOMAIN notes : NoteOK(notes[j])
          /\ \A j \in DOMAIN notes : notes[j].of # {} => Crossed(h, q, notes[j])
        BY <2>1, <2>2 DEF NotesOK
    <2>4. \A j \in DOMAIN notes : notes[j].of # {} => Crossed(h, q, notes[j])'
        BY <1>3, <2>3
    <2>5. items'[h][q].notes = notes
        BY <1>4, <2>2
    <2> QED BY <2>3, <2>4, <2>5 DEF NotesOK
<1>5. NotesOK(f, r)'
    <2>1. PICK notes : notes = item.notes
        OBVIOUS
    <2>2. ASSUME NEW j \in DOMAIN old
          PROVE  NoteOK(notes[j]) /\ (notes[j].of # {} => r \in DOMAIN items[f] /\ Crossed(f, r, notes[j]))
        <3>1. r \in DOMAIN items[f]
            BY <2>2
        <3>2. NotesOK(f, r)
            BY <3>1 DEF NotesInv
        <3> QED BY <2>1, <2>2, <3>1, <3>2 DEF NotesOK
    <2>3. \A j \in DOMAIN notes : NoteOK(notes[j])
        BY <2>1, <2>2
    <2>4. ASSUME NEW j \in DOMAIN notes, notes[j].of # {} PROVE Crossed(f, r, notes[j])'
        BY <1>3, <2>1, <2>2, <2>4
    <2>5. items'[f][r].notes = notes /\ IsSeq(notes)
        BY <1>2, <2>1
    <2> QED BY <2>3, <2>4, <2>5 DEF NotesOK
<1> QED BY <1>1, <1>2, <1>4, <1>5

(* As it does where each note that comes is the copy of none, or of another one. *)
LEMMA DistinctGrow ==
    ASSUME NotesInv, AllDistinct, NEW f \in Forges, NEW r, NEW item, items' = With(f, r, item), NEW old,
           r \in DOMAIN items[f] => old = items[f][r].notes,
           r \notin DOMAIN items[f] => old = <<>>,
           \A j \in DOMAIN old : item.notes[j] = old[j],
           \A j \in DOMAIN item.notes \ DOMAIN old : item.notes[j].of # {} =>
               \A k \in DOMAIN item.notes : item.notes[j].of = item.notes[k].of => j = k
    PROVE  AllDistinct'
<1>1. /\ items'[Other(f)] = items[Other(f)]
      /\ DOMAIN items'[f] = DOMAIN items[f] \cup {r}
      /\ items'[f][r] = item
      /\ \A s \in DOMAIN items[f] : s # r => items'[f][s] = items[f][s]
    BY WithFacts DEF NotesInv, BothWaysInv
<1>2. Distinct(old)
    <2>1. CASE r \in DOMAIN items[f]
        BY <2>1 DEF AllDistinct
    <2>2. CASE r \notin DOMAIN items[f]
        BY <2>2 DEF Distinct
    <2> QED BY <2>1, <2>2
<1>3. Distinct(item.notes)
    <2>1. PICK notes : notes = item.notes
        OBVIOUS
    <2>2. ASSUME NEW j \in DOMAIN notes, NEW k \in DOMAIN notes, notes[j].of # {}, notes[j].of = notes[k].of
          PROVE  j = k
        <3>1. CASE j \notin DOMAIN old \/ k \notin DOMAIN old
            BY <2>1, <2>2, <3>1
        <3>2. CASE j \in DOMAIN old /\ k \in DOMAIN old
            BY <1>2, <2>1, <2>2, <3>2 DEF Distinct
        <3> QED BY <3>1, <3>2
    <2> QED BY <2>1, <2>2 DEF Distinct
<1>4. \A h \in Forges : h = f \/ h = Other(f)
    BY DEF Forges, Other
<1>5. ASSUME NEW h \in Forges, NEW q \in DOMAIN items'[h] PROVE Distinct(items'[h][q].notes)
    BY <1>1, <1>3, <1>4 DEF AllDistinct
<1> QED BY <1>5 DEF AllDistinct

LEMMA HandKept ==
    ASSUME NotesInv, Grows(items'), run' = run
    PROVE  HandOK'
<1>1. PICK t : t = To
    OBVIOUS
<1>2. To' = t /\ run' = run
    BY <1>1 DEF To
<1>3. ASSUME NEW r \in run.to PROVE run.item.ref \in Counterparts(t, r)'
    <2>1. t \in Forges /\ r \in DOMAIN items[t] /\ run.item.ref \in Counterparts(t, r)
        BY <1>1, <1>3, InFlight DEF NotesInv, BothWaysInv, RunOK, HandOK
    <2> QED BY <2>1, StillCounterparts
<1> QED BY <1>2, <1>3 DEF HandOK, Counterparts

LEMMA NotesStill ==
    ASSUME NotesInv, BothWaysInv', UNCHANGED items, run' = run \/ run'.to = {}
    PROVE  NotesInv' /\ (AllDistinct => AllDistinct')
<1>1. ASSUME NEW f \in Forges, NEW r \in DOMAIN items[f] PROVE NotesOK(f, r)'
    <2>1. NotesOK(f, r)
        BY DEF NotesInv
    <2>2. \A n : Crossed(f, r, n) => Crossed(f, r, n)'
        BY DEF Crossed, Counterparts
    <2> QED BY <2>1, <2>2 DEF NotesOK
<1>2. Grows(items')
    BY DEF Grows
<1>3. HandOK'
    BY <1>2, HandKept DEF HandOK
<1>4. AllDistinct => AllDistinct'
    BY DEF AllDistinct
<1> QED BY <1>1, <1>3, <1>4 DEF NotesInv

(* An item changes in all but its notes. *)
LEMMA NotesUnchanged ==
    ASSUME NotesInv, BothWaysInv', Grows(items'), HandOK', NEW f \in Forges, NEW r, NEW item,
           items' = With(f, r, item),
           item.notes = IF r \in DOMAIN items[f] THEN items[f][r].notes ELSE <<>>
    PROVE  NotesInv' /\ (AllDistinct => AllDistinct')
<1>1. PICK old : old = item.notes
    OBVIOUS
<1>2. IsSeq(old)
    <2>1. CASE r \in DOMAIN items[f]
        BY <1>1, <2>1 DEF NotesInv, NotesOK
    <2>2. CASE r \notin DOMAIN items[f]
        BY <1>1, <2>2 DEF IsSeq
    <2> QED BY <2>1, <2>2
<1>3. \A h \in Forges : \A q \in DOMAIN items'[h] : NotesOK(h, q)'
    BY <1>1, <1>2, NotesGrow
<1>4. AllDistinct => AllDistinct'
    BY <1>1, DistinctGrow
<1> QED BY <1>3, <1>4 DEF NotesInv

(* An item gets a note that says of itself that it is nobody's copy. *)
LEMMA WordsOK ==
    ASSUME PlainText, NEW f, NEW r, NEW body \in Words(f, r)
    PROVE  NoteOK([of |-> {}, body |-> body])
<1> DEFINE text == [is |-> "text"]
           mention == [is |-> "mention"]
<1>1. body = <<mention, text>>
    BY DEF Words, PlainText
<1>2. text.is = "text" /\ mention.is = "mention"
    OBVIOUS
<1> HIDE DEF text, mention
<1>3. body \in Seq({mention, text}) /\ DOMAIN body = {1, 2} /\ body[1] = mention /\ body[2] = text
    BY <1>1
<1>4. NotesIn(body) = {1}
    BY <1>2, <1>3 DEF NotesIn
<1>5. NoteID(body) = {}
    BY <1>2, <1>3, <1>4 DEF NoteID, LastOf
<1> QED BY <1>3, <1>5 DEF NoteOK, IsSeq

LEMMA OneMore ==
    ASSUME NEW s, IsSeq(s), NEW x
    PROVE  /\ IsSeq(Append(s, x)) /\ DOMAIN s \subseteq DOMAIN Append(s, x)
           /\ \A j \in DOMAIN s : Append(s, x)[j] = s[j]
           /\ \A j \in DOMAIN Append(s, x) \ DOMAIN s : Append(s, x)[j] = x
<1>1. PICK S : s \in Seq(S)
    BY DEF IsSeq
<1>2. PICK T : T = S \cup {x}
    OBVIOUS
<1>3. s \in Seq(T) /\ x \in T
    BY <1>1, <1>2
<1>4. Append(s, x) \in Seq(T) /\ DOMAIN s = 1..Len(s) /\ Len(s) \in Nat
      /\ DOMAIN Append(s, x) = 1..(Len(s) + 1) /\ Append(s, x)[Len(s) + 1] = x
      /\ \A j \in 1..Len(s) : Append(s, x)[j] = s[j]
    BY <1>3
<1> QED BY <1>4 DEF IsSeq

LEMMA PeopleNotes ==
    ASSUME PlainText, NotesInv, People
    PROVE  NotesInv' /\ (AllDistinct => AllDistinct')
<1>1. BothWaysInv' /\ ItemsOK(items) /\ ItemsOK(items') /\ BothWaysInv
    BY PeopleInv DEF NotesInv, BothWaysInv
<1>2. ASSUME NEW f \in Forges, NEW r, NEW item, Change(f, r, item),
             r \in DOMAIN items[f] => item.of = items[f][r].of,
             item.notes = IF r \in DOMAIN items[f] THEN items[f][r].notes ELSE <<>>
      PROVE  NotesInv' /\ (AllDistinct => AllDistinct')
    <2>1. items' = With(f, r, item) /\ run' = run
        BY <1>2 DEF Change
    <2>2. Grows(items')
        BY <1>1, <1>2, <2>1, WithFacts, Forge DEF Grows, Forges, Other
    <2> QED BY <1>1, <1>2, <2>1, <2>2, HandKept, NotesUnchanged
<1>3. ASSUME NEW f \in Forges, Open(f) PROVE NotesInv' /\ (AllDistinct => AllDistinct')
    <2>1. PICK kind \in Kinds, body \in Bodies(f) : \E r \in NewRefs(f, kind) :
              Change(f, r, [of |-> {}, body |-> body, state |-> "open", notes |-> <<>>])
        BY <1>3 DEF Open
    <2>2. PICK r \in NewRefs(f, kind) :
              Change(f, r, [of |-> {}, body |-> body, state |-> "open", notes |-> <<>>])
        BY <2>1
    <2>3. PICK item : item = [of |-> {}, body |-> body, state |-> "open", notes |-> <<>>]
        OBVIOUS
    <2>4. item.notes = <<>> /\ r \notin DOMAIN items[f]
        BY <1>1, <2>3, NewRef
    <2> QED BY <1>2, <2>2, <2>3, <2>4
<1>4. ASSUME NEW f \in Forges, NEW r \in DOMAIN items[f], Rewrite(f, r) \/ Switch(f, r) \/ Merge(f, r)
      PROVE  NotesInv' /\ (AllDistinct => AllDistinct')
    <2>1. PICK old : old = items[f][r] /\ Fields(old)
        BY <1>1 DEF ItemsOK, Sound
    <2>2. PICK item : /\ Change(f, r, item)
                      /\ (\E body : item = [old EXCEPT !.body = body]) \/ (\E s : item = [old EXCEPT !.state = s])
        BY <1>4, <2>1 DEF Rewrite, Switch, Merge
    <2>3. item.of = old.of /\ item.notes = old.notes
        BY <2>1, <2>2 DEF Fields
    <2> QED BY <1>2, <2>1, <2>2, <2>3
<1>5. ASSUME NEW f \in Forges, NEW r \in DOMAIN items[f], Say(f, r) PROVE NotesInv' /\ (AllDistinct => AllDistinct')
    <2>1. PICK old : old = items[f][r] /\ Fields(old)
        BY <1>1 DEF ItemsOK, Sound
    <2>2. PICK body \in Words(f, r) : Change(f, r, [old EXCEPT !.notes = Append(@, [of |-> {}, body |-> body])])
        BY <1>5, <2>1 DEF Say
    <2>3. PICK note : note = [of |-> {}, body |-> body] /\ NoteOK(note)
        BY WordsOK
    <2>4. PICK item : item = [old EXCEPT !.notes = Append(old.notes, note)]
        OBVIOUS
    <2>5. item.of = old.of /\ item.notes = Append(old.notes, note)
        BY <2>1, <2>4 DEF Fields
    <2>6. items' = With(f, r, item) /\ run' = run
        BY <2>2, <2>3, <2>4 DEF Change
    <2>7. Grows(items')
        BY <1>1, <2>1, <2>5, <2>6, WithFacts, Forge DEF Grows, Forges, Other
    <2>8. IsSeq(old.notes)
        BY <2>1 DEF NotesInv, NotesOK
    <2>9. /\ IsSeq(item.notes) /\ DOMAIN old.notes \subseteq DOMAIN item.notes
          /\ \A j \in DOMAIN old.notes : item.notes[j] = old.notes[j]
          /\ \A j \in DOMAIN item.notes \ DOMAIN old.notes : item.notes[j] = note
        BY <2>5, <2>8, OneMore
    <2>10. note.of = {}
        BY <2>3
    <2>11. PICK notes : notes = old.notes /\ notes = items[f][r].notes
        BY <2>1
    <2>12. \A j \in DOMAIN item.notes \ DOMAIN notes : NoteOK(item.notes[j]) /\ item.notes[j].of = {}
        BY <2>3, <2>9, <2>10, <2>11
    <2>13. /\ IsSeq(item.notes) /\ DOMAIN notes \subseteq DOMAIN item.notes
           /\ \A j \in DOMAIN notes : item.notes[j] = notes[j]
        BY <2>9, <2>11
    <2>14. \A h \in Forges : \A q \in DOMAIN items'[h] : NotesOK(h, q)'
        BY <1>1, <2>6, <2>7, <2>11, <2>12, <2>13, NotesGrow
    <2>15. AllDistinct => AllDistinct'
        BY <2>6, <2>11, <2>12, <2>13, DistinctGrow
    <2> QED BY <1>1, <2>6, <2>7, <2>14, <2>15, HandKept DEF NotesInv
<1> QED BY <1>3, <1>4, <1>5 DEF People

LEMMA WithGrows ==
    ASSUME ItemsOK(items), NEW f \in Forges, NEW r, NEW item, items' = With(f, r, item),
           r \in DOMAIN items[f] => item.of = items[f][r].of
    PROVE  Grows(items')
BY WithFacts, Forge DEF Grows, Forges, Other

(* A run takes an item in hand, and what belongs to it. *)
LEMMA HandBegun ==
    ASSUME BothWaysInv, NEW b \in run.batch, NEW r, Begin(b, r), b.ref \in DOMAIN items'[From],
           items'[To][r].of = {b.ref} \/ items'[From][b.ref].of = {r}
    PROVE  HandOK'
<1>1. Other(To) = From
    BY InFlight DEF BothWaysInv
<1>2. run'.from = run.from /\ run'.item = b /\ run'.to = {r}
    BY DEF Begin, BothWaysInv, RunOK
<1>3. PICK t, g : t = To /\ g = From
    OBVIOUS
<1>4. To' = t /\ Other(t) = g
    BY <1>1, <1>2, <1>3 DEF To
<1>5. /\ b.ref \in DOMAIN items'[Other(t)]
      /\ items'[t][r].of = {b.ref} \/ items'[Other(t)][b.ref].of = {r}
    BY <1>3, <1>4
<1>6. b.ref \in Counterparts(t, r)'
    BY <1>5 DEF Counterparts
<1> QED BY <1>2, <1>4, <1>6 DEF HandOK, Counterparts

LEMMA ReflectNotes ==
    ASSUME PlainText, NotesInv, NEW b \in run.batch, Reflect(b)
    PROVE  NotesInv' /\ (AllDistinct => AllDistinct')
<1>1. /\ From \in Forges /\ To \in Forges /\ Other(To) = From /\ Other(From) = To
      /\ ItemsOK(items) /\ BothWaysInv /\ RunOK /\ run.from # "nowhere"
    BY InFlight DEF NotesInv, BothWaysInv
<1>2. BothWaysInv'
    BY <1>1, ReflectInv
<1>3. PICK o \in Back(b) : \E r \in Named(To, o.kind, o.number) :
          /\ items' = With(To, r, [items[To][r] EXCEPT !.state = MovedTo(items[To][r], b.state)])
          /\ Begin(b, r)
    BY DEF Reflect, Write
<1>4. PICK r \in Named(To, o.kind, o.number) :
          /\ items' = With(To, r, [items[To][r] EXCEPT !.state = MovedTo(items[To][r], b.state)])
          /\ Begin(b, r)
    BY <1>3
<1>5. PICK ref, of : ref = b.ref /\ of = items[From][ref].of
    OBVIOUS
<1>6. ref \in DOMAIN items[From] /\ Honest(From, of, b.body)
    BY <1>1, <1>5 DEF RunOK
<1>7. PICK s \in of : o = OriginOf(To, s)
    <2>1. o \in {w \in ParseOrigin(b.body) : w.forge = Other(From)}
        BY <1>1 DEF Back
    <2>2. o \in {OriginOf(Other(From), t) : t \in of}
        BY <1>1, <1>6, <2>1, HonestReadBack
    <2> QED BY <1>1, <2>2
<1>8. of = {s} /\ s \in Refs
    BY <1>6, <1>7 DEF Honest
<1>9. r \in DOMAIN items[To] /\ s \in DOMAIN items[To]
    <2>1. Paired(items[From], items[To])
        BY <1>1 DEF ItemsOK
    <2> QED BY <1>4, <1>5, <1>6, <1>7, <2>1 DEF Named, Paired
<1>10. r = s
    <2>1. r.n = s.n /\ (To = "gitlab" => r.kind = s.kind)
        BY <1>4, <1>7 DEF Named, OriginOf
    <2>2. Sound(To, items[To])
        BY <1>1 DEF ItemsOK
    <2>3. r \in Refs
        BY <1>9, <2>2 DEF Sound
    <2>4. CASE To = "gitlab"
        BY <1>8, <2>1, <2>3, <2>4 DEF Refs
    <2>5. CASE To = "github"
        BY <1>9, <2>1, <2>2, <2>5 DEF Sound
    <2> QED BY <1>1, <2>4, <2>5 DEF Forges
<1>11. PICK old : old = items[To][r] /\ Fields(old)
    BY <1>1, <1>9 DEF ItemsOK, Sound
<1>12. PICK item : item = [old EXCEPT !.state = MovedTo(old, b.state)]
    OBVIOUS
<1>13. item.of = old.of /\ item.notes = old.notes
    BY <1>11, <1>12 DEF Fields
<1>14. items' = With(To, r, item) /\ Begin(b, r)
    BY <1>4, <1>11, <1>12
<1>15. Grows(items')
    BY <1>1, <1>11, <1>13, <1>14, WithGrows
<1>16. ref \in DOMAIN items'[From] /\ items'[From][ref].of = {r}
    BY <1>1, <1>5, <1>6, <1>8, <1>10, <1>15 DEF Grows
<1>17. HandOK'
    BY <1>1, <1>5, <1>14, <1>16, HandBegun
<1> QED BY <1>1, <1>2, <1>9, <1>11, <1>13, <1>14, <1>15, <1>17, NotesUnchanged

LEMMA CreateNotes ==
    ASSUME PlainText, NotesInv, NEW b \in run.batch, Create(b)
    PROVE  NotesInv' /\ (AllDistinct => AllDistinct')
<1>1. /\ From \in Forges /\ To \in Forges /\ Other(To) = From
      /\ ItemsOK(items) /\ BothWaysInv /\ RunOK /\ run.from # "nowhere"
    BY InFlight DEF NotesInv, BothWaysInv
<1>2. BothWaysInv'
    BY <1>1, CreateInv
<1>0. PICK body : body = Render(b.body, OriginOf(From, b.ref))
    OBVIOUS
<1>3. PICK kind \in CopyKinds(b) : \E r \in NewRefs(To, kind) :
          /\ items' = With(To, r, [of |-> {b.ref}, body |-> body, state |-> b.state, notes |-> <<>>])
          /\ Begin(b, r)
    BY <1>0 DEF Create, Write
<1>4. PICK r \in NewRefs(To, kind) :
          /\ items' = With(To, r, [of |-> {b.ref}, body |-> body, state |-> b.state, notes |-> <<>>])
          /\ Begin(b, r)
    BY <1>3
<1>5. kind \in Kinds
    BY <1>3 DEF CopyKinds, Kinds
<1>6. r \notin DOMAIN items[To] /\ b.ref \in DOMAIN items[From]
    BY <1>1, <1>4, <1>5, NewRef DEF RunOK
<1>7. PICK item : item = [of |-> {b.ref}, body |-> body, state |-> b.state, notes |-> <<>>]
    OBVIOUS
<1>8. item.of = {b.ref} /\ item.notes = <<>>
    BY <1>7
<1>9. items' = With(To, r, item) /\ Begin(b, r)
    BY <1>4, <1>7
<1>10. Grows(items')
    BY <1>1, <1>6, <1>9, WithGrows
<1>11. b.ref \in DOMAIN items'[From] /\ items'[To][r].of = {b.ref}
    BY <1>1, <1>6, <1>8, <1>9, <1>10, WithFacts DEF Grows
<1>12. HandOK'
    BY <1>1, <1>9, <1>11, HandBegun
<1> QED BY <1>1, <1>2, <1>6, <1>8, <1>9, <1>10, <1>12, NotesUnchanged

LEMMA UpdateNotes ==
    ASSUME PlainText, NotesInv, NEW b \in run.batch, Update(b)
    PROVE  NotesInv' /\ (AllDistinct => AllDistinct')
<1>1. /\ From \in Forges /\ To \in Forges /\ Other(To) = From
      /\ ItemsOK(items) /\ BothWaysInv /\ RunOK /\ run.from # "nowhere"
    BY InFlight DEF NotesInv, BothWaysInv
<1>2. BothWaysInv'
    BY <1>1, UpdateInv
<1>3. PICK o : o = OriginOf(From, b.ref)
    OBVIOUS
<1>4. PICK r \in Origins(o) :
          /\ items' = With(To, r, [items[To][r] EXCEPT !.body = Render(b.body, o),
                                               !.state = MovedTo(items[To][r], b.state)])
          /\ Begin(b, r)
    BY <1>3 DEF Update, Write
<1>5. r \in DOMAIN items[To] /\ o \in ParseOrigin(items[To][r].body)
    BY <1>4 DEF Origins, Made
<1>6. PICK old : old = items[To][r] /\ Fields(old) /\ Honest(To, old.of, old.body)
    BY <1>1, <1>5 DEF ItemsOK, Sound
<1>7. b.ref \in DOMAIN items[From] /\ b.ref \in Refs
    BY <1>1 DEF RunOK, ItemsOK, Sound
<1>8. old.of = {b.ref}
    <2>1. old.of \subseteq Refs
        BY <1>6 DEF Honest
    <2> QED BY <1>1, <1>3, <1>5, <1>6, <1>7, <2>1, MadeIsCopy
<1>9. PICK body, state : body = Render(b.body, o) /\ state = MovedTo(old, b.state)
    OBVIOUS
<1>10. PICK item : item = [old EXCEPT !.body = body, !.state = state]
    OBVIOUS
<1>11. item.of = old.of /\ item.notes = old.notes
    <2>1. old = [of |-> old.of, body |-> old.body, state |-> old.state, notes |-> old.notes]
        BY <1>6 DEF Fields
    <2>2. item = [of |-> old.of, body |-> body, state |-> state, notes |-> old.notes]
        BY <1>10, <2>1, TwoFields
    <2> QED BY <2>2
<1>12. items' = With(To, r, item) /\ Begin(b, r)
    BY <1>4, <1>6, <1>9, <1>10
<1>13. Grows(items')
    BY <1>1, <1>6, <1>11, <1>12, WithGrows
<1>14. b.ref \in DOMAIN items'[From] /\ items'[To][r].of = {b.ref}
    BY <1>1, <1>5, <1>6, <1>7, <1>8, <1>13 DEF Grows
<1>15. HandOK'
    BY <1>1, <1>12, <1>14, HandBegun
<1> QED BY <1>1, <1>2, <1>5, <1>6, <1>11, <1>12, <1>13, <1>15, NotesUnchanged

(* Sequence u is s, and after it t. *)
Joins(u, s, t) ==
    /\ IsSeq(u) /\ DOMAIN s \subseteq DOMAIN u
    /\ \A j \in DOMAIN s : u[j] = s[j]
    /\ \E p : \A j \in DOMAIN u \ DOMAIN s :
           /\ p[j] \in DOMAIN t /\ u[j] = t[p[j]]
           /\ \A k \in DOMAIN u \ DOMAIN s : p[j] = p[k] => j = k

LEMMA Joined ==
    ASSUME NEW s, IsSeq(s), NEW t, IsSeq(t)
    PROVE  Joins(s \o t, s, t)
<1>1. PICK S, T : s \in Seq(S) /\ t \in Seq(T)
    BY DEF IsSeq
<1>2. PICK U : U = S \cup T
    OBVIOUS
<1>3. s \in Seq(U) /\ t \in Seq(U)
    BY <1>1, <1>2
<1>4. PICK m \in Nat, n \in Nat : m = Len(s) /\ n = Len(t) /\ DOMAIN s = 1..m /\ DOMAIN t = 1..n
    BY <1>3
<1> DEFINE u == s \o t
           p == [j \in 1..(m + n) |-> j - m]
<1>5. u \in Seq(U) /\ Len(u) = m + n
    BY <1>3, <1>4, ConcatProperties
<1>6. \A j \in 1..(m + n) : u[j] = IF j <= m THEN s[j] ELSE t[j - m]
    BY <1>3, <1>4, ConcatProperties
<1>7. \A j \in 1..(m + n) : p[j] = j - m
    OBVIOUS
<1> HIDE DEF u, p
<1>8. DOMAIN u = 1..(m + n)
    BY <1>5
<1>9. IsSeq(u) /\ DOMAIN s \subseteq DOMAIN u /\ \A j \in DOMAIN s : u[j] = s[j]
    BY <1>4, <1>5, <1>6, <1>8 DEF IsSeq
<1>10. \A j \in DOMAIN u \ DOMAIN s : /\ p[j] \in DOMAIN t /\ u[j] = t[p[j]]
                                      /\ \A k \in DOMAIN u \ DOMAIN s : p[j] = p[k] => j = k
    BY <1>4, <1>6, <1>7, <1>8
<1>11. Joins(u, s, t)
    BY <1>9, <1>10 DEF Joins
<1> QED BY <1>11 DEF u

(* A sequence, element by element. *)
LEMMA Mapped ==
    ASSUME NEW s, IsSeq(s), NEW t, t = [k \in DOMAIN s |-> t[k]]
    PROVE  IsSeq(t) /\ DOMAIN t = DOMAIN s /\ Len(t) = Len(s)
<1>1. PICK n \in Nat : n = Len(s) /\ DOMAIN s = 1..n
    BY DEF IsSeq
<1>2. PICK T : T = {t[k] : k \in 1..n}
    OBVIOUS
<1>3. t \in [1..n -> T]
    BY <1>1, <1>2
<1>4. t \in Seq(T) /\ DOMAIN t = 1..n /\ Len(t) = n
    BY <1>3
<1> QED BY <1>1, <1>4 DEF IsSeq

(* What Comments makes: a comment each for positions of the source's that are no copies
   and have none. *)
Fresh(notes, have) ==
    InOrder(At([k \in DOMAIN notes |-> [of |-> {k}, body |-> RenderComment(notes[k].body, k)]],
               Missing(notes, have)))

LEMMA NewNotes ==
    ASSUME NEW notes, IsSeq(notes), NEW have,
           \A k \in DOMAIN notes : NoteOK(notes[k])
    PROVE  LET t == Fresh(notes, have)
           IN  /\ IsSeq(t)
               /\ \A i \in DOMAIN t : /\ NoteOK(t[i])
                                      /\ \E k \in DOMAIN notes : t[i].of = {k} /\ notes[k].of = {} /\ k \notin have
                                      /\ \A j \in DOMAIN t : t[i].of = t[j].of => i = j
<1> DEFINE full == [k \in DOMAIN notes |-> [of |-> {k}, body |-> RenderComment(notes[k].body, k)]]
           K == Missing(notes, have)
           new == At(full, K)
           t == InOrder(new)
<1>1. IsSeq(full) /\ DOMAIN full = DOMAIN notes
    <2>1. full = [k \in DOMAIN notes |-> full[k]]
        OBVIOUS
    <2> HIDE DEF full
    <2> QED BY <2>1, Mapped
<1>2. \A k \in DOMAIN notes : full[k].of = {k} /\ full[k].body = RenderComment(notes[k].body, k)
    OBVIOUS
<1>3. K \subseteq DOMAIN full /\ \A k \in K : k \in DOMAIN notes /\ notes[k].of = {} /\ k \notin have
    BY <1>1 DEF Missing, NoteOK
<1>4. \A k \in DOMAIN notes : NoteOK(full[k])
    <2>1. ASSUME NEW k \in DOMAIN notes PROVE NoteOK(full[k])
        <3>1. PICK body : body = notes[k].body /\ IsSeq(body)
            BY DEF NoteOK
        <3>2. IsSeq(RenderComment(body, k)) /\ NoteID(RenderComment(body, k)) = {k}
            BY <3>1, Between, CommentIsParseable DEF RenderComment
        <3>3. full[k] = [of |-> {k}, body |-> RenderComment(body, k)]
            BY <3>1
        <3> HIDE DEF full
        <3> QED BY <3>2, <3>3 DEF NoteOK
    <2> QED BY <2>1
<1> HIDE DEF full, K
<1>5. /\ IsSeq(new)
      /\ \E p : \A i \in DOMAIN new : /\ p[i] \in K /\ new[i] = full[p[i]]
                                      /\ \A j \in DOMAIN new : p[i] = p[j] => i = j
    BY <1>1, <1>3, AtPicks
<1>6. PICK p : \A i \in DOMAIN new : /\ p[i] \in K /\ new[i] = full[p[i]]
                                     /\ \A j \in DOMAIN new : p[i] = p[j] => i = j
    BY <1>5
<1> HIDE DEF new
<1>7. /\ IsSeq(t)
      /\ \E q : \A i \in DOMAIN t : /\ q[i] \in DOMAIN new /\ t[i] = new[q[i]]
                                    /\ \A j \in DOMAIN t : q[i] = q[j] => i = j
    BY <1>5, InOrderPicks
<1>8. PICK q : \A i \in DOMAIN t : /\ q[i] \in DOMAIN new /\ t[i] = new[q[i]]
                                   /\ \A j \in DOMAIN t : q[i] = q[j] => i = j
    BY <1>7
<1> HIDE DEF t
<1>9. \A i \in DOMAIN t : p[q[i]] \in K /\ t[i] = full[p[q[i]]] /\ t[i].of = {p[q[i]]}
    BY <1>2, <1>3, <1>6, <1>8
<1>10. \A i, j \in DOMAIN t : t[i].of = t[j].of => i = j
    <2>1. ASSUME NEW i \in DOMAIN t, NEW j \in DOMAIN t, t[i].of = t[j].of PROVE i = j
        <3>1. p[q[i]] = p[q[j]]
            BY <1>9, <2>1
        <3> QED BY <1>6, <1>8, <3>1
    <2> QED BY <2>1
<1>11. \A i \in DOMAIN t : /\ NoteOK(t[i])
                           /\ \E k \in DOMAIN notes : t[i].of = {k} /\ notes[k].of = {} /\ k \notin have
                           /\ \A j \in DOMAIN t : t[i].of = t[j].of => i = j
    BY <1>3, <1>4, <1>9, <1>10
<1>12. t = Fresh(notes, have)
    BY DEF t, new, K, full, Fresh
<1> QED BY <1>7, <1>11, <1>12

(* A target that lists one page lists everything where that is no more. *)
LEMMA AllListed ==
    ASSUME AllNotesListed, NEW f, NEW r \in DOMAIN items[f], IsSeq(items[f][r].notes)
    PROVE  Listed(f, r) = DOMAIN items[f][r].notes
<1>1. PICK n \in Nat : n = Len(items[f][r].notes) /\ DOMAIN items[f][r].notes = 1..n
    BY DEF IsSeq
<1>2. NotesPage \in Nat /\ (f = "gitlab" => n <= NotesPage)
    BY <1>1, BothWaysAssumption DEF AllNotesListed
<1>3. \A k \in 1..n : f = "gitlab" => k > n - NotesPage
    BY <1>2
<1> QED BY <1>1, <1>3 DEF Listed

LEMMA CommentsNotes ==
    ASSUME NotesInv, Comments
    PROVE  NotesInv' /\ (AllNotesListed /\ AllDistinct => AllDistinct')
<1>1. PICK r \in run.to : \E notes, have, new :
          /\ notes = items[From][run.item.ref].notes
          /\ have = UNION {NoteID(items[To][r].notes[k].body) : k \in Listed(To, r)}
          /\ new = Fresh(notes, have)
          /\ items' = With(To, r, [items[To][r] EXCEPT !.notes = items[To][r].notes \o new])
          /\ run' = [run EXCEPT !.item = NoItem, !.to = {}]
    BY DEF Comments, Fresh
<1>2. PICK notes, have, new :
          /\ notes = items[From][run.item.ref].notes
          /\ have = UNION {NoteID(items[To][r].notes[k].body) : k \in Listed(To, r)}
          /\ new = Fresh(notes, have)
          /\ items' = With(To, r, [items[To][r] EXCEPT !.notes = items[To][r].notes \o new])
          /\ run' = [run EXCEPT !.item = NoItem, !.to = {}]
    BY <1>1
<1>3. /\ From \in Forges /\ To \in Forges /\ Other(To) = From
      /\ ItemsOK(items) /\ BothWaysInv /\ RunOK /\ run.from # "nowhere"
    BY <1>1, InFlight DEF NotesInv, BothWaysInv
<1>4. BothWaysInv'
    BY <1>3, CommentsInv
<1>5. PICK ref : ref = run.item.ref
    OBVIOUS
<1>6. /\ r \in DOMAIN items[To] /\ ref \in DOMAIN items[From] /\ ref \in Counterparts(To, r)
      /\ NotesOK(From, ref) /\ NotesOK(To, r)
    BY <1>1, <1>3, <1>5 DEF RunOK, NotesInv, HandOK
<1>0. PICK old : old = items[To][r] /\ Fields(old)
    BY <1>3, <1>6 DEF ItemsOK, Sound
<1>7. PICK was : old = items[To][r] /\ Fields(old) /\ was = old.notes
    BY <1>0
<1>8. IsSeq(was) /\ \A j \in DOMAIN was : NoteOK(was[j])
    BY <1>6, <1>7 DEF NotesOK
<1>9. IsSeq(notes) /\ \A k \in DOMAIN notes : NoteOK(notes[k])
    BY <1>2, <1>5, <1>6 DEF NotesOK
<1>10. /\ IsSeq(new)
       /\ \A i \in DOMAIN new : /\ NoteOK(new[i])
                                /\ \E k \in DOMAIN notes : new[i].of = {k} /\ notes[k].of = {} /\ k \notin have
                                /\ \A j \in DOMAIN new : new[i].of = new[j].of => i = j
    <2>1. new = Fresh(notes, have)
        BY <1>2
    <2>2. IsSeq(Fresh(notes, have))
        BY <1>9, NewNotes
    <2>3. IsSeq(new)
        BY <2>1, <2>2
    <2>4. \A i \in DOMAIN new : NoteOK(new[i])
        BY <1>9, <2>1, NewNotes
    <2>5. \A i \in DOMAIN new : \E k \in DOMAIN notes : new[i].of = {k} /\ notes[k].of = {} /\ k \notin have
        BY <1>9, <2>1, NewNotes
    <2>6. \A i \in DOMAIN new : \A j \in DOMAIN new : new[i].of = new[j].of => i = j
        BY <1>9, <2>1, NewNotes
    <2> QED BY <2>3, <2>4, <2>5, <2>6
<1>11. PICK all : all = was \o new
    OBVIOUS
<1>12. PICK item : item = [old EXCEPT !.notes = all]
    OBVIOUS
<1>13. item.of = old.of /\ item.notes = all
    BY <1>7, <1>12 DEF Fields
<1>14. items' = With(To, r, item) /\ run'.to = {}
    BY <1>2, <1>3, <1>7, <1>11, <1>12 DEF RunOK
<1>15. Grows(items')
    BY <1>3, <1>7, <1>13, <1>14, WithGrows
<1>16. HandOK'
    BY <1>14 DEF HandOK
<1>17. /\ IsSeq(all) /\ DOMAIN was \subseteq DOMAIN all
       /\ \A j \in DOMAIN was : all[j] = was[j]
       /\ \E p : \A j \in DOMAIN all \ DOMAIN was :
              /\ p[j] \in DOMAIN new /\ all[j] = new[p[j]]
              /\ \A k \in DOMAIN all \ DOMAIN was : p[j] = p[k] => j = k
    <2>1. IsSeq(new)
        BY <1>10
    <2>2. Joins(was \o new, was, new)
        BY <1>8, <2>1, Joined
    <2>3. Joins(all, was, new)
        BY <1>11, <2>2
    <2> QED BY <2>3 DEF Joins
<1>18. PICK p : \A j \in DOMAIN all \ DOMAIN was :
              /\ p[j] \in DOMAIN new /\ all[j] = new[p[j]]
              /\ \A k \in DOMAIN all \ DOMAIN was : p[j] = p[k] => j = k
    BY <1>17
<1>19. AllNotesListed => \A k \in DOMAIN was : was[k].of \subseteq have
    <2>1. \A k \in DOMAIN was : was[k].of = NoteID(was[k].body)
        BY <1>8 DEF NoteOK
    <2>2. AllNotesListed => Listed(To, r) = DOMAIN was
        BY <1>3, <1>6, <1>7, <1>8, AllListed
    <2>3. AllNotesListed => have = UNION {NoteID(was[k].body) : k \in DOMAIN was}
        BY <1>2, <1>7, <2>2
    <2> QED BY <2>1, <2>3
<1>20. ASSUME NEW j \in DOMAIN all \ DOMAIN was
       PROVE  /\ NoteOK(all[j])
              /\ Crossed(To, r, all[j])
              /\ AllNotesListed => \A k \in DOMAIN all : all[j].of = all[k].of => j = k
    <2>1. p[j] \in DOMAIN new /\ all[j] = new[p[j]]
        BY <1>18
    <2>2. PICK i \in DOMAIN notes : all[j].of = {i} /\ notes[i].of = {} /\ i \notin have
        BY <1>10, <2>1
    <2>3. Crossed(To, r, all[j])
        BY <1>2, <1>3, <1>5, <1>6, <2>2 DEF Crossed
    <2>4. ASSUME AllNotesListed, NEW k \in DOMAIN all, all[j].of = all[k].of PROVE j = k
        <3>1. CASE k \in DOMAIN was
            BY <1>17, <1>19, <2>2, <2>4, <3>1
        <3>2. CASE k \notin DOMAIN was
            <4>1. p[k] \in DOMAIN new /\ all[k] = new[p[k]]
                BY <1>18, <3>2
            <4>2. p[j] = p[k]
                BY <1>10, <2>1, <2>4, <4>1
            <4> QED BY <1>18, <3>2, <4>2
        <3> QED BY <3>1, <3>2
    <2> QED BY <1>10, <2>1, <2>3, <2>4
<1>21. was = items[To][r].notes
    BY <1>7
<1>22. \A h \in Forges : \A q \in DOMAIN items'[h] : NotesOK(h, q)'
    BY <1>3, <1>4, <1>6, <1>13, <1>14, <1>15, <1>17, <1>20, <1>21, NotesGrow
<1>23. AllNotesListed /\ AllDistinct => AllDistinct'
    BY <1>3, <1>6, <1>13, <1>14, <1>17, <1>20, <1>21, DistinctGrow
<1> QED BY <1>4, <1>16, <1>22, <1>23 DEF NotesInv

LEMMA InitNotes == Init => NotesInv /\ AllDistinct
<1> SUFFICES ASSUME Init PROVE NotesInv /\ AllDistinct
    OBVIOUS
<1>1. \A f \in Forges : DOMAIN items[f] = {}
    BY DEF Init
<1>2. run.to = {}
    BY DEF Init, NoRun
<1> QED BY <1>1, <1>2, InitInv DEF NotesInv, HandOK, AllDistinct

LEMMA NextNotes ==
    ASSUME PlainText, NotesInv, [Next]_vars
    PROVE  NotesInv' /\ (AllNotesListed /\ AllDistinct => AllDistinct')
<1>1. BothWaysInv'
    BY NextInv DEF NotesInv
<1>2. CASE People
    BY <1>2, PeopleNotes
<1>0. \A b : Refused(b) => Crash
    BY DEF Refused
<1>3. CASE Crash \/ FinishRun \/ (\E f \in Forges : StartRun(f)) \/ UNCHANGED vars
    <2>1. UNCHANGED items /\ (run' = run \/ run'.to = {})
        <3>1. NoRun.to = {}
            BY DEF NoRun
        <3>2. CASE Crash \/ FinishRun \/ UNCHANGED vars
            BY <3>1, <3>2 DEF Crash, FinishRun, vars
        <3>3. ASSUME NEW f \in Forges, StartRun(f) PROVE UNCHANGED items /\ run'.to = {}
            BY <3>3 DEF StartRun, NoRun
        <3> QED BY <1>3, <3>2, <3>3
    <2> QED BY <1>1, <2>1, NotesStill
<1>4. CASE Comments
    BY <1>4, CommentsNotes
<1>5. ASSUME NEW b \in run.batch, Reflect(b) \/ Create(b) \/ Update(b)
      PROVE  NotesInv' /\ (AllDistinct => AllDistinct')
    BY <1>5, ReflectNotes, CreateNotes, UpdateNotes
<1> QED BY <1>0, <1>2, <1>3, <1>4, <1>5 DEF Next, Step

(* However often mirror and restore go over a repository, and wherever they are
   killed, each comment people wrote has one copy at most on the other half, and the
   copy none of its own, as long as no item of GitLab has more notes than the one page
   that is read. *)
THEOREM CommentsCrossOnce == ASSUME PlainText PROVE Spec /\ []AllNotesListed => []NotesOnce
<1>1. Init => NotesInv /\ AllDistinct
    BY InitNotes
<1>2. NotesInv /\ AllDistinct /\ AllNotesListed /\ [Next]_vars => NotesInv' /\ AllDistinct'
    BY NextNotes
<1>3. ASSUME NotesInv, AllDistinct PROVE NotesOnce
    <2>1. ASSUME NEW f \in Forges, NEW r \in DOMAIN items[f], NEW j \in DOMAIN items[f][r].notes,
                 items[f][r].notes[j].of # {}
          PROVE  /\ \A k \in DOMAIN items[f][r].notes : items[f][r].notes[j].of = items[f][r].notes[k].of => j = k
                 /\ \A s \in Counterparts(f, r), i \in items[f][r].notes[j].of : items[Other(f)][s].notes[i].of = {}
        <3>1. NotesOK(f, r) /\ BothWaysInv /\ Distinct(items[f][r].notes)
            BY <1>3 DEF NotesInv, AllDistinct
        <3>2. PICK n : n = items[f][r].notes[j]
            OBVIOUS
        <3>3. Crossed(f, r, n) /\ \A k \in DOMAIN items[f][r].notes : n.of = items[f][r].notes[k].of => j = k
            BY <2>1, <3>1, <3>2 DEF NotesOK, Distinct
        <3>4. PICK s \in Counterparts(f, r) : \E i \in DOMAIN items[Other(f)][s].notes :
                  n.of = {i} /\ items[Other(f)][s].notes[i].of = {}
            BY <3>3 DEF Crossed
        <3>5. \A t \in Counterparts(f, r) : t = s
            BY <3>1, <3>4, OneCounterpart
        <3> QED BY <3>2, <3>3, <3>4, <3>5
    <2> QED BY <2>1 DEF NotesOnce
<1> QED BY <1>1, <1>2, <1>3, PTL DEF Spec

-----------------------------------------------------------------------------
(* What is missing is what Comments adds, and all of it. *)

(* The elements picked out of a sequence are all there. *)
LEMMA AtCovers ==
    ASSUME NEW s, IsSeq(s), NEW K \in SUBSET DOMAIN s, NEW k \in K
    PROVE  \E i \in DOMAIN At(s, K) : At(s, K)[i] = s[k]
<1>1. PICK n \in Nat : n = Len(s) /\ DOMAIN s = 1..n
    BY DEF IsSeq
<1>2. IsFiniteSet(K) /\ Cardinality(K) \in Nat
      /\ \A d : /\ Cardinality(Upto(K, d)) \in Nat /\ IsFiniteSet(Upto(K, d))
                /\ Cardinality(Upto(K, d)) <= Cardinality(K)
    BY <1>1, UptoFacts
<1>3. PICK i : i = Cardinality(Upto(K, k))
    OBVIOUS
<1>4. k \in Upto(K, k)
    BY <1>1 DEF Upto
<1>5. i \in 1..Cardinality(K)
    <2>1. i # 0
        BY <1>2, <1>3, <1>4, FS_EmptySet
    <2> QED BY <1>2, <1>3, <2>1
<1>6. ASSUME NEW d \in K, NEW e \in K, d < e PROVE Cardinality(Upto(K, d)) < Cardinality(Upto(K, e))
    <2>1. d \in Nat /\ e \in Nat /\ \A j \in K : j \in Nat
        BY <1>1
    <2>2. Upto(K, d) \subseteq Upto(K, e) \ {e} /\ e \in Upto(K, e)
        BY <1>6, <2>1 DEF Upto
    <2>3. IsFiniteSet(Upto(K, e) \ {e}) /\ Cardinality(Upto(K, e) \ {e}) = Cardinality(Upto(K, e)) - 1
        BY <1>2, <2>2, FS_RemoveElement
    <2>4. Cardinality(Upto(K, d)) <= Cardinality(Upto(K, e) \ {e})
        BY <2>2, <2>3, FS_Subset
    <2> QED BY <1>2, <2>3, <2>4
<1>7. \A d \in K : Cardinality(Upto(K, d)) = i => d = k
    <2>1. ASSUME NEW d \in K, Cardinality(Upto(K, d)) = i PROVE d = k
        <3>1. d \in Nat /\ k \in Nat
            BY <1>1
        <3>2. ~(d < k) /\ ~(k < d)
            BY <1>2, <1>3, <1>6, <2>1
        <3> QED BY <3>1, <3>2
    <2> QED BY <2>1
<1>8. (CHOOSE d \in K : Cardinality(Upto(K, d)) = i) = k
    BY <1>3, <1>7
<1>9. DOMAIN At(s, K) = 1..Cardinality(K)
      /\ \A j \in 1..Cardinality(K) : At(s, K)[j] = s[CHOOSE d \in K : Cardinality(Upto(K, d)) = j]
    BY DEF At, Upto
<1> QED BY <1>5, <1>8, <1>9

LEMMA InOrderCovers ==
    ASSUME NEW s, IsSeq(s), NEW i \in DOMAIN s
    PROVE  \E j \in DOMAIN InOrder(s) : InOrder(s)[j] = s[i]
<1>1. PICK m \in Nat : m = Len(s) /\ DOMAIN s = 1..m
    BY DEF IsSeq
<1>2. CASE From = "gitlab"
    <2>1. InOrder(s) = [j \in 1..m |-> s[(m - j) + 1]]
        BY <1>1, <1>2 DEF InOrder, Seqs!Reverse
    <2>2. PICK j \in 1..m : (m - j) + 1 = i
        <3>1. (m - i) + 1 \in 1..m /\ (m - ((m - i) + 1)) + 1 = i
            BY <1>1
        <3> QED BY <3>1
    <2> QED BY <2>1, <2>2
<1>3. CASE From # "gitlab"
    BY <1>3 DEF InOrder
<1> QED BY <1>2, <1>3

Among(x, s) == \E j \in DOMAIN s : s[j] = x

LEMMA JoinCovers ==
    ASSUME NEW s, IsSeq(s), NEW t, IsSeq(t), NEW i \in DOMAIN t
    PROVE  Among(t[i], s \o t)
<1>1. PICK S, T : s \in Seq(S) /\ t \in Seq(T)
    BY DEF IsSeq
<1>2. PICK U : U = S \cup T
    OBVIOUS
<1>3. s \in Seq(U) /\ t \in Seq(U)
    BY <1>1, <1>2
<1>4. PICK m \in Nat, n \in Nat : m = Len(s) /\ n = Len(t) /\ DOMAIN t = 1..n
    BY <1>3
<1>5. s \o t \in Seq(U) /\ Len(s \o t) = m + n
      /\ \A j \in 1..(m + n) : (s \o t)[j] = IF j <= m THEN s[j] ELSE t[j - m]
    BY <1>3, <1>4, ConcatProperties
<1>6. m + i \in 1..(m + n) /\ ~(m + i <= m) /\ (m + i) - m = i
    BY <1>4
<1>7. DOMAIN (s \o t) = 1..(m + n)
    BY <1>5
<1>8. (s \o t)[m + i] = t[i]
    BY <1>5, <1>6
<1> QED BY <1>6, <1>7, <1>8 DEF Among

(* Among these comments is a copy of comment k. *)
HasCopy(notes, k) == \E i \in DOMAIN notes : notes[i].of = {k}

(* Comments leaves out none of those that are missing. *)
LEMMA FreshCovers ==
    ASSUME NEW notes, IsSeq(notes), NEW have, NEW k \in Missing(notes, have)
    PROVE  HasCopy(Fresh(notes, have), k)
<1> DEFINE full == [j \in DOMAIN notes |-> [of |-> {j}, body |-> RenderComment(notes[j].body, j)]]
           K == Missing(notes, have)
           new == At(full, K)
<1>1. IsSeq(full) /\ DOMAIN full = DOMAIN notes
    <2>1. full = [j \in DOMAIN notes |-> full[j]]
        OBVIOUS
    <2> HIDE DEF full
    <2> QED BY <2>1, Mapped
<1>2. K \in SUBSET DOMAIN full /\ k \in K /\ full[k].of = {k}
    BY DEF Missing
<1> HIDE DEF full, K
<1>3. PICK i \in DOMAIN new : new[i] = full[k]
    BY <1>1, <1>2, AtCovers
<1>4. IsSeq(new)
    BY <1>1, <1>2, AtPicks
<1> HIDE DEF new
<1>5. PICK j \in DOMAIN InOrder(new) : InOrder(new)[j] = new[i]
    BY <1>4, InOrderCovers
<1>6. InOrder(new) = Fresh(notes, have)
    BY DEF new, K, full, Fresh
<1> QED BY <1>2, <1>3, <1>5, <1>6 DEF HasCopy

-----------------------------------------------------------------------------
(* What is done stays done. *)

(* What a run listed is as it was then, unless somebody changed it since. *)
StillOK == \A b \in run.batch :
    /\ b.ref \in run.listed
    /\ b.ref \notin touched[From] =>
           b.body = items[From][b.ref].body /\ b.state = Shown(items[From][b.ref])

(* The two halves are in one state, or a merged merge request is among them. *)
Level(f, r, s) == Shown(items[Other(f)][s]) = Shown(items[f][r]) \/ MergedThere(f, r, s)

(* The copy in hand says what its original does, and the two are in one state, unless
   somebody changed one of them since, which is then for a run to look at. *)
InHandOK == \A s \in run.to :
    /\ run.item.ref \in run.listed
    /\ Level(To, s, run.item.ref) \/ s \in touched[To] \/ run.item.ref \in touched[From]
    /\ run.item.ref \notin touched[From] /\ items[From][run.item.ref].of = {} =>
           items[To][s].body = Render(items[From][run.item.ref].body, OriginOf(From, run.item.ref))

Meets(f, r, s) ==
    /\ s \in Counterparts(f, r)
    /\ items[f][r].of = {} => items[Other(f)][s].body = Render(items[f][r].body, OriginOf(f, r))
    /\ Level(f, r, s) \/ s \in Pending(Other(f))
    /\ Carried(items[f][r].notes, items[Other(f)][s].notes)

Meet == \A f \in Forges : \A r \in DOMAIN items[f] \ Pending(f) : \E s : Meets(f, r, s)

CarryInv == NotesInv /\ StillOK /\ InHandOK /\ Meet

LEMMA MeetIsSidesMeet == Meet <=> SidesMeet
<1>1. \A f \in Forges : \A r : Counterparts(f, r) \subseteq DOMAIN items[Other(f)]
    BY DEF Counterparts
<1> QED BY <1>1 DEF Meet, Meets, Level, SidesMeet

LEMMA LevelBack ==
    ASSUME NEW f \in Forges, NEW r, NEW s, Level(f, r, s)
    PROVE  Level(Other(f), s, r)
BY DEF Level, MergedThere, Forges, Other

(* Neither of two halves is written. *)
LEMMA LevelStill ==
    ASSUME NEW f \in Forges, NEW r, NEW s, Level(f, r, s),
           items'[f][r] = items[f][r], items'[Other(f)][s] = items[Other(f)][s]
    PROVE  Level(f, r, s)'
BY DEF Level, MergedThere, Forges, Other

(* An item that the target lets be moved is then in that state, or it is a merged merge
   request. *)
LEMMA MovesThere ==
    ASSUME NEW f \in Forges, NEW r \in DOMAIN items[f], Fields(items[f][r]),
           NEW s \in States, ~Refuses(f, r, s), NEW item, item.state = MovedTo(items[f][r], s)
    PROVE  Shown(item) = s \/ (f = "gitlab" /\ item.state = "merged")
<1>1. PICK was : was = items[f][r].state
    OBVIOUS
<1>2. item.state = IF was = "merged" THEN "merged" ELSE s
    BY <1>1 DEF MovedTo
<1>3. CASE was # "merged"
    <2>1. item.state = s /\ s # "merged"
        BY <1>2, <1>3 DEF States
    <2> QED BY <2>1 DEF Shown
<1>4. CASE was = "merged"
    <2>1. f = "gitlab" \/ s = "closed"
        BY <1>1, <1>4 DEF Refuses, Forges, States
    <2> QED BY <1>2, <1>4, <2>1 DEF Shown
<1> QED BY <1>3, <1>4

(* More is pending, and the items are what they were. *)
LEMMA MorePending ==
    ASSUME Meet, items' = items, \A f \in Forges : Pending(f) \subseteq Pending(f)'
    PROVE  Meet'
<1>1. ASSUME NEW f \in Forges, NEW r, NEW s, Meets(f, r, s) PROVE Meets(f, r, s)'
    <2>1. Level(f, r, s) => Level(f, r, s)'
        BY LevelStill
    <2> QED BY <1>1, <2>1, Forge DEF Meets, Counterparts
<1> QED BY <1>1 DEF Meet

(* Of an item that is written every comment stays where it was. *)
NotesStay(f, r, item) == r \in DOMAIN items[f] => \A j \in DOMAIN items[f][r].notes :
    j \in DOMAIN item.notes /\ item.notes[j] = items[f][r].notes[j]

(* An item is written: what it does not concern is as well done as it was. *)
LEMMA MeetsStill ==
    ASSUME BothWaysInv, NEW f \in Forges, NEW r, NEW item, items' = With(f, r, item), Grows(items'),
           NotesStay(f, r, item), r \in Pending(f)',
           NEW g \in Forges, NEW q \in DOMAIN items[g], q \notin Pending(g)', NEW s, Meets(g, q, s),
           s \in Pending(Other(g)) => s \in Pending(Other(g))',
           r \in DOMAIN items[f] /\ items[f][r].of = {q} /\ items[g][q].of = {} /\ g = Other(f)
               => item.body = items[f][r].body
    PROVE  Meets(g, q, s)'
<1>1. ItemsOK(items) /\ Other(f) \in Forges /\ Other(f) # f /\ Other(g) \in Forges /\ g # Other(g)
      /\ (g = f \/ g = Other(f))
    BY Forge DEF BothWaysInv, Forges, Other
<1>2. /\ items'[Other(f)] = items[Other(f)]
      /\ items'[f][r] = item
      /\ \A t \in DOMAIN items[f] : t # r => items'[f][t] = items[f][t]
    BY <1>1, WithFacts
<1>3. s \in Counterparts(g, q) /\ s \in DOMAIN items[Other(g)] /\ s \in Counterparts(g, q)'
    BY StillCounterparts DEF Meets, Counterparts
<1>4. items'[g][q] = items[g][q]
    BY <1>1, <1>2
<1>5. CASE g = Other(f) /\ s = r
    <2>1. Other(g) = f
        BY <1>5, Forge
    <2>2. PICK old : old = items[f][r] /\ r \in DOMAIN items[f]
        BY <1>3, <1>5, <2>1
    <2>3. items[g][q].of = {} => old.of = {q}
        BY <1>3, <1>5, <2>1, <2>2 DEF Counterparts
    <2>4. items[g][q].of = {} => item.body = Render(items[g][q].body, OriginOf(g, q))
        BY <1>5, <2>1, <2>2, <2>3 DEF Meets
    <2>5. Carried(items[g][q].notes, item.notes)
        BY <1>5, <2>1, <2>2 DEF Meets, Carried, NotesStay
    <2> QED BY <1>2, <1>3, <1>4, <1>5, <2>1, <2>4, <2>5 DEF Meets
<1>6. CASE ~(g = Other(f) /\ s = r)
    <2>1. items'[Other(g)][s] = items[Other(g)][s]
        BY <1>1, <1>2, <1>3, <1>6, Forge
    <2>2. Level(g, q, s) => Level(g, q, s)'
        BY <1>4, <2>1, LevelStill
    <2> QED BY <1>3, <1>4, <2>1, <2>2 DEF Meets
<1> QED BY <1>5, <1>6

(* An item is written that is then pending, as are all that were. *)
LEMMA MeetAfter ==
    ASSUME BothWaysInv, Meet, NEW f \in Forges, NEW r, NEW item, items' = With(f, r, item),
           Grows(items'), NotesStay(f, r, item), r \in Pending(f)',
           \A g \in Forges : Pending(g) \subseteq Pending(g)',
           r \in DOMAIN items[f] => \/ item.body = items[f][r].body
                                    \/ items[f][r].of \subseteq Pending(Other(f))'
    PROVE  Meet'
<1>1. ASSUME NEW g \in Forges, NEW q \in DOMAIN items'[g], q \notin Pending(g)'
      PROVE  \E s : Meets(g, q, s)'
    <2>1. q \in DOMAIN items[g]
        BY <1>1, WithFacts, Forge DEF BothWaysInv, Forges, Other
    <2>2. PICK s : Meets(g, q, s)
        BY <1>1, <2>1 DEF Meet
    <2>3. Other(g) \in Forges
        BY Forge
    <2> QED BY <1>1, <2>1, <2>2, <2>3, MeetsStill
<1> QED BY <1>1 DEF Meet

LEMMA TouchFacts ==
    ASSUME TouchedOK, NEW f \in Forges, NEW r
    PROVE  Touch(f, r)[f] = touched[f] \cup {r} /\ Touch(f, r)[Other(f)] = touched[Other(f)]
BY Forge DEF TouchedOK, Touch

(* A run writes what the item at hand calls for. *)
LEMMA RunWrites ==
    ASSUME CarryInv, NEW b \in run.batch, NEW r, NEW item, run.to = {}, Begin(b, r),
           Write(To, r, item), Grows(items'), NotesStay(To, r, item),
           b.state \in States, Shown(item) = b.state \/ (To = "gitlab" /\ item.state = "merged"),
           r \in DOMAIN items[To] => item.body = items[To][r].body \/ items[To][r].of = {b.ref},
           items[From][b.ref].of = {} => item.body = Render(b.body, OriginOf(From, b.ref))
    PROVE  StillOK' /\ InHandOK' /\ Meet'
<1>1. /\ run.from # "nowhere" /\ From \in Forges /\ To \in Forges /\ Other(To) = From
      /\ Other(From) = To /\ From # To /\ BothWaysInv /\ TouchedOK /\ RunOK /\ ItemsOK(items)
      /\ StillOK /\ Meet
    BY InFlight, Forge DEF CarryInv, NotesInv, BothWaysInv
<1>2. /\ run'.from = run.from /\ run'.listed = run.listed /\ run'.batch = run.batch \ {b}
      /\ run'.item = b /\ run'.to = {r}
    BY <1>1 DEF Begin, RunOK
<1>3. /\ touched' = Touch(To, r) \/ (items' = items /\ touched' = touched)
      /\ touched[To] \subseteq touched'[To] /\ touched'[From] = touched[From]
      /\ items'[From] = items[From] /\ items'[To][r] = item
    <2>1. items' = With(To, r, item) /\ (touched' = Touch(To, r) \/ (items' = items /\ touched' = touched))
        <3>1. /\ items' = With(To, r, item)
              /\ touched' = IF items' # items \/ EchoesShow THEN Touch(To, r) ELSE touched
            BY DEF Write
        <3>2. CASE items' # items \/ EchoesShow
            BY <3>1, <3>2
        <3>3. CASE ~(items' # items \/ EchoesShow)
            BY <3>1, <3>3
        <3> QED BY <3>1, <3>2, <3>3
    <2>2. items'[From] = items[From] /\ items'[To][r] = item
        BY <1>1, <2>1, WithFacts
    <2>3. touched[To] \subseteq touched'[To] /\ touched'[From] = touched[From]
        BY <1>1, <2>1, TouchFacts
    <2> QED BY <2>1, <2>2, <2>3
<1>4. PICK t, g : t = To /\ g = From
    OBVIOUS
<1>5. To' = t /\ From' = g
    BY <1>2, <1>4 DEF To, From
<1>6. StillOK'
    BY <1>1, <1>2, <1>3, <1>4, <1>5 DEF StillOK
<1>7. InHandOK'
    <2>1. /\ b.ref \in run.listed
          /\ b.ref \notin touched[g] =>
                 b.body = items[g][b.ref].body /\ b.state = Shown(items[g][b.ref])
        BY <1>1, <1>4 DEF StillOK
    <2>2. PICK ref : ref = b.ref
        OBVIOUS
    <2>3. ref \notin touched'[g] /\ items'[g][ref].of = {} =>
              items'[t][r].body = Render(items'[g][ref].body, OriginOf(g, ref))
        BY <1>3, <1>4, <2>1, <2>2
    <2>4. ref \notin touched'[g] => Level(t, r, ref)'
        <3>1. ref \notin touched'[g] => Shown(items'[t][r]) = Shown(items'[g][ref])
                                         \/ (t = "gitlab" /\ items'[t][r].state = "merged")
            BY <1>3, <1>4, <2>1, <2>2 DEF Shown
        <3> QED BY <1>1, <1>4, <3>1 DEF Level, MergedThere
    <2> QED BY <1>2, <1>3, <1>4, <1>5, <2>1, <2>2, <2>3, <2>4 DEF InHandOK
<1>8. ASSUME NEW f \in Forges PROVE Pending(f) \subseteq Pending(f)'
    <2>1. f = t \/ f = g
        BY <1>1, <1>4 DEF Forges, Other
    <2>2. touched[f] \subseteq touched'[f]
        BY <1>3, <1>4, <2>1
    <2>3. {c.ref : c \in run.batch} \subseteq {c.ref : c \in run'.batch} \cup {run'.item.ref : s \in run'.to}
        BY <1>2
    <2> QED BY <1>1, <1>4, <1>5, <2>2, <2>3 DEF Pending
<1>9. b.ref \in Pending(g)'
    BY <1>2, <1>3, <1>4, <1>5 DEF Pending
<1>10. r \in DOMAIN items[t] => item.body = items[t][r].body \/ items[t][r].of \subseteq Pending(Other(t))'
    <2>1. PICK ref : ref = b.ref /\ ref \in Pending(g)'
        BY <1>9
    <2> QED BY <1>1, <1>4, <2>1
<1>11. Meet'
    <2>1. CASE items' = items
        BY <1>1, <1>8, <2>1, MorePending
    <2>2. CASE touched' = Touch(To, r)
        <3>1. r \in Pending(t)'
            BY <1>1, <1>4, <2>2, TouchFacts DEF Pending
        <3>2. items' = With(t, r, item)
            BY <1>4 DEF Write
        <3> QED BY <1>1, <1>4, <1>8, <1>10, <3>1, <3>2, MeetAfter
    <2> QED BY <1>3, <2>1, <2>2
<1> QED BY <1>6, <1>7, <1>11

LEMMA ReflectCarries ==
    ASSUME PlainText, CarryInv, NEW b \in run.batch, Reflect(b)
    PROVE  StillOK' /\ InHandOK' /\ Meet'
<1>1. /\ From \in Forges /\ To \in Forges /\ Other(To) = From /\ Other(From) = To
      /\ ItemsOK(items) /\ BothWaysInv /\ RunOK /\ run.from # "nowhere"
    BY InFlight DEF CarryInv, NotesInv, BothWaysInv
<1>2. PICK o \in Back(b) : \E r \in Named(To, o.kind, o.number) :
          /\ Write(To, r, [items[To][r] EXCEPT !.state = MovedTo(items[To][r], b.state)])
          /\ Begin(b, r) /\ ~Refuses(To, r, b.state)
    BY DEF Reflect
<1>3. PICK r \in Named(To, o.kind, o.number) :
          /\ Write(To, r, [items[To][r] EXCEPT !.state = MovedTo(items[To][r], b.state)])
          /\ Begin(b, r) /\ ~Refuses(To, r, b.state)
    BY <1>2
<1>4. r \in DOMAIN items[To] /\ run.to = {}
    BY <1>3 DEF Named, Reflect
<1>5. PICK old : old = items[To][r] /\ Fields(old)
    BY <1>1, <1>4 DEF ItemsOK, Sound
<1>6. PICK item : item = [old EXCEPT !.state = MovedTo(old, b.state)]
    OBVIOUS
<1>7. item.of = old.of /\ item.notes = old.notes /\ item.body = old.body
      /\ item.state = MovedTo(old, b.state)
    BY <1>5, <1>6 DEF Fields
<1>8. Write(To, r, item) /\ items' = With(To, r, item)
    BY <1>3, <1>5, <1>6 DEF Write
<1>9. Grows(items') /\ NotesStay(To, r, item)
    BY <1>1, <1>5, <1>7, <1>8, WithGrows DEF NotesStay
<1>10. items[From][b.ref].of # {}
    <2>1. PICK ref, of : ref = b.ref /\ of = items[From][ref].of
        OBVIOUS
    <2>2. Honest(From, of, b.body)
        BY <1>1, <2>1 DEF RunOK
    <2>3. o \in {w \in ParseOrigin(b.body) : w.forge = Other(From)}
        BY <1>1, <1>2 DEF Back
    <2>4. o \in {OriginOf(Other(From), t) : t \in of}
        BY <1>1, <2>2, <2>3, HonestReadBack
    <2> QED BY <2>1, <2>4
<1>11. b.state \in States /\ (Shown(item) = b.state \/ (To = "gitlab" /\ item.state = "merged"))
    <2>1. b.state \in States
        BY <1>1 DEF RunOK
    <2> QED BY <1>1, <1>3, <1>4, <1>5, <1>7, <2>1, MovesThere
<1> QED BY <1>3, <1>4, <1>5, <1>7, <1>8, <1>9, <1>10, <1>11, RunWrites

LEMMA CreateCarries ==
    ASSUME PlainText, CarryInv, NEW b \in run.batch, Create(b)
    PROVE  StillOK' /\ InHandOK' /\ Meet'
<1>1. /\ From \in Forges /\ To \in Forges /\ ItemsOK(items) /\ BothWaysInv /\ RunOK
      /\ run.from # "nowhere"
    BY InFlight DEF CarryInv, NotesInv, BothWaysInv
<1>2. PICK body : body = Render(b.body, OriginOf(From, b.ref))
    OBVIOUS
<1>3. PICK kind \in CopyKinds(b) : \E r \in NewRefs(To, kind) :
          /\ Write(To, r, [of |-> {b.ref}, body |-> body, state |-> b.state, notes |-> <<>>])
          /\ Begin(b, r)
    BY <1>2 DEF Create
<1>4. PICK r \in NewRefs(To, kind) :
          /\ Write(To, r, [of |-> {b.ref}, body |-> body, state |-> b.state, notes |-> <<>>])
          /\ Begin(b, r)
    BY <1>3
<1>5. r \notin DOMAIN items[To]
    <2>1. kind \in Kinds
        BY <1>3 DEF CopyKinds, Kinds
    <2> QED BY <1>1, <1>4, <2>1, NewRef
<1>6. PICK item : item = [of |-> {b.ref}, body |-> body, state |-> b.state, notes |-> <<>>]
    OBVIOUS
<1>7. Write(To, r, item) /\ items' = With(To, r, item) /\ item.body = body
    BY <1>4, <1>6 DEF Write
<1>8. Grows(items') /\ NotesStay(To, r, item)
    BY <1>1, <1>5, <1>7, WithGrows DEF NotesStay
<1>9. run.to = {}
    BY DEF Create
<1>10. b.state \in States /\ Shown(item) = b.state
    <2>1. b.state \in States
        BY <1>1 DEF RunOK
    <2>2. item.state = b.state
        BY <1>6
    <2>3. b.state # "merged"
        BY <2>1 DEF States
    <2> QED BY <2>1, <2>2, <2>3 DEF Shown
<1> QED BY <1>2, <1>4, <1>5, <1>7, <1>8, <1>9, <1>10, RunWrites

LEMMA UpdateCarries ==
    ASSUME PlainText, CarryInv, NEW b \in run.batch, Update(b)
    PROVE  StillOK' /\ InHandOK' /\ Meet'
<1>1. /\ From \in Forges /\ To \in Forges /\ Other(To) = From
      /\ ItemsOK(items) /\ BothWaysInv /\ RunOK /\ run.from # "nowhere"
    BY InFlight DEF CarryInv, NotesInv, BothWaysInv
<1>2. PICK o : o = OriginOf(From, b.ref)
    OBVIOUS
<1>3. PICK r \in Origins(o) :
          /\ Write(To, r, [items[To][r] EXCEPT !.body = Render(b.body, o),
                                               !.state = MovedTo(items[To][r], b.state)])
          /\ Begin(b, r) /\ ~Refuses(To, r, b.state)
    BY <1>2 DEF Update
<1>4. r \in DOMAIN items[To] /\ o \in ParseOrigin(items[To][r].body) /\ run.to = {}
    BY <1>3 DEF Origins, Made, Update
<1>5. PICK old : old = items[To][r] /\ Fields(old) /\ Honest(To, old.of, old.body)
    BY <1>1, <1>4 DEF ItemsOK, Sound
<1>6. old.of = {b.ref}
    <2>1. old.of \subseteq Refs /\ b.ref \in Refs
        BY <1>1, <1>5 DEF Honest, RunOK, ItemsOK, Sound
    <2> QED BY <1>1, <1>2, <1>4, <1>5, <2>1, MadeIsCopy
<1>7. PICK body : body = Render(b.body, o)
    OBVIOUS
<1>8. PICK item : item = [old EXCEPT !.body = body, !.state = MovedTo(old, b.state)]
    OBVIOUS
<1>9. item.of = old.of /\ item.notes = old.notes /\ item.body = body
      /\ item.state = MovedTo(old, b.state)
    <2>1. old = [of |-> old.of, body |-> old.body, state |-> old.state, notes |-> old.notes]
        BY <1>5 DEF Fields
    <2>2. item = [of |-> old.of, body |-> body, state |-> MovedTo(old, b.state), notes |-> old.notes]
        BY <1>8, <2>1, TwoFields
    <2> QED BY <2>2
<1>10. Write(To, r, item) /\ items' = With(To, r, item)
    BY <1>3, <1>5, <1>7, <1>8 DEF Write
<1>11. Grows(items') /\ NotesStay(To, r, item)
    BY <1>1, <1>5, <1>9, <1>10, WithGrows DEF NotesStay
<1>12. b.state \in States /\ (Shown(item) = b.state \/ (To = "gitlab" /\ item.state = "merged"))
    <2>1. b.state \in States
        BY <1>1 DEF RunOK
    <2> QED BY <1>1, <1>3, <1>4, <1>5, <1>9, <2>1, MovesThere
<1> QED BY <1>2, <1>3, <1>4, <1>5, <1>6, <1>7, <1>9, <1>10, <1>11, <1>12, RunWrites

(* Somebody writes an item, and it is for a run to deal with. *)
LEMMA ChangeCarries ==
    ASSUME CarryInv, NEW f \in Forges, NEW r, NEW item, Change(f, r, item),
           r \in DOMAIN items[f] => item.of = items[f][r].of, NotesStay(f, r, item),
           r \in DOMAIN items[f] /\ items[f][r].of # {} => item.body = items[f][r].body
    PROVE  StillOK' /\ InHandOK' /\ Meet'
<1>1. /\ ItemsOK(items) /\ TouchedOK /\ BothWaysInv /\ RunOK /\ StillOK /\ InHandOK /\ HandOK /\ Meet
      /\ Other(f) \in Forges /\ Other(f) # f /\ Other(Other(f)) = f
      /\ \A h \in Forges : h = f \/ h = Other(f)
    BY Forge DEF CarryInv, NotesInv, BothWaysInv, Forges, Other
<1>2. items' = With(f, r, item) /\ touched' = Touch(f, r) /\ run' = run
    BY DEF Change
<1>3. /\ items'[Other(f)] = items[Other(f)] /\ items'[f][r] = item
      /\ \A s \in DOMAIN items[f] : s # r => items'[f][s] = items[f][s]
      /\ touched'[f] = touched[f] \cup {r} /\ touched'[Other(f)] = touched[Other(f)]
    BY <1>1, <1>2, WithFacts, TouchFacts
<1>4. PICK t, g : t = To /\ g = From
    OBVIOUS
<1>5. To' = t /\ From' = g
    BY <1>2, <1>4 DEF To, From
<1>6. \A h \in Forges : \A q \in DOMAIN items[h] :
          q \notin touched'[h] => items'[h][q] = items[h][q] /\ q \notin touched[h]
    BY <1>1, <1>3
<1>7. \A h \in Forges : touched[h] \subseteq touched'[h]
    BY <1>1, <1>3
<1>8. StillOK'
    <2>1. ASSUME NEW b \in run.batch
          PROVE  /\ b.ref \in run.listed
                 /\ b.ref \notin touched'[g] => b.body = items'[g][b.ref].body /\ b.state = Shown(items'[g][b.ref])
        <3>1. g \in Forges /\ b.ref \in DOMAIN items[g] /\ b.ref \in run.listed
              /\ (b.ref \notin touched[g] => b.body = items[g][b.ref].body /\ b.state = Shown(items[g][b.ref]))
            BY <1>1, <1>4, InFlight DEF RunOK, StillOK
        <3> QED BY <1>6, <3>1
    <2> QED BY <1>2, <1>5, <2>1 DEF StillOK
<1>9. InHandOK'
    <2>1. PICK ref : ref = run.item.ref
        OBVIOUS
    <2>2. ASSUME NEW s \in run.to
          PROVE  /\ ref \in run.listed
                 /\ Level(t, s, ref)' \/ s \in touched'[t] \/ ref \in touched'[g]
                 /\ ref \notin touched'[g] /\ items'[g][ref].of = {} =>
                        items'[t][s].body = Render(items'[g][ref].body, OriginOf(g, ref))
        <3>1. /\ g \in Forges /\ t \in Forges /\ Other(t) = g /\ Other(g) = t
              /\ s \in DOMAIN items[t] /\ ref \in DOMAIN items[g] /\ ref \in Counterparts(t, s)
            BY <1>1, <1>4, <2>1, InFlight DEF RunOK, HandOK
        <3>2. ref \in run.listed /\ (Level(t, s, ref) \/ s \in touched[t] \/ ref \in touched[g])
            BY <1>1, <1>4, <2>1 DEF InHandOK
        <3>3. ref \notin touched[g] /\ items[g][ref].of = {} =>
                  items[t][s].body = Render(items[g][ref].body, OriginOf(g, ref))
            BY <1>1, <1>4, <2>1 DEF InHandOK
        <3>4. ASSUME ref \notin touched'[g], items'[g][ref].of = {}
              PROVE  items'[t][s].body = Render(items'[g][ref].body, OriginOf(g, ref))
            <4>1. items'[g][ref] = items[g][ref] /\ ref \notin touched[g] /\ items[g][ref].of = {}
                BY <1>6, <3>1, <3>4
            <4>2. items[t][s].of = {ref}
                BY <3>1, <4>1 DEF Counterparts
            <4>3. items'[t][s].body = items[t][s].body
                BY <1>1, <1>3, <3>1, <4>2
            <4> QED BY <3>3, <4>1, <4>3
        <3>5. Level(t, s, ref)' \/ s \in touched'[t] \/ ref \in touched'[g]
            <4>1. ASSUME s \notin touched'[t], ref \notin touched'[g] PROVE Level(t, s, ref)'
                <5>1. items'[t][s] = items[t][s] /\ items'[g][ref] = items[g][ref]
                      /\ Level(t, s, ref)
                    BY <1>6, <3>1, <3>2, <4>1
                <5> QED BY <3>1, <5>1, LevelStill
            <4> QED BY <4>1
        <3> QED BY <3>2, <3>4, <3>5
    <2> QED BY <1>2, <1>5, <2>1, <2>2 DEF InHandOK
<1>10. \A h \in Forges : Pending(h) \subseteq Pending(h)'
    BY <1>2, <1>4, <1>5, <1>7 DEF Pending
<1>11. r \in Pending(f)'
    BY <1>3 DEF Pending
<1>12. Grows(items')
    BY <1>1, <1>2, WithGrows
<1>13. r \in DOMAIN items[f] => item.body = items[f][r].body \/ items[f][r].of \subseteq Pending(Other(f))'
    OBVIOUS
<1>14. Meet'
    BY <1>1, <1>2, <1>10, <1>11, <1>12, <1>13, MeetAfter
<1> QED BY <1>8, <1>9, <1>14

LEMMA PeopleCarries ==
    ASSUME PlainText, CarryInv, People
    PROVE  StillOK' /\ InHandOK' /\ Meet'
<1>1. ItemsOK(items)
    BY DEF CarryInv, NotesInv, BothWaysInv
<1>2. ASSUME NEW f \in Forges, Open(f) PROVE StillOK' /\ InHandOK' /\ Meet'
    <2>1. PICK kind \in Kinds, body \in Bodies(f) : \E r \in NewRefs(f, kind) :
              Change(f, r, [of |-> {}, body |-> body, state |-> "open", notes |-> <<>>])
        BY <1>2 DEF Open
    <2>2. PICK r \in NewRefs(f, kind) :
              Change(f, r, [of |-> {}, body |-> body, state |-> "open", notes |-> <<>>])
        BY <2>1
    <2>3. PICK item : item = [of |-> {}, body |-> body, state |-> "open", notes |-> <<>>]
        OBVIOUS
    <2>4. r \notin DOMAIN items[f]
        BY <1>1, NewRef
    <2> QED BY <2>2, <2>3, <2>4, ChangeCarries DEF NotesStay
<1>3. ASSUME NEW f \in Forges, NEW r \in DOMAIN items[f],
             Rewrite(f, r) \/ Switch(f, r) \/ Merge(f, r) \/ Say(f, r)
      PROVE  StillOK' /\ InHandOK' /\ Meet'
    <2>1. PICK old : old = items[f][r] /\ Fields(old)
        BY <1>1 DEF ItemsOK, Sound
    <2>2. CASE Rewrite(f, r)
        <3>1. PICK item : /\ Change(f, r, item) /\ old.of = {}
                          /\ \E body : item = [old EXCEPT !.body = body]
            BY <2>1, <2>2 DEF Rewrite
        <3>2. item.of = old.of /\ item.notes = old.notes
            BY <2>1, <3>1 DEF Fields
        <3> QED BY <2>1, <3>1, <3>2, ChangeCarries DEF NotesStay
    <2>3. CASE Switch(f, r) \/ Merge(f, r)
        <3>1. PICK item : Change(f, r, item) /\ \E s : item = [old EXCEPT !.state = s]
            BY <2>1, <2>3 DEF Switch, Merge
        <3>2. item.of = old.of /\ item.notes = old.notes /\ item.body = old.body
            BY <2>1, <3>1 DEF Fields
        <3> QED BY <2>1, <3>1, <3>2, ChangeCarries DEF NotesStay
    <2>4. CASE Say(f, r)
        <3>1. PICK note : Change(f, r, [old EXCEPT !.notes = Append(old.notes, note)])
            BY <2>1, <2>4 DEF Say
        <3>2. PICK item : item = [old EXCEPT !.notes = Append(old.notes, note)]
            OBVIOUS
        <3>3. item.of = old.of /\ item.notes = Append(old.notes, note) /\ item.body = old.body
            BY <2>1, <3>2 DEF Fields
        <3>4. IsSeq(old.notes)
            BY <2>1 DEF CarryInv, NotesInv, NotesOK
        <3>5. NotesStay(f, r, item)
            BY <2>1, <3>3, <3>4, OneMore DEF NotesStay
        <3> QED BY <2>1, <3>1, <3>2, <3>3, <3>5, ChangeCarries
    <2> QED BY <1>3, <2>2, <2>3, <2>4
<1> QED BY <1>2, <1>3 DEF People

LEMMA StartRunCarries ==
    ASSUME CarryInv, NEW f \in Forges, StartRun(f)
    PROVE  StillOK' /\ InHandOK' /\ Meet'
<1>1. /\ run' = [NoRun EXCEPT !.from = f, !.listed = touched[f],
                              !.batch = {Snap(f, r) : r \in touched[f]}]
      /\ touched' = [touched EXCEPT ![f] = {}] /\ items' = items /\ run = NoRun
      /\ TouchedOK
    BY DEF StartRun, CarryInv, NotesInv, BothWaysInv
<1>2. /\ run'.listed = touched[f] /\ run'.to = {} /\ From' = f
      /\ run'.batch = {Snap(f, r) : r \in touched[f]}
    BY <1>1 DEF NoRun, From
<1>3. \A r : Snap(f, r).ref = r /\ Snap(f, r).body = items[f][r].body /\ Snap(f, r).state = Shown(items[f][r])
    BY DEF Snap
<1>4. StillOK'
    BY <1>1, <1>2, <1>3 DEF StillOK
<1>5. InHandOK'
    BY <1>2 DEF InHandOK
<1>6. ASSUME NEW g \in Forges PROVE Pending(g) \subseteq Pending(g)'
    <2>1. Pending(g) = touched[g]
        BY <1>1 DEF Pending, NoRun, From, Forges
    <2>2. CASE g = f
        <3>1. touched[g] \subseteq {b.ref : b \in run'.batch}
            BY <1>2, <1>3, <2>2
        <3> QED BY <1>2, <2>1, <2>2, <3>1 DEF Pending
    <2>3. CASE g # f
        BY <1>1, <2>1, <2>3 DEF Pending, TouchedOK
    <2> QED BY <2>2, <2>3
<1>7. Meet'
    BY <1>1, <1>6, MorePending DEF CarryInv
<1> QED BY <1>4, <1>5, <1>7

(* A run that ends has dealt with all it listed, and one that is killed leaves that
   to the next. *)
LEMMA EndCarries ==
    ASSUME CarryInv, FinishRun \/ Crash
    PROVE  StillOK' /\ InHandOK' /\ Meet'
<1>1. run' = NoRun /\ items' = items /\ RunOK /\ TouchedOK /\ StillOK /\ InHandOK
    BY DEF FinishRun, Crash, CarryInv, NotesInv, BothWaysInv
<1>2. run'.batch = {} /\ run'.to = {}
    BY <1>1 DEF NoRun
<1>3. ASSUME NEW g \in Forges PROVE Pending(g) \subseteq Pending(g)'
    <2>1. touched'[g] \subseteq Pending(g)'
        BY DEF Pending
    <2>2. CASE FinishRun
        BY <2>1, <2>2 DEF FinishRun, Pending
    <2>3. CASE Crash
        <3>1. touched' = [touched EXCEPT ![From] = touched[From] \cup run.listed]
            BY <2>3 DEF Crash
        <3>2. {b.ref : b \in run.batch} \cup {run.item.ref : r \in run.to} \subseteq run.listed
            BY <1>1 DEF StillOK, InHandOK
        <3>3. touched[g] \subseteq touched'[g] /\ (g = From => run.listed \subseteq touched'[g])
            BY <1>1, <3>1 DEF TouchedOK
        <3> QED BY <2>1, <3>2, <3>3 DEF Pending
    <2> QED BY <2>2, <2>3
<1>4. Meet'
    BY <1>1, <1>3, MorePending DEF CarryInv
<1> QED BY <1>2, <1>4 DEF StillOK, InHandOK

(* What Comments leaves behind has a copy of every comment that is no copy. *)
LEMMA AllCarried ==
    ASSUME NEW notes, IsSeq(notes), \A k \in DOMAIN notes : NoteOK(notes[k]),
           NEW was, IsSeq(was), \A j \in DOMAIN was : NoteOK(was[j]),
           \A j \in DOMAIN was : was[j].of # {} => \E i : was[j].of = {i},
           NEW shown, shown \subseteq DOMAIN was,
           NEW have, have = UNION {NoteID(was[j].body) : j \in shown}
    PROVE  Carried(notes, was \o Fresh(notes, have))
<1>1. PICK new : new = Fresh(notes, have)
    OBVIOUS
<1>2. IsSeq(new)
    BY <1>1, NewNotes
<1>3. PICK all : all = was \o new
    OBVIOUS
<1>4. Joins(all, was, new)
    BY <1>2, <1>3, Joined
<1>5. ASSUME NEW k \in DOMAIN notes, notes[k].of = {}
      PROVE  \E j \in DOMAIN all : all[j].of = {k}
    <2>1. CASE k \in have
        <3>1. PICK j \in DOMAIN was : k \in NoteID(was[j].body)
            BY <2>1
        <3>2. was[j].of = {k}
            BY <3>1 DEF NoteOK
        <3> QED BY <1>4, <3>2 DEF Joins
    <2>2. CASE k \notin have
        <3>1. k \in Missing(notes, have)
            BY <1>5, <2>2 DEF Missing, NoteOK
        <3>2. HasCopy(new, k)
            BY <1>1, <3>1, FreshCovers
        <3>3. PICK i \in DOMAIN new : new[i].of = {k}
            BY <3>2 DEF HasCopy
        <3>4. Among(new[i], was \o new)
            BY <1>2, <3>3, JoinCovers
        <3> QED BY <1>3, <3>3, <3>4 DEF Among
    <2> QED BY <2>1, <2>2
<1> QED BY <1>1, <1>3, <1>5 DEF Carried

LEMMA CommentsCarries ==
    ASSUME CarryInv, Comments
    PROVE  StillOK' /\ InHandOK' /\ Meet'
<1>1. PICK r \in run.to : \E notes, have, at :
          /\ notes = items[From][run.item.ref].notes
          /\ have = UNION {NoteID(items[To][r].notes[k].body) : k \in Listed(To, r)}
          /\ at = At([k \in DOMAIN notes |-> [of |-> {k}, body |-> RenderComment(notes[k].body, k)]],
                     Missing(notes, have))
          /\ items' = With(To, r, [items[To][r] EXCEPT !.notes = items[To][r].notes \o InOrder(at)])
          /\ touched' = IF at = <<>> THEN touched ELSE Touch(To, r)
          /\ run' = [run EXCEPT !.item = NoItem, !.to = {}]
    BY DEF Comments
<1>2a. PICK notes, have, at :
          /\ notes = items[From][run.item.ref].notes
          /\ have = UNION {NoteID(items[To][r].notes[k].body) : k \in Listed(To, r)}
          /\ at = At([k \in DOMAIN notes |-> [of |-> {k}, body |-> RenderComment(notes[k].body, k)]],
                     Missing(notes, have))
          /\ items' = With(To, r, [items[To][r] EXCEPT !.notes = items[To][r].notes \o InOrder(at)])
          /\ touched' = IF at = <<>> THEN touched ELSE Touch(To, r)
          /\ run' = [run EXCEPT !.item = NoItem, !.to = {}]
    BY <1>1
<1>2b. PICK new : new = InOrder(at)
    OBVIOUS
<1>2. /\ notes = items[From][run.item.ref].notes
      /\ have = UNION {NoteID(items[To][r].notes[k].body) : k \in Listed(To, r)}
      /\ new = Fresh(notes, have)
      /\ items' = With(To, r, [items[To][r] EXCEPT !.notes = items[To][r].notes \o new])
      /\ touched' = Touch(To, r) \/ (touched' = touched /\ new = InOrder(<<>>))
      /\ run' = [run EXCEPT !.item = NoItem, !.to = {}]
    <2>1. new = Fresh(notes, have)
        BY <1>2a, <1>2b DEF Fresh
    <2>2. CASE at = <<>>
        BY <1>2a, <1>2b, <2>1, <2>2
    <2>3. CASE at # <<>>
        BY <1>2a, <1>2b, <2>1, <2>3
    <2> QED BY <2>2, <2>3
<1>3. /\ From \in Forges /\ To \in Forges /\ Other(To) = From /\ Other(From) = To /\ From # To
      /\ run.from # "nowhere" /\ ItemsOK(items) /\ BothWaysInv /\ TouchedOK /\ RunOK /\ StillOK /\ InHandOK /\ Meet
    BY <1>1, InFlight, Forge DEF CarryInv, NotesInv, BothWaysInv
<1>4. PICK t, g, ref : t = To /\ g = From /\ ref = run.item.ref
    OBVIOUS
<1>5. /\ t \in Forges /\ g \in Forges /\ Other(t) = g /\ Other(g) = t
      /\ r \in DOMAIN items[t] /\ ref \in DOMAIN items[g] /\ ref \in Counterparts(t, r)
      /\ NotesOK(g, ref) /\ NotesOK(t, r)
      /\ \A f \in Forges : f = t \/ f = g
    <2>1. r \in DOMAIN items[t] /\ ref \in DOMAIN items[g] /\ ref \in Counterparts(t, r)
        BY <1>1, <1>3, <1>4 DEF RunOK, CarryInv, NotesInv, HandOK
    <2>2. NotesOK(g, ref) /\ NotesOK(t, r)
        BY <1>3, <1>4, <2>1 DEF CarryInv, NotesInv
    <2>3. \A f \in Forges : f = t \/ f = g
        BY <1>3, <1>4 DEF Forges, Other
    <2> QED BY <1>3, <1>4, <2>1, <2>2, <2>3
<1>6. PICK old : old = items[t][r] /\ Fields(old)
    BY <1>3, <1>5 DEF ItemsOK, Sound
<1>7. PICK was : was = old.notes
    OBVIOUS
<1>7a. PICK shown : shown = Listed(t, r) /\ shown \subseteq DOMAIN was
    BY <1>6, <1>7 DEF Listed
<1>8. IsSeq(was) /\ \A j \in DOMAIN was : NoteOK(was[j]) /\ (was[j].of # {} => \E i : was[j].of = {i})
    <2>1. IsSeq(was) /\ \A j \in DOMAIN was : NoteOK(was[j]) /\ (was[j].of # {} => Crossed(t, r, was[j]))
        BY <1>5, <1>6, <1>7 DEF NotesOK
    <2> QED BY <2>1 DEF Crossed
<1>9. IsSeq(notes) /\ \A k \in DOMAIN notes : NoteOK(notes[k])
    BY <1>2, <1>4, <1>5 DEF NotesOK
<1>10. IsSeq(new) /\ new = Fresh(notes, have)
    <2>1. IsSeq(Fresh(notes, have))
        BY <1>9, NewNotes
    <2> QED BY <1>2, <2>1
<1>11. PICK item : item = [old EXCEPT !.notes = was \o new]
    OBVIOUS
<1>12. item.of = old.of /\ item.notes = was \o new /\ item.body = old.body /\ item.state = old.state
    BY <1>6, <1>11 DEF Fields
<1>13. items' = With(t, r, item) /\ items'[g] = items[g] /\ items'[t][r] = item
    <2>1. items' = With(t, r, [old EXCEPT !.notes = was \o new])
        BY <1>2, <1>4, <1>6, <1>7
    <2>2. items' = With(t, r, item)
        BY <1>11, <2>1
    <2> QED BY <1>3, <1>5, <2>2, WithFacts
<1>14. Grows(items')
    BY <1>3, <1>5, <1>6, <1>12, <1>13, WithGrows
<1>15. NotesStay(t, r, item)
    <2>1. Joins(was \o new, was, new)
        BY <1>8, <1>10, Joined
    <2> QED BY <1>6, <1>7, <1>12, <2>1 DEF NotesStay, Joins
<1>16. Carried(notes, item.notes)
    <2>1. have = UNION {NoteID(was[j].body) : j \in shown}
        BY <1>2, <1>4, <1>6, <1>7, <1>7a
    <2>2. Carried(notes, was \o Fresh(notes, have))
        BY <1>7a, <1>8, <1>9, <2>1, AllCarried
    <2> QED BY <1>10, <1>12, <2>2
<1>17. /\ run'.from = run.from /\ run'.listed = run.listed /\ run'.batch = run.batch
       /\ run'.to = {}
    BY <1>2, <1>3 DEF RunOK
<1>18. To' = t /\ From' = g
    BY <1>4, <1>17 DEF To, From
<1>19. touched'[g] = touched[g] /\ touched[t] \subseteq touched'[t]
       /\ (r \in touched'[t] \/ items' = items)
    <2>1. touched' = touched \/ touched' = Touch(t, r)
        BY <1>2, <1>4
    <2>2. Touch(t, r)[g] = touched[g] /\ touched[t] \subseteq Touch(t, r)[t] /\ r \in Touch(t, r)[t]
        BY <1>3, <1>5, TouchFacts
    <2>3. touched' # Touch(t, r) => items' = items
        <3>1. SUFFICES ASSUME new = InOrder(<<>>) PROVE items' = items
            BY <1>2, <1>4
        <3>2. new = <<>>
            BY <3>1 DEF InOrder, Seqs!Reverse
        <3>3. item = old
            <4>1. was \o <<>> = was
                BY <1>8 DEF IsSeq
            <4> QED BY <1>6, <1>7, <1>11, <3>2, <4>1 DEF Fields
        <3>4. items[t] = [q \in DOMAIN items[t] |-> items[t][q]] /\ items = [f \in Forges |-> items[f]]
            BY <1>3, <1>5 DEF ItemsOK, Sound
        <3> QED BY <1>5, <1>6, <1>13, <3>3, <3>4 DEF With
    <2> QED BY <2>1, <2>2, <2>3
<1>20. StillOK'
    BY <1>3, <1>4, <1>13, <1>17, <1>18, <1>19 DEF StillOK
<1>21. InHandOK'
    BY <1>17 DEF InHandOK
<1>22. r \in Pending(t)' \/ items' = items
    BY <1>19 DEF Pending
<1>23. ASSUME NEW f \in Forges, NEW q, q \in Pending(f)
       PROVE  q \in Pending(f)' \/ (f = g /\ q = ref)
    BY <1>3, <1>4, <1>5, <1>17, <1>18, <1>19, <1>23 DEF Pending
<1>24. Level(t, r, ref)' \/ r \in Pending(t)' \/ ref \in Pending(g)'
    <2>1. CASE r \in touched'[t] \/ ref \in touched'[g]
        BY <2>1 DEF Pending
    <2>2. CASE r \notin touched'[t] /\ ref \notin touched'[g]
        <3>1. Level(t, r, ref) \/ r \in touched[t] \/ ref \in touched[g]
            BY <1>1, <1>3, <1>4 DEF InHandOK
        <3>2. Level(t, r, ref) /\ items' = items
            BY <1>19, <2>2, <3>1
        <3> QED BY <1>5, <3>2, LevelStill
    <2> QED BY <2>1, <2>2
<1>25. ASSUME ref \notin Pending(g)' PROVE Meets(g, ref, r)'
    <2>1. ref \notin touched[g]
        BY <1>19, <1>25 DEF Pending
    <2>2. r \in Counterparts(g, ref)'
        <3>1. r \in Counterparts(g, ref)
            BY <1>5 DEF Counterparts
        <3> QED BY <1>5, <1>14, <3>1, StillCounterparts
    <2>3. items[g][ref].of = {} => old.body = Render(items[g][ref].body, OriginOf(g, ref))
        BY <1>1, <1>3, <1>4, <1>6, <2>1 DEF InHandOK
    <2>4. Level(g, ref, r)' \/ r \in Pending(t)'
        <3>1. Level(t, r, ref)' => Level(g, ref, r)'
            BY <1>5 DEF Level, MergedThere, Forges, Other
        <3> QED BY <1>24, <1>25, <3>1
    <2> QED BY <1>2, <1>4, <1>5, <1>12, <1>13, <1>16, <2>2, <2>3, <2>4 DEF Meets
<1>26. ASSUME NEW f \in Forges, NEW q \in DOMAIN items'[f], q \notin Pending(f)'
       PROVE  \E s : Meets(f, q, s)'
    <2>1. q \in DOMAIN items[f]
        BY <1>5, <1>3, <1>4, <1>13, <1>26, WithFacts
    <2>2. CASE q \in Pending(f)
        BY <1>23, <1>25, <1>26, <2>2
    <2>3. CASE q \notin Pending(f)
        <3>1. PICK s : Meets(f, q, s)
            BY <1>3, <2>1, <2>3 DEF Meet
        <3>2. ASSUME Other(f) = g, s = ref PROVE f = t /\ q = r
            <4>1. f = t
                BY <1>5, <3>2
            <4>2. ref \in Counterparts(t, q)
                BY <3>1, <3>2, <4>1 DEF Meets
            <4>3. q \in Counterparts(g, ref) /\ r \in Counterparts(g, ref)
                BY <1>5, <2>1, <4>1, <4>2 DEF Counterparts
            <4> QED BY <1>3, <1>5, <4>1, <4>3, OneCounterpart
        <3>3. CASE r \in Pending(t)'
            <4>1. s \in Pending(Other(f)) => s \in Pending(Other(f))'
                BY <1>5, <1>23, <1>26, <3>2, <3>3
            <4>2. Meets(f, q, s)'
                BY <1>3, <1>5, <1>6, <1>12, <1>13, <1>14, <1>15, <1>26, <2>1, <3>1, <3>3, <4>1, MeetsStill
            <4> QED BY <4>2
        <3>4. CASE items' = items
            <4>1. s \in Pending(Other(f)) => s \in Pending(Other(f))' \/ (f = t /\ q = r /\ s = ref)
                <5>1. ASSUME s \in Pending(Other(f)), s \notin Pending(Other(f))'
                      PROVE  f = t /\ q = r /\ s = ref
                    <6>1. Other(f) = g /\ s = ref
                        BY <1>23, <5>1, Forge
                    <6> QED BY <3>2, <6>1
                <5> QED BY <5>1
            <4>2. Level(f, q, s)' \/ s \in Pending(Other(f))'
                <5>1. CASE f = t /\ q = r /\ s = ref
                    BY <1>5, <1>24, <1>26, <5>1
                <5>2. CASE ~(f = t /\ q = r /\ s = ref)
                    <6>1. Level(f, q, s) => Level(f, q, s)'
                        BY <3>4, LevelStill
                    <6> QED BY <3>1, <4>1, <5>2, <6>1 DEF Meets
                <5> QED BY <5>1, <5>2
            <4>3. Meets(f, q, s)'
                BY <3>1, <3>4, <4>2 DEF Meets, Counterparts
            <4> QED BY <4>3
        <3> QED BY <1>22, <3>3, <3>4
    <2> QED BY <2>2, <2>3
<1>27. Meet'
    BY <1>26 DEF Meet
<1> QED BY <1>20, <1>21, <1>27

LEMMA NextCarries ==
    ASSUME PlainText, CarryInv, [Next]_vars
    PROVE  CarryInv'
<1>1. NotesInv'
    BY NextNotes DEF CarryInv
<1>2. CASE People
    BY <1>1, <1>2, PeopleCarries DEF CarryInv
<1>3. CASE Crash \/ FinishRun
    BY <1>1, <1>3, EndCarries DEF CarryInv
<1>4. CASE Comments
    BY <1>1, <1>4, CommentsCarries DEF CarryInv
<1>5. ASSUME NEW b \in run.batch, Reflect(b) \/ Create(b) \/ Update(b) \/ Refused(b)
      PROVE  CarryInv'
    BY <1>1, <1>5, ReflectCarries, CreateCarries, UpdateCarries, EndCarries DEF Refused, CarryInv
<1>6. ASSUME NEW f \in Forges, StartRun(f) PROVE CarryInv'
    BY <1>1, <1>6, StartRunCarries DEF CarryInv
<1>7. CASE UNCHANGED vars
    <2>1. items' = items /\ touched' = touched /\ run' = run
        BY <1>7 DEF vars
    <2>2. StillOK' /\ InHandOK'
        BY <2>1 DEF CarryInv, StillOK, InHandOK, Level, MergedThere, From, To
    <2>3. Meet'
        BY <2>1, MorePending DEF CarryInv, Pending, From
    <2> QED BY <1>1, <2>2, <2>3 DEF CarryInv
<1> QED BY <1>2, <1>3, <1>4, <1>5, <1>6, <1>7 DEF Next, Step

(* Whatever people do to either side and wherever runs are killed, all that no run has
   left to deal with is the same on both: what was rewritten or said is not lost, and
   of two states set on both sides one is still to win. *)
THEOREM SidesAlwaysMeet == ASSUME PlainText PROVE Spec => []SidesMeet
<1>1. ASSUME Init PROVE CarryInv
    <2>1. NotesInv
        BY <1>1, InitNotes
    <2>2. run.batch = {} /\ run.to = {} /\ \A f \in Forges : DOMAIN items[f] = {}
        BY <1>1 DEF Init, NoRun
    <2> QED BY <2>1, <2>2 DEF CarryInv, StillOK, InHandOK, Meet
<1>2. CarryInv /\ [Next]_vars => CarryInv'
    BY NextCarries
<1>3. CarryInv => SidesMeet
    BY MeetIsSidesMeet DEF CarryInv
<1> QED BY <1>1, <1>2, <1>3, PTL DEF Spec

-----------------------------------------------------------------------------
(* What is at the end of a copy. *)

(* The last of what is picked is the end of the sequence, if that is picked. *)
LEMMA AtEnd ==
    ASSUME NEW s, IsSeq(s), NEW K \in SUBSET DOMAIN s, Len(s) \in K
    PROVE  Len(At(s, K)) > 0 /\ At(s, K)[Len(At(s, K))] = s[Len(s)]
<1>1. PICK n \in Nat : n = Len(s) /\ DOMAIN s = 1..n
    BY DEF IsSeq
<1>2. IsFiniteSet(K) /\ Cardinality(K) \in Nat
      /\ \A d : Cardinality(Upto(K, d)) \in Nat /\ IsFiniteSet(Upto(K, d))
    BY <1>1, UptoFacts
<1>3. Upto(K, n) = K
    BY <1>1 DEF Upto
<1>4. Cardinality(K) # 0
    BY <1>1, <1>2, FS_EmptySet
<1>5. PICK c \in Nat : c = Cardinality(K) /\ c > 0 /\ c \in 1..c
    BY <1>2, <1>4
<1>6. ASSUME NEW d \in K, Cardinality(Upto(K, d)) = c PROVE d = n
    <2>1. Upto(K, d) \subseteq K
        BY DEF Upto
    <2>2. Upto(K, d) = K
        BY <1>2, <1>5, <1>6, <2>1, FS_Subset
    <2>3. n <= d /\ d \in 1..n
        BY <1>1, <2>2 DEF Upto
    <2> QED BY <2>3
<1>7. (CHOOSE d \in K : Cardinality(Upto(K, d)) = c) = n
    BY <1>1, <1>3, <1>5, <1>6
<1>8. \A i \in 1..c : At(s, K)[i] = s[CHOOSE d \in K : Cardinality(Upto(K, d)) = i]
    BY <1>5 DEF At, Upto
<1>9. Len(At(s, K)) = c
    BY <1>5, AtType
<1> QED BY <1>1, <1>5, <1>7, <1>8, <1>9

(* What stands before the end of a sequence that something is put around. *)
LEMMA BeforeEnd ==
    ASSUME NEW a, NEW s, IsSeq(s), Len(s) > 0, NEW z
    PROVE  LET t == <<a>> \o s \o <<z>> IN t[Len(t) - 1] = s[Len(s)]
<1>1. PICK S : s \in Seq(S)
    BY DEF IsSeq
<1>2. PICK T : T = S \cup {a, z}
    OBVIOUS
<1>3. s \in Seq(T) /\ <<a>> \in Seq(T) /\ <<z>> \in Seq(T) /\ Len(<<a>>) = 1 /\ Len(<<z>>) = 1
    BY <1>1, <1>2
<1>4. PICK m \in Nat : m = Len(s) /\ m > 0
    BY <1>1
<1>5. PICK b : b = <<a>> \o s
    OBVIOUS
<1>6. b \in Seq(T) /\ Len(b) = m + 1 /\ b[m + 1] = s[m]
    BY <1>3, <1>4, <1>5
<1>7. b \o <<z>> \in Seq(T) /\ Len(b \o <<z>>) = m + 2 /\ (b \o <<z>>)[m + 1] = b[m + 1]
    BY <1>3, <1>4, <1>6
<1> QED BY <1>4, <1>5, <1>6, <1>7

(* People's bodies end with text of some revision. *)
Date(body) == body[Len(body)].rev

Ends(body) ==
    /\ IsSeq(body) /\ Len(body) > 0
    /\ body[Len(body)].is = "text" /\ Date(body) \in 0..MaxActs

LEMMA TextStays ==
    ASSUME NEW body, Ends(body), NEW o
    PROVE  LET t == Render(body, o) IN t[Len(t) - 1].rev = Date(body)
<1> DEFINE K == {k \in DOMAIN body :
                    k \notin MarkersIn(body) /\ ~(k - 1 \in MarkersIn(body) /\ body[k - 1].is = "left")}
<1>1. PICK n \in Nat : n = Len(body) /\ DOMAIN body = 1..n /\ n > 0
    BY DEF Ends, IsSeq
<1>2. body[n].is = "text"
    BY <1>1 DEF Ends
<1>3. n \notin MarkersIn(body)
    BY <1>2 DEF MarkersIn
<1>4. ~(n - 1 \in MarkersIn(body) /\ body[n - 1].is = "left")
    <2>1. (n - 1) + 1 = n
        OBVIOUS
    <2> QED BY <1>2, <2>1 DEF MarkersIn
<1>5. Len(body) \in K /\ K \in SUBSET DOMAIN body
    BY <1>1, <1>3, <1>4
<1>6. stripMarkers(body) = At(body, K)
    BY DEF stripMarkers
<1> HIDE DEF K
<1>7. PICK s : s = stripMarkers(body) /\ IsSeq(s) /\ Len(s) > 0 /\ s[Len(s)] = body[Len(body)]
    BY <1>5, <1>6, AtEnd, Stripped DEF Ends
<1>8. PICK t : t = <<Header>> \o s \o <<Marker(o)>>
    OBVIOUS
<1>9. t[Len(t) - 1] = s[Len(s)]
    BY <1>7, <1>8, BeforeEnd
<1>10. t = Render(body, o)
    BY <1>7, <1>8 DEF Render
<1> QED BY <1>7, <1>9, <1>10 DEF Date

-----------------------------------------------------------------------------
(* Copies go forward only. *)

(* People's text is older than the next act, and a copy's no newer than its
   original's. *)
Dated == \A f \in Forges : \A r \in DOMAIN items[f] :
    /\ Rev(items[f][r]) \in 0..MaxActs
    /\ items[f][r].of = {} => Ends(items[f][r].body) /\ Rev(items[f][r]) < acts
    /\ \A s \in items[f][r].of : Rev(items[f][r]) <= Rev(items[Other(f)][s])

(* What a run has listed of somebody's is no newer than it is now, and its copy no
   newer than what was listed. *)
Forward ==
    /\ \A b \in run.batch : items[From][b.ref].of = {} =>
           /\ Ends(b.body) /\ Date(b.body) <= Rev(items[From][b.ref])
           /\ \A s \in DOMAIN items[To] : items[To][s].of = {b.ref} => Rev(items[To][s]) <= Date(b.body)
    /\ \A b, c \in run.batch : b.ref = c.ref => b = c

TwinsInv == NotesInv /\ Dated /\ Forward

(* An item that may take the place of item r of forge f. *)
Follows(f, r, item) ==
    /\ Rev(item) \in 0..MaxActs
    /\ item.of = {} => Ends(item.body) /\ Rev(item) < acts'
    /\ \A s \in item.of : s \in DOMAIN items[Other(f)] /\ Rev(item) <= Rev(items[Other(f)][s])
    /\ r \in DOMAIN items[f] => item.of = items[f][r].of
    /\ r \in DOMAIN items[f] /\ item.of = {} => Rev(items[f][r]) <= Rev(item)

LEMMA DatedAfter ==
    ASSUME BothWaysInv, Dated, acts' \in {acts, acts + 1}, NEW f \in Forges, NEW r, NEW item,
           items' = With(f, r, item), Follows(f, r, item)
    PROVE  Dated'
<1>1. PICK g : g = Other(f) /\ g \in Forges /\ g # f /\ Other(g) = f /\ \A h \in Forges : h = f \/ h = g
    BY Forge DEF Forges, Other
<1>2. /\ items'[g] = items[g]
      /\ DOMAIN items'[f] = DOMAIN items[f] \cup {r}
      /\ items'[f][r] = item
      /\ \A s \in DOMAIN items[f] : s # r => items'[f][s] = items[f][s]
    BY <1>1, WithFacts DEF BothWaysInv
<1>3. Paired(items[f], items[g]) /\ Paired(items[g], items[f]) /\ acts \in Nat
    <2>1. Paired(items[f], items[g]) /\ Paired(items[g], items[f])
        BY <1>1 DEF BothWaysInv, ItemsOK
    <2>2. acts \in Nat
        BY BothWaysAssumption DEF BothWaysInv
    <2> QED BY <2>1, <2>2
<1>4. \A h \in Forges : \A q \in DOMAIN items[h] : Rev(items[h][q]) \in Nat
    BY BothWaysAssumption DEF Dated
<1>5. ASSUME NEW q \in DOMAIN items'[f]
      PROVE  /\ Rev(items'[f][q]) \in 0..MaxActs
             /\ items'[f][q].of = {} => Ends(items'[f][q].body) /\ Rev(items'[f][q]) < acts'
             /\ \A s \in items'[f][q].of : Rev(items'[f][q]) <= Rev(items'[g][s])
    <2>1. CASE q = r
        BY <1>1, <1>2, <2>1 DEF Follows
    <2>2. CASE q # r
        <3>1. q \in DOMAIN items[f] /\ items'[f][q] = items[f][q]
            BY <1>2, <2>2
        <3>2. acts <= acts'
            BY <1>3
        <3>3. PICK x : x = Rev(items[f][q]) /\ x \in Nat
            BY <1>4, <3>1
        <3>4. x < acts => x < acts'
            BY <1>3, <3>2, <3>3
        <3> QED BY <1>1, <1>2, <3>1, <3>3, <3>4 DEF Dated
    <2> QED BY <2>1, <2>2
<1>6. ASSUME NEW q \in DOMAIN items'[g]
      PROVE  /\ Rev(items'[g][q]) \in 0..MaxActs
             /\ items'[g][q].of = {} => Ends(items'[g][q].body) /\ Rev(items'[g][q]) < acts'
             /\ \A s \in items'[g][q].of : Rev(items'[g][q]) <= Rev(items'[f][s])
    <2>1. PICK it : it = items[g][q] /\ q \in DOMAIN items[g] /\ it = items'[g][q]
        BY <1>2
    <2>2. PICK x : x = Rev(it) /\ x \in Nat
        BY <1>1, <1>4, <2>1
    <2>3. x < acts => x < acts'
        BY <1>3, <2>2
    <2>4. ASSUME NEW s \in it.of PROVE Rev(it) <= Rev(items'[f][s])
        <3>1. s \in DOMAIN items[f] /\ items[f][s].of = {} /\ Rev(it) <= Rev(items[f][s])
            BY <1>1, <1>3, <2>1 DEF Paired, Dated
        <3>2. CASE s = r
            <4>1. Rev(items[f][s]) <= Rev(item) /\ Rev(item) \in Nat /\ Rev(items[f][s]) \in Nat
                BY <1>4, <3>1, <3>2, BothWaysAssumption DEF Follows
            <4> QED BY <1>2, <2>2, <3>1, <3>2, <4>1
        <3>3. CASE s # r
            BY <1>2, <3>1, <3>3
        <3> QED BY <3>2, <3>3
    <2>5. x \in 0..MaxActs /\ (it.of = {} => Ends(it.body) /\ x < acts)
        BY <1>1, <2>1, <2>2 DEF Dated
    <2> QED BY <2>1, <2>2, <2>3, <2>4, <2>5
<1>7. ASSUME NEW h \in Forges, NEW q \in DOMAIN items'[h]
      PROVE  /\ Rev(items'[h][q]) \in 0..MaxActs
             /\ items'[h][q].of = {} => Ends(items'[h][q].body) /\ Rev(items'[h][q]) < acts'
             /\ \A s \in items'[h][q].of : Rev(items'[h][q]) <= Rev(items'[Other(h)][s])
    BY <1>1, <1>5, <1>6
<1> QED BY <1>7 DEF Dated

LEMMA ForwardAfter ==
    ASSUME BothWaysInv, Dated, Forward, NEW f \in Forges, NEW r, NEW item,
           items' = With(f, r, item), Follows(f, r, item),
           run'.from = run.from, run'.batch \subseteq run.batch,
           \A b \in run'.batch : f = To /\ item.of = {b.ref} /\ items[From][b.ref].of = {}
               => Rev(item) <= Date(b.body)
    PROVE  Forward'
<1>1. PICK t, g : t = To /\ g = From /\ To' = t /\ From' = g
    BY DEF To, From
<1>2. \A b, c \in run'.batch : b.ref = c.ref => b = c
    BY DEF Forward
<1>3. ASSUME NEW b \in run'.batch, items'[g][b.ref].of = {}
      PROVE  /\ Ends(b.body) /\ Date(b.body) <= Rev(items'[g][b.ref])
             /\ \A s \in DOMAIN items'[t] : items'[t][s].of = {b.ref} => Rev(items'[t][s]) <= Date(b.body)
    <2>1. b \in run.batch
        OBVIOUS
    <2>2. /\ g \in Forges /\ t \in Forges /\ Other(t) = g /\ Other(g) = t /\ g # t
          /\ b.ref \in DOMAIN items[g]
        BY <1>1, <2>1, InFlight, Forge DEF BothWaysInv, RunOK
    <2>3. /\ items'[Other(f)] = items[Other(f)]
          /\ DOMAIN items'[f] = DOMAIN items[f] \cup {r}
          /\ items'[f][r] = item
          /\ \A s \in DOMAIN items[f] : s # r => items'[f][s] = items[f][s]
        BY WithFacts DEF BothWaysInv
    <2>4. f = t \/ f = g
        BY <2>2 DEF Forges, Other
    <2>5. Date(b.body) \in Nat /\ Rev(items[g][b.ref]) \in Nat
          /\ Ends(b.body) /\ Date(b.body) <= Rev(items[g][b.ref]) /\ items[g][b.ref].of = {}
          /\ \A s \in DOMAIN items[t] : items[t][s].of = {b.ref} => Rev(items[t][s]) <= Date(b.body)
        <3>1. items[g][b.ref].of = {}
            BY <1>3, <2>2, <2>3, <2>4 DEF Follows
        <3>2. Ends(b.body) /\ Date(b.body) <= Rev(items[g][b.ref])
              /\ \A s \in DOMAIN items[t] : items[t][s].of = {b.ref} => Rev(items[t][s]) <= Date(b.body)
            BY <1>1, <2>1, <3>1 DEF Forward
        <3>3. Date(b.body) \in Nat /\ Rev(items[g][b.ref]) \in Nat
            BY <2>2, <3>2, BothWaysAssumption DEF Ends, Dated
        <3> QED BY <3>1, <3>2, <3>3
    <2>6. Date(b.body) <= Rev(items'[g][b.ref])
        <3>1. CASE f = g /\ r = b.ref
            <4>1. item.of = {} /\ Rev(items[g][b.ref]) <= Rev(item) /\ Rev(item) \in Nat
                BY <1>3, <2>2, <2>3, <3>1, BothWaysAssumption DEF Follows
            <4> QED BY <2>3, <2>5, <3>1, <4>1
        <3>2. CASE ~(f = g /\ r = b.ref)
            BY <2>2, <2>3, <2>4, <2>5, <3>2
        <3> QED BY <3>1, <3>2
    <2>7. ASSUME NEW s \in DOMAIN items'[t], items'[t][s].of = {b.ref} PROVE Rev(items'[t][s]) <= Date(b.body)
        <3>1. CASE f = t /\ s = r
            BY <1>1, <2>3, <2>5, <2>7, <3>1
        <3>2. CASE ~(f = t /\ s = r)
            <4>1. s \in DOMAIN items[t] /\ items'[t][s] = items[t][s]
                BY <2>2, <2>3, <2>4, <3>2
            <4> QED BY <2>5, <2>7, <4>1
        <3> QED BY <3>1, <3>2
    <2> QED BY <2>5, <2>6, <2>7
<1>4. PICK batch : batch = run'.batch
    OBVIOUS
<1> QED BY <1>1, <1>2, <1>3 DEF Forward

-----------------------------------------------------------------------------
(* The things of the specification that is implemented. *)

LEMMA ThingsAre ==
    ASSUME NEW f \in Forges
    PROVE  /\ DOMAIN Things = Forges
           /\ DOMAIN Things[f] = DOMAIN items[f]
           /\ \A r \in DOMAIN items[f] : Things[f][r] = Thing(items[f][r])
BY DEF Things

LEMMA WithMaps ==
    ASSUME ItemsOK(items), NEW f \in Forges, NEW r, NEW item, items' = With(f, r, item)
    PROVE  Twin!Put(f, r, Thing(item))
<1>1. PICK g : g = Other(f) /\ g \in Forges /\ g # f /\ \A h \in Forges : h = f \/ h = g
    BY Forge DEF Forges, Other
<1>2. /\ items'[g] = items[g]
      /\ DOMAIN items'[f] = DOMAIN items[f] \cup {r}
      /\ items'[f][r] = item
      /\ \A s \in DOMAIN items[f] : s # r => items'[f][s] = items[f][s]
    BY <1>1, WithFacts
<1>3. PICK its : its = items'
    OBVIOUS
<1>4. Things' = [h \in Forges |-> [q \in DOMAIN its[h] |-> Thing(its[h][q])]]
    BY <1>3 DEF Things
<1>5. PICK new : new = [q \in DOMAIN items[f] \cup {r} |-> IF q = r THEN Thing(item) ELSE Thing(items[f][q])]
    OBVIOUS
<1>6. [q \in DOMAIN its[f] |-> Thing(its[f][q])] = new
    <2>1. \A q \in DOMAIN items[f] \cup {r} :
              Thing(its[f][q]) = IF q = r THEN Thing(item) ELSE Thing(items[f][q])
        BY <1>2, <1>3
    <2>2. DOMAIN its[f] = DOMAIN items[f] \cup {r}
        BY <1>2, <1>3
    <2> QED BY <1>5, <2>1, <2>2
<1>7. [q \in DOMAIN its[g] |-> Thing(its[g][q])] = Things[g]
    BY <1>1, <1>2, <1>3 DEF Things
<1>8. new = [q \in DOMAIN Things[f] \cup {r} |-> IF q = r THEN Thing(item) ELSE Things[f][q]]
    <2>1. DOMAIN Things[f] = DOMAIN items[f] /\ \A q \in DOMAIN items[f] : Things[f][q] = Thing(items[f][q])
        BY ThingsAre
    <2> QED BY <1>5, <2>1
<1>9. Things' = [Things EXCEPT ![f] = new]
    <2>1. Things = [h \in Forges |-> Things[h]]
        BY DEF Things
    <2>2. \A h \in Forges : Things'[h] = IF h = f THEN new ELSE Things[h]
        BY <1>1, <1>4, <1>6, <1>7
    <2>3. Things' = [h \in Forges |-> Things'[h]]
        BY <1>4
    <2> QED BY <2>1, <2>2, <2>3
<1> QED BY <1>8, <1>9 DEF Twin!Put

LEMMA SameThings == UNCHANGED items => UNCHANGED Things
BY DEF Things

LEMMA SameAgain ==
    ASSUME ItemsOK(items), NEW f \in Forges, NEW r \in DOMAIN items[f],
           items' = With(f, r, items[f][r])
    PROVE  UNCHANGED Things
<1>1. items[f] = [q \in DOMAIN items[f] |-> items[f][q]] /\ items = [g \in Forges |-> items[g]]
    BY DEF ItemsOK, Sound
<1>2. [q \in DOMAIN items[f] \cup {r} |-> IF q = r THEN items[f][r] ELSE items[f][q]] = items[f]
    BY <1>1
<1> QED BY <1>1, <1>2, SameThings DEF With

LEMMA ThingIs ==
    ASSUME NEW item
    PROVE  Thing(item) = [of |-> item.of, rev |-> Rev(item), state |-> item.state,
                          notes |-> [k \in DOMAIN item.notes |-> item.notes[k].of]]
BY DEF Thing

LEMMA RevIs ==
    ASSUME NEW item
    PROVE  /\ item.of = {} => Rev(item) = Date(item.body)
           /\ item.of # {} => Rev(item) = item.body[Len(item.body) - 1].rev
           /\ \A other : other.of = item.of /\ other.body = item.body => Rev(other) = Rev(item)
BY DEF Rev, Date

LEMMA TwinOpens ==
    ASSUME NEW f \in Forges, NEW r \in Refs, Twin!Open(f, r)
    PROVE  Twin!Step
BY DEF Twin!Step, Twin!Forges, Forges

LEMMA TwinMoves ==
    ASSUME NEW f \in Forges, NEW r \in DOMAIN items[f],
           Twin!Rewrite(f, r) \/ Twin!Say(f, r) \/ Twin!Turn(f, r)
               \/ Twin!Make(f, r) \/ Twin!Refresh(f, r) \/ Twin!Hear(f, r)
    PROVE  Twin!Step
<1>1. r \in DOMAIN Things[f]
    BY ThingsAre
<1> QED BY <1>1 DEF Twin!Step, Twin!Forges, Forges

LEMMA BodiesEnd ==
    ASSUME acts \in 0..MaxActs, NEW f, NEW body \in Bodies(f)
    PROVE  Ends(body) /\ Date(body) = acts
<1> DEFINE text == [is |-> "text", rev |-> acts]
<1>1. text.is = "text" /\ text.rev = acts
    OBVIOUS
<1> HIDE DEF text
<1>2. CASE body = <<text>>
    <2>1. body \in Seq({text}) /\ Len(body) = 1 /\ body[1] = text
        BY <1>2
    <2> QED BY <1>1, <2>1 DEF Ends, Date, IsSeq
<1>3. ASSUME NEW q, body = <<q, Left(q), q, Right, text>> PROVE Ends(body) /\ Date(body) = acts
    <2>1. body \in Seq({Left(q), q, Right, text}) /\ Len(body) = 5 /\ body[5] = text
        BY <1>3
    <2> QED BY <1>1, <2>1 DEF Ends, Date, IsSeq
<1> QED BY <1>2, <1>3 DEF Bodies, text

(* What somebody changes is no copy, or keeps its body. *)
LEMMA ChangeTwins ==
    ASSUME BothWaysInv, Dated, Forward, NEW f \in Forges, NEW r, NEW item, Change(f, r, item),
           Follows(f, r, item), item.of # {} => r \in DOMAIN items[f] /\ Rev(item) = Rev(items[f][r])
    PROVE  Dated' /\ Forward' /\ Twin!Put(f, r, Thing(item))
<1>1. items' = With(f, r, item) /\ run' = run /\ acts' = acts + 1 /\ ItemsOK(items)
    BY DEF Change, BothWaysInv
<1>2. ASSUME NEW b \in run'.batch, f = To, item.of = {b.ref}, items[From][b.ref].of = {}
      PROVE  Rev(item) <= Date(b.body)
    <2>1. r \in DOMAIN items[f] /\ Rev(item) = Rev(items[f][r]) /\ items[f][r].of = {b.ref}
        BY <1>2 DEF Follows
    <2> QED BY <1>1, <1>2, <2>1 DEF Forward
<1>3. Dated'
    BY <1>1, DatedAfter
<1>4. Forward'
    BY <1>1, <1>2, ForwardAfter
<1> QED BY <1>1, <1>3, <1>4, WithMaps

(* An item that keeps its body follows what it was. *)
LEMMA KeepsBody ==
    ASSUME BothWaysInv, Dated, acts' \in {acts, acts + 1}, NEW f \in Forges, NEW r \in DOMAIN items[f],
           NEW item, item.of = items[f][r].of, item.body = items[f][r].body
    PROVE  Follows(f, r, item) /\ Rev(item) = Rev(items[f][r])
<1>1. PICK old : old = items[f][r]
    OBVIOUS
<1>2. PICK x : x = Rev(old) /\ x = Rev(item)
    BY <1>1, RevIs
<1>3. x \in 0..MaxActs /\ (old.of = {} => Ends(old.body) /\ x < acts)
      /\ \A s \in old.of : x <= Rev(items[Other(f)][s])
    BY <1>1, <1>2 DEF Dated
<1>4. \A s \in old.of : s \in DOMAIN items[Other(f)]
    BY <1>1 DEF BothWaysInv, ItemsOK, Paired
<1>5. x \in Nat /\ acts \in Nat /\ (x < acts => x < acts') /\ x <= x
    BY <1>3, BothWaysAssumption DEF BothWaysInv
<1> QED BY <1>1, <1>2, <1>3, <1>4, <1>5 DEF Follows

LEMMA OpenTwins ==
    ASSUME BothWaysInv, Dated, Forward, NEW f \in Forges, Open(f)
    PROVE  Dated' /\ Forward' /\ Twin!Step
<1>1. PICK kind \in Kinds, body \in Bodies(f) : \E r \in NewRefs(f, kind) :
          Change(f, r, [of |-> {}, body |-> body, state |-> "open", notes |-> <<>>])
    BY DEF Open
<1>2. PICK r \in NewRefs(f, kind) :
          Change(f, r, [of |-> {}, body |-> body, state |-> "open", notes |-> <<>>])
    BY <1>1
<1>3. PICK item : item = [of |-> {}, body |-> body, state |-> "open", notes |-> <<>>]
    OBVIOUS
<1>4. item.of = {} /\ item.body = body /\ item.state = "open" /\ item.notes = <<>>
    BY <1>3
<1>5. r \in Refs /\ r \notin DOMAIN items[f]
    BY NewRef DEF BothWaysInv
<1>6. /\ Change(f, r, item) /\ acts < MaxActs /\ acts' = acts + 1 /\ acts \in 0..MaxActs /\ acts \in Nat
    BY <1>2, <1>3, BothWaysAssumption DEF Change, BothWaysInv
<1>7. Ends(body) /\ Date(body) = acts /\ Rev(item) = acts
    BY <1>4, <1>6, BodiesEnd, RevIs
<1>8. Follows(f, r, item)
    BY <1>4, <1>5, <1>6, <1>7 DEF Follows
<1>9. Dated' /\ Forward' /\ Twin!Put(f, r, Thing(item))
    BY <1>4, <1>6, <1>8, ChangeTwins
<1>10. Thing(item) = [of |-> {}, rev |-> acts, state |-> "open", notes |-> <<>>]
    <2>1. Thing(item) = [of |-> {}, rev |-> acts, state |-> "open",
                         notes |-> [k \in DOMAIN item.notes |-> item.notes[k].of]]
        BY <1>4, <1>7, ThingIs
    <2>2. [k \in DOMAIN item.notes |-> item.notes[k].of] = <<>>
        BY <1>4
    <2> QED BY <2>1, <2>2
<1>11. r \notin DOMAIN Things[f]
    BY <1>5, ThingsAre
<1>12. Twin!Open(f, r)
    BY <1>6, <1>9, <1>10, <1>11 DEF Twin!Open
<1> QED BY <1>5, <1>9, <1>12, TwinOpens

LEMMA RewriteTwins ==
    ASSUME BothWaysInv, Dated, Forward, NEW f \in Forges, NEW r \in DOMAIN items[f], Rewrite(f, r)
    PROVE  Dated' /\ Forward' /\ Twin!Step
<1>1. PICK old : old = items[f][r] /\ Fields(old) /\ old.of = {}
    BY DEF BothWaysInv, ItemsOK, Sound, Rewrite
<1>2. PICK body \in Bodies(f) : Change(f, r, [old EXCEPT !.body = body])
    BY <1>1 DEF Rewrite
<1>3. PICK item : item = [old EXCEPT !.body = body]
    OBVIOUS
<1>4. item.of = {} /\ item.body = body /\ item.state = old.state /\ item.notes = old.notes
    BY <1>1, <1>3 DEF Fields
<1>5. Change(f, r, item) /\ acts < MaxActs /\ acts' = acts + 1 /\ acts \in 0..MaxActs /\ acts \in Nat
    BY <1>2, <1>3, BothWaysAssumption DEF Change, BothWaysInv
<1>6. Rev(item) = acts /\ Ends(body)
    BY <1>4, <1>5, BodiesEnd, RevIs
<1>7. Rev(old) \in Nat /\ Rev(old) < acts
    BY <1>1, BothWaysAssumption DEF Dated
<1>8. Follows(f, r, item)
    BY <1>1, <1>4, <1>5, <1>6, <1>7 DEF Follows
<1>9. Dated' /\ Forward' /\ Twin!Put(f, r, Thing(item))
    BY <1>4, <1>5, <1>8, ChangeTwins
<1>10. PICK thing : thing = Things[f][r] /\ thing = Thing(old)
    BY <1>1, ThingsAre
<1>11. Thing(item) = [thing EXCEPT !.rev = acts] /\ thing.of = {} /\ acts > thing.rev
    <2>1. PICK notes : notes = [k \in DOMAIN old.notes |-> old.notes[k].of]
        OBVIOUS
    <2>2. thing = [of |-> {}, rev |-> Rev(old), state |-> old.state, notes |-> notes]
        BY <1>1, <1>10, <2>1, ThingIs
    <2>3. Thing(item) = [of |-> {}, rev |-> acts, state |-> old.state, notes |-> notes]
        BY <1>4, <1>6, <2>1, ThingIs
    <2> QED BY <1>7, <2>2, <2>3
<1>12. Twin!Rewrite(f, r)
    BY <1>5, <1>9, <1>10, <1>11 DEF Twin!Rewrite
<1> QED BY <1>9, <1>12, TwinMoves

LEMMA SwitchTwins ==
    ASSUME BothWaysInv, Dated, Forward, NEW f \in Forges, NEW r \in DOMAIN items[f],
           Switch(f, r) \/ Merge(f, r)
    PROVE  Dated' /\ Forward' /\ Twin!Step
<1>0. Sound(f, items[f])
    BY DEF BothWaysInv, ItemsOK
<1>1. PICK old : old = items[f][r] /\ Fields(old)
    BY <1>0 DEF Sound
<1>2. PICK s \in States \cup {"merged"} :
          Change(f, r, [old EXCEPT !.state = s]) /\ old.state # "merged"
    BY <1>1 DEF Switch, Merge
<1>3. PICK item : item = [old EXCEPT !.state = s]
    OBVIOUS
<1>4. item.of = old.of /\ item.body = old.body /\ item.state = s /\ item.notes = old.notes
    BY <1>1, <1>3 DEF Fields
<1>5. Change(f, r, item) /\ acts' = acts + 1
    BY <1>2, <1>3 DEF Change
<1>6. Follows(f, r, item) /\ Rev(item) = Rev(old)
    BY <1>1, <1>4, <1>5, KeepsBody
<1>7. Dated' /\ Forward' /\ Twin!Put(f, r, Thing(item))
    BY <1>1, <1>5, <1>6, ChangeTwins
<1>8. Thing(item) = [Thing(old) EXCEPT !.state = s]
    <2>1. PICK notes : notes = [k \in DOMAIN old.notes |-> old.notes[k].of]
        OBVIOUS
    <2>2. Thing(old) = [of |-> old.of, rev |-> Rev(old), state |-> old.state, notes |-> notes]
        BY <2>1, ThingIs
    <2>3. Thing(item) = [of |-> old.of, rev |-> Rev(old), state |-> s, notes |-> notes]
        BY <1>4, <1>6, <2>1, ThingIs
    <2> QED BY <2>2, <2>3
<1>9. Things[f][r] = Thing(old)
    BY <1>1, ThingsAre
<1>10. Twin!Turn(f, r)
    <2>1. Thing(old).state = old.state
        BY ThingIs
    <2> QED BY <1>2, <1>7, <1>8, <1>9, <2>1 DEF Twin!Turn, Twin!States, States
<1> QED BY <1>7, <1>10, TwinMoves

LEMMA SayTwins ==
    ASSUME NotesInv, Dated, Forward, NEW f \in Forges, NEW r \in DOMAIN items[f], Say(f, r)
    PROVE  Dated' /\ Forward' /\ Twin!Step
<1>0. BothWaysInv
    BY DEF NotesInv
<1>1. PICK old : old = items[f][r] /\ Fields(old)
    BY <1>0 DEF BothWaysInv, ItemsOK, Sound
<1>2. PICK body \in Words(f, r) : Change(f, r, [old EXCEPT !.notes = Append(@, [of |-> {}, body |-> body])])
    BY <1>1 DEF Say
<1>3. PICK note : note = [of |-> {}, body |-> body]
    OBVIOUS
<1>4. PICK item : item = [old EXCEPT !.notes = Append(old.notes, note)]
    OBVIOUS
<1>5. item.of = old.of /\ item.body = old.body /\ item.state = old.state /\ item.notes = Append(old.notes, note)
    BY <1>1, <1>4 DEF Fields
<1>6. Change(f, r, item) /\ acts' = acts + 1
    BY <1>2, <1>3, <1>4 DEF Change
<1>7. Follows(f, r, item) /\ Rev(item) = Rev(old)
    BY <1>0, <1>1, <1>5, <1>6, KeepsBody
<1>8. Dated' /\ Forward' /\ Twin!Put(f, r, Thing(item))
    BY <1>0, <1>1, <1>6, <1>7, ChangeTwins
<1>9. PICK notes : notes = [k \in DOMAIN old.notes |-> old.notes[k].of]
    OBVIOUS
<1>10. [k \in DOMAIN item.notes |-> item.notes[k].of] = Append(notes, {})
    <2>1. PICK all : all = Append(old.notes, note) /\ IsSeq(old.notes)
        BY <1>1 DEF NotesInv, NotesOK
    <2>2. PICK S : old.notes \in Seq(S)
        BY <2>1 DEF IsSeq
    <2>3. PICK n \in Nat : n = Len(old.notes) /\ DOMAIN old.notes = 1..n
        BY <2>2
    <2>4. DOMAIN all = 1..(n + 1) /\ all[n + 1] = note /\ \A k \in 1..n : all[k] = old.notes[k]
        <3>1. PICK T : T = S \cup {note}
            OBVIOUS
        <3>2. old.notes \in Seq(T) /\ note \in T
            BY <2>2, <3>1
        <3> QED BY <2>1, <2>3, <3>2
    <2>5. PICK T : T = {notes[k] : k \in 1..n} \cup {{}}
        OBVIOUS
    <2>6. notes \in Seq(T) /\ Len(notes) = n /\ {} \in T
        <3>1. notes = [k \in 1..n |-> notes[k]] /\ \A k \in 1..n : notes[k] \in T
            BY <1>9, <2>3, <2>5
        <3>2. notes \in [1..n -> T]
            BY <3>1
        <3> QED BY <2>5, <3>2
    <2>7. PICK more : more = Append(notes, {})
        OBVIOUS
    <2>8. /\ DOMAIN more = 1..(n + 1) /\ more[n + 1] = {}
          /\ \A k \in 1..n : more[k] = notes[k]
          /\ more = [k \in DOMAIN more |-> more[k]]
        <3>1. more \in Seq(T) /\ Len(more) = n + 1 /\ more[n + 1] = {}
            BY <2>6, <2>7
        <3>2. \A k \in 1..n : more[k] = notes[k]
            BY <2>6, <2>7
        <3> QED BY <3>1, <3>2
    <2>9. \A k \in 1..(n + 1) : all[k].of = more[k]
        <3>1. \A k \in 1..n : all[k].of = more[k]
            BY <1>9, <2>3, <2>4, <2>8
        <3>2. all[n + 1].of = more[n + 1]
            <4>1. note.of = {}
                BY <1>3
            <4> QED BY <2>4, <2>8, <4>1
        <3>3. \A k \in 1..(n + 1) : k \in 1..n \/ k = n + 1
            OBVIOUS
        <3> QED BY <3>1, <3>2, <3>3
    <2>10. [k \in DOMAIN all |-> all[k].of] = more
        BY <2>4, <2>8, <2>9
    <2> QED BY <1>5, <2>1, <2>7, <2>10
<1>11. Thing(item) = [Thing(old) EXCEPT !.notes = Append(@, {})]
    <2>1. PICK thing : thing = Thing(old)
        OBVIOUS
    <2>2. thing = [of |-> old.of, rev |-> Rev(old), state |-> old.state, notes |-> notes]
        BY <1>9, <2>1, ThingIs
    <2>3. PICK more : more = Append(notes, {}) /\ more = Append(thing.notes, {})
        BY <2>2
    <2>4. Thing(item) = [of |-> old.of, rev |-> Rev(old), state |-> old.state, notes |-> more]
        BY <1>5, <1>7, <1>10, <2>3, ThingIs
    <2>5. Thing(item) = [thing EXCEPT !.notes = more]
        BY <2>2, <2>4
    <2> QED BY <2>1, <2>3, <2>5
<1>12. Things[f][r] = Thing(old)
    BY <1>1, ThingsAre
<1>13. Twin!Say(f, r)
    BY <1>8, <1>11, <1>12 DEF Twin!Say
<1> QED BY <1>8, <1>13, TwinMoves

LEMMA TwinOther == \A f \in Forges : Twin!Other(f) = Other(f)
BY DEF Twin!Other, Other

LEMMA QuietTwins ==
    ASSUME BothWaysInv, Dated, Forward,
           FinishRun \/ Crash \/ (\E f \in Forges : StartRun(f)) \/ UNCHANGED vars
    PROVE  Dated' /\ Forward' /\ UNCHANGED Things
<1>1. items' = items /\ acts' = acts
    BY DEF FinishRun, Crash, StartRun, vars
<1>2. Dated'
    BY <1>1 DEF Dated
<1>3. Forward'
    <2>1. CASE FinishRun \/ Crash
        <3>1. run'.batch = {}
            BY <2>1 DEF FinishRun, Crash, NoRun
        <3> QED BY <3>1 DEF Forward
    <2>2. CASE UNCHANGED vars
        BY <2>2 DEF vars, Forward, From, To
    <2>3. ASSUME NEW f \in Forges, StartRun(f) PROVE Forward'
        <3>1. run'.batch = {Snap(f, r) : r \in touched[f]} /\ From' = f /\ To' = Other(f)
            BY <2>3 DEF StartRun, NoRun, From, To
        <3>2. \A r : Snap(f, r).ref = r /\ Snap(f, r).body = items[f][r].body
            BY DEF Snap
        <3>3. touched[f] \subseteq DOMAIN items[f] /\ Paired(items[Other(f)], items[f]) /\ Other(f) \in Forges
              /\ Other(Other(f)) = f
            BY Forge DEF BothWaysInv, TouchedOK, ItemsOK
        <3>4. ASSUME NEW r \in touched[f], items[f][r].of = {}
              PROVE  /\ Ends(items[f][r].body) /\ Date(items[f][r].body) <= Rev(items[f][r])
                     /\ \A s \in DOMAIN items[Other(f)] : items[Other(f)][s].of = {r} =>
                            Rev(items[Other(f)][s]) <= Date(items[f][r].body)
            <4>1. Ends(items[f][r].body) /\ Date(items[f][r].body) = Rev(items[f][r])
                BY <3>3, <3>4, RevIs DEF Dated
            <4>2. \A s \in DOMAIN items[Other(f)] : items[Other(f)][s].of = {r} =>
                      Rev(items[Other(f)][s]) <= Rev(items[f][r])
                BY <3>3 DEF Dated
            <4>3. Rev(items[f][r]) <= Rev(items[f][r])
                BY <3>3, BothWaysAssumption DEF Dated
            <4> QED BY <4>1, <4>2, <4>3
        <3>5. \A b, c \in run'.batch : b.ref = c.ref => b = c
            BY <3>1, <3>2
        <3>6. PICK batch : batch = run'.batch
            OBVIOUS
        <3>7. ASSUME NEW b \in batch, items[f][b.ref].of = {}
              PROVE  /\ Ends(b.body) /\ Date(b.body) <= Rev(items[f][b.ref])
                     /\ \A s \in DOMAIN items[Other(f)] : items[Other(f)][s].of = {b.ref} =>
                            Rev(items[Other(f)][s]) <= Date(b.body)
            BY <3>1, <3>2, <3>4, <3>6, <3>7
        <3> QED BY <1>1, <3>1, <3>5, <3>6, <3>7 DEF Forward
    <2> QED BY <2>1, <2>2, <2>3
<1> QED BY <1>1, <1>2, <1>3, SameThings

(* A run writes one item, as it should be. *)
LEMMA RunTwins ==
    ASSUME BothWaysInv, Dated, Forward, NEW b \in run.batch, NEW r, NEW item, Begin(b, r),
           items' = With(To, r, item), acts' = acts, Follows(To, r, item),
           item.of = {b.ref} \/ (r \in DOMAIN items[To] /\ Rev(item) = Rev(items[To][r]))
    PROVE  Dated' /\ Forward' /\ Twin!Put(To, r, Thing(item))
<1>1. /\ To \in Forges /\ ItemsOK(items) /\ run'.from = run.from /\ run'.batch = run.batch \ {b}
      /\ acts' \in {acts, acts + 1}
    BY InFlight DEF BothWaysInv, Begin, RunOK
<1>2. ASSUME NEW c \in run'.batch, item.of = {c.ref}, items[From][c.ref].of = {}
      PROVE  Rev(item) <= Date(c.body)
    <2>1. c \in run.batch /\ c # b
        BY <1>1
    <2>2. CASE item.of = {b.ref}
        <3>1. c.ref = b.ref
            BY <1>2, <2>2
        <3> QED BY <2>1, <3>1 DEF Forward
    <2>3. CASE r \in DOMAIN items[To] /\ Rev(item) = Rev(items[To][r])
        <3>1. items[To][r].of = {c.ref}
            BY <1>2, <2>3 DEF Follows
        <3> QED BY <1>2, <2>1, <2>3, <3>1 DEF Forward
    <2> QED BY <2>2, <2>3
<1>3. PICK t : t = To
    OBVIOUS
<1>4. t \in Forges /\ items' = With(t, r, item) /\ Follows(t, r, item)
    BY <1>1, <1>3
<1>5. Dated' /\ Twin!Put(t, r, Thing(item))
    BY <1>1, <1>4, DatedAfter, WithMaps
<1>6. Forward'
    BY <1>1, <1>2, <1>3, <1>4, ForwardAfter
<1> QED BY <1>3, <1>5, <1>6

LEMMA ReflectTwins ==
    ASSUME BothWaysInv, Dated, Forward, NEW b \in run.batch, Reflect(b)
    PROVE  Dated' /\ Forward' /\ [Twin!Step]_Things
<1>1. To \in Forges /\ ItemsOK(items) /\ b.state \in States
    BY InFlight DEF BothWaysInv, RunOK
<1>2. PICK o \in Back(b) : \E r \in Named(To, o.kind, o.number) :
          /\ items' = With(To, r, [items[To][r] EXCEPT !.state = MovedTo(items[To][r], b.state)])
          /\ Begin(b, r)
    BY DEF Reflect, Write
<1>3. PICK r \in Named(To, o.kind, o.number) :
          /\ items' = With(To, r, [items[To][r] EXCEPT !.state = MovedTo(items[To][r], b.state)])
          /\ Begin(b, r)
    BY <1>2
<1>4. r \in DOMAIN items[To] /\ acts' = acts
    BY <1>3 DEF Named, Reflect
<1>0. Sound(To, items[To])
    BY <1>1 DEF ItemsOK
<1>5. PICK old : old = items[To][r] /\ Fields(old)
    BY <1>0, <1>4 DEF Sound
<1>6. PICK item, s : item = [old EXCEPT !.state = s] /\ s = MovedTo(old, b.state)
    OBVIOUS
<1>7. item.of = old.of /\ item.notes = old.notes /\ item.body = old.body /\ item.state = s
    BY <1>5, <1>6 DEF Fields
<1>8. items' = With(To, r, item)
    BY <1>3, <1>5, <1>6
<1>9. Follows(To, r, item) /\ Rev(item) = Rev(old)
    BY <1>1, <1>4, <1>5, <1>7, KeepsBody
<1>10. PICK t : t = To
    OBVIOUS
<1>11. Dated' /\ Forward' /\ Twin!Put(t, r, Thing(item))
    BY <1>3, <1>4, <1>5, <1>8, <1>9, <1>10, RunTwins
<1>12. Thing(item) = [Thing(old) EXCEPT !.state = s]
    <2>1. PICK notes : notes = [k \in DOMAIN old.notes |-> old.notes[k].of]
        OBVIOUS
    <2>2. Thing(old) = [of |-> old.of, rev |-> Rev(old), state |-> old.state, notes |-> notes]
        BY <2>1, ThingIs
    <2>3. Thing(item) = [of |-> old.of, rev |-> Rev(old), state |-> s, notes |-> notes]
        BY <1>7, <1>9, <2>1, ThingIs
    <2> QED BY <2>2, <2>3
<1>13. Things[t][r] = Thing(old) /\ t \in Forges /\ r \in DOMAIN items[t]
    BY <1>1, <1>4, <1>5, <1>10, ThingsAre
<1>14. CASE old.state = "merged"
    <2>1. s = old.state
        BY <1>6, <1>14 DEF MovedTo
    <2>2. item = old
        BY <1>5, <1>6, <2>1 DEF Fields
    <2>3. UNCHANGED Things
        BY <1>1, <1>4, <1>5, <1>8, <2>2, SameAgain
    <2> QED BY <1>11, <2>3
<1>15. CASE old.state # "merged"
    <2>1. s \in States
        BY <1>1, <1>6, <1>15 DEF MovedTo
    <2>2. Thing(old).state = old.state
        BY ThingIs
    <2>3. Twin!Turn(t, r)
        BY <1>11, <1>12, <1>13, <1>15, <2>1, <2>2 DEF Twin!Turn, Twin!States, States
    <2> QED BY <1>11, <1>13, <2>3, TwinMoves
<1> QED BY <1>14, <1>15

LEMMA CreateTwins ==
    ASSUME PlainText, BothWaysInv, Dated, Forward, NEW b \in run.batch, Create(b)
    PROVE  Dated' /\ Forward' /\ Twin!Step
<1>1. /\ From \in Forges /\ To \in Forges /\ Other(From) = To /\ Other(To) = From /\ ItemsOK(items)
      /\ b.ref \in DOMAIN items[From] /\ b.state \in States
    BY InFlight DEF BothWaysInv, RunOK
<1>2. PICK o : o = OriginOf(From, b.ref)
    OBVIOUS
<1>3. PICK body, ref, s : body = Render(b.body, o) /\ ref = b.ref /\ s = b.state
    OBVIOUS
<1>4. PICK kind \in CopyKinds(b) : \E r \in NewRefs(To, kind) :
          /\ items' = With(To, r, [of |-> {ref}, body |-> body, state |-> s, notes |-> <<>>])
          /\ Begin(b, r)
    BY <1>2, <1>3 DEF Create, Write
<1>5. PICK r \in NewRefs(To, kind) :
          /\ items' = With(To, r, [of |-> {ref}, body |-> body, state |-> s, notes |-> <<>>])
          /\ Begin(b, r)
    BY <1>4
<1>6. r \in Refs /\ r \notin DOMAIN items[To] /\ acts' = acts
    <2>1. kind \in Kinds
        BY <1>4 DEF CopyKinds, Kinds
    <2> QED BY <1>1, <1>5, <2>1, NewRef DEF Create
<1>7. PICK item : item = [of |-> {ref}, body |-> body, state |-> s, notes |-> <<>>]
    OBVIOUS
<1>8. item.of = {ref} /\ item.body = body /\ item.state = s /\ item.notes = <<>>
    BY <1>7
<1>9. items' = With(To, r, item)
    BY <1>5, <1>7
<1>10. PICK t, g : t = To /\ g = From
    OBVIOUS
<1>11. items[g][ref].of = {} /\ \A q \in DOMAIN items[t] : items[t][q].of # {ref}
    BY <1>3, <1>10, HadNone
<1>12. Ends(b.body) /\ Date(b.body) <= Rev(items[g][ref])
    BY <1>3, <1>10, <1>11 DEF Forward
<1>13. Rev(item) = Date(b.body)
    <2>1. body[Len(body) - 1].rev = Date(b.body)
        BY <1>3, <1>12, TextStays
    <2>2. item.of # {}
        BY <1>8
    <2> QED BY <1>8, <2>1, <2>2, RevIs
<1>14. Follows(t, r, item)
    <2>1. Rev(item) \in 0..MaxActs
        BY <1>12, <1>13 DEF Ends
    <2>2. item.of # {} /\ \A q \in item.of : q \in DOMAIN items[Other(t)] /\ Rev(item) <= Rev(items[Other(t)][q])
        BY <1>1, <1>3, <1>8, <1>10, <1>12, <1>13
    <2> QED BY <1>6, <1>10, <2>1, <2>2 DEF Follows
<1>15. Dated' /\ Forward' /\ Twin!Put(t, r, Thing(item))
    BY <1>3, <1>5, <1>6, <1>8, <1>9, <1>10, <1>14, RunTwins
<1>16. Thing(item) = [of |-> {ref}, rev |-> Date(b.body), state |-> s, notes |-> <<>>]
    <2>1. Thing(item) = [of |-> {ref}, rev |-> Date(b.body), state |-> s,
                         notes |-> [k \in DOMAIN item.notes |-> item.notes[k].of]]
        BY <1>8, <1>13, ThingIs
    <2>2. [k \in DOMAIN item.notes |-> item.notes[k].of] = <<>>
        BY <1>8
    <2> QED BY <2>1, <2>2
<1>17. /\ g \in Forges /\ t \in Forges /\ ref \in DOMAIN items[g] /\ Twin!Other(g) = t
       /\ s \in Twin!States
    BY <1>1, <1>3, <1>10, TwinOther DEF Twin!States, States
<1>18. /\ Things[g][ref].of = {} /\ Date(b.body) <= Things[g][ref].rev
       /\ DOMAIN Things[t] = DOMAIN items[t]
       /\ \A q \in DOMAIN items[t] : Things[t][q].of # {ref}
    <2>1. Things[g][ref] = Thing(items[g][ref]) /\ DOMAIN Things[t] = DOMAIN items[t]
          /\ \A q \in DOMAIN items[t] : Things[t][q] = Thing(items[t][q])
        BY <1>17, ThingsAre
    <2>2. \A it : Thing(it).of = it.of /\ Thing(it).rev = Rev(it)
        BY DEF Thing
    <2> QED BY <1>11, <1>12, <2>1, <2>2
<1>19. Twin!Copies(g, ref) = {}
    BY <1>17, <1>18 DEF Twin!Copies
<1>20. r \in Refs \ DOMAIN Things[t] /\ Date(b.body) \in 0..MaxActs
    BY <1>6, <1>10, <1>12, <1>18 DEF Ends
<1>21. Twin!Make(g, ref)
    <2>1. PICK v \in 0..MaxActs : v = Date(b.body)
        BY <1>20
    <2>2. r \in Refs \ DOMAIN Things[Twin!Other(g)] /\ v <= Things[g][ref].rev
        BY <1>17, <1>18, <1>20, <2>1
    <2>3. Twin!Put(Twin!Other(g), r, [of |-> {ref}, rev |-> v, state |-> s, notes |-> <<>>])
        BY <1>15, <1>16, <1>17, <2>1
    <2> QED BY <1>17, <1>18, <1>19, <2>2, <2>3 DEF Twin!Make
<1> QED BY <1>15, <1>17, <1>21, TwinMoves

LEMMA UpdateTwins ==
    ASSUME PlainText, BothWaysInv, Dated, Forward, NEW b \in run.batch, Update(b)
    PROVE  Dated' /\ Forward' /\ Twin!Step
<1>1. /\ From \in Forges /\ To \in Forges /\ Other(To) = From /\ ItemsOK(items)
      /\ b.ref \in DOMAIN items[From] /\ b.ref \in Refs /\ b.state \in States
    BY InFlight DEF BothWaysInv, RunOK, ItemsOK, Sound
<1>2. PICK o : o = OriginOf(From, b.ref)
    OBVIOUS
<1>3. PICK r \in Origins(o) :
          /\ items' = With(To, r, [items[To][r] EXCEPT !.body = Render(b.body, o),
                                               !.state = MovedTo(items[To][r], b.state)])
          /\ Begin(b, r)
    BY <1>2 DEF Update, Write
<1>4. r \in DOMAIN items[To] /\ o \in ParseOrigin(items[To][r].body) /\ acts' = acts
    BY <1>3 DEF Origins, Made, Update
<1>5. PICK old : old = items[To][r] /\ Fields(old) /\ Honest(To, old.of, old.body)
    BY <1>1, <1>4 DEF ItemsOK, Sound
<1>6. old.of = {b.ref}
    <2>1. old.of \subseteq Refs
        BY <1>5 DEF Honest
    <2> QED BY <1>1, <1>2, <1>4, <1>5, <2>1, MadeIsCopy
<1>7. PICK body, ref, s : body = Render(b.body, o) /\ ref = b.ref /\ s = MovedTo(old, b.state)
    OBVIOUS
<1>8. PICK item : item = [old EXCEPT !.body = body, !.state = s]
    OBVIOUS
<1>9. item.of = {ref} /\ item.notes = old.notes /\ item.body = body /\ item.state = s
    <2>1. old = [of |-> old.of, body |-> old.body, state |-> old.state, notes |-> old.notes]
        BY <1>5 DEF Fields
    <2>2. item = [of |-> old.of, body |-> body, state |-> s, notes |-> old.notes]
        BY <1>8, <2>1, TwoFields
    <2> QED BY <1>6, <1>7, <2>2
<1>10. items' = With(To, r, item)
    BY <1>3, <1>5, <1>7, <1>8
<1>11. PICK t, g : t = To /\ g = From
    OBVIOUS
<1>12. items[g][ref].of = {}
    <2>1. Paired(items[t], items[g])
        BY <1>1, <1>11 DEF ItemsOK
    <2> QED BY <1>4, <1>5, <1>6, <1>7, <1>11, <2>1 DEF Paired
<1>13. Ends(b.body) /\ Date(b.body) <= Rev(items[g][ref]) /\ Rev(old) <= Date(b.body)
    BY <1>4, <1>5, <1>6, <1>7, <1>11, <1>12 DEF Forward
<1>14. PICK v : v = Date(b.body) /\ v \in 0..MaxActs /\ v = Rev(item)
    <2>1. body[Len(body) - 1].rev = Date(b.body)
        BY <1>7, <1>13, TextStays
    <2>2. item.of # {}
        BY <1>9
    <2>3. Rev(item) = Date(b.body)
        BY <1>9, <2>1, <2>2, RevIs
    <2> QED BY <1>13, <2>3 DEF Ends
<1>15. Follows(t, r, item)
    <2>1. item.of # {} /\ \A q \in item.of : q \in DOMAIN items[Other(t)] /\ Rev(item) <= Rev(items[Other(t)][q])
        BY <1>1, <1>7, <1>9, <1>11, <1>13, <1>14
    <2> QED BY <1>5, <1>6, <1>7, <1>9, <1>11, <1>14, <2>1 DEF Follows
<1>16. Dated' /\ Forward' /\ Twin!Put(t, r, Thing(item))
    BY <1>3, <1>4, <1>7, <1>9, <1>10, <1>11, <1>15, RunTwins
<1>17. PICK thing : thing = Thing(old) /\ thing = Things[t][r]
    BY <1>1, <1>4, <1>5, <1>11, ThingsAre
<1>18. /\ thing.of = {ref} /\ thing.rev = Rev(old) /\ thing.state = old.state
       /\ Thing(item) = [thing EXCEPT !.rev = v, !.state = s]
    <2>1. PICK notes : notes = [k \in DOMAIN old.notes |-> old.notes[k].of]
        OBVIOUS
    <2>2. thing = [of |-> {ref}, rev |-> Rev(old), state |-> old.state, notes |-> notes]
        BY <1>6, <1>7, <1>17, <2>1, ThingIs
    <2>3. Thing(item) = [of |-> {ref}, rev |-> v, state |-> s, notes |-> notes]
        BY <1>9, <1>14, <2>1, ThingIs
    <2>4. PICK one : one = [thing EXCEPT !.rev = v]
        OBVIOUS
    <2>5. one = [of |-> {ref}, rev |-> v, state |-> old.state, notes |-> notes]
        BY <2>2, <2>4
    <2>6. [one EXCEPT !.state = s] = Thing(item)
        BY <2>3, <2>5
    <2>7. [thing EXCEPT !.rev = v, !.state = s] = [one EXCEPT !.state = s]
        BY <2>4
    <2>8. thing.of = {ref} /\ thing.rev = Rev(old) /\ thing.state = old.state
        BY <2>2
    <2> QED BY <2>6, <2>7, <2>8
<1>19. /\ g \in Forges /\ t \in Forges /\ ref \in DOMAIN items[g] /\ Twin!Other(t) = g
       /\ s \in Twin!States \cup {"merged"} /\ (old.state = "merged" <=> s = "merged")
    <2>1. s \in States \cup {"merged"} /\ (old.state = "merged" <=> s = "merged")
        BY <1>1, <1>7 DEF MovedTo, States
    <2> QED BY <1>1, <1>7, <1>11, <2>1, TwinOther DEF Twin!States, States
<1>20. Things[g][ref].rev = Rev(items[g][ref])
    <2>1. Things[g][ref] = Thing(items[g][ref])
        BY <1>19, ThingsAre
    <2>2. Thing(items[g][ref]).rev = Rev(items[g][ref])
        BY DEF Thing
    <2> QED BY <2>1, <2>2
<1>21. Twin!Refresh(t, r)
    <2>1. ref \in Things[t][r].of
        BY <1>17, <1>18
    <2>2. Things[t][r].rev <= v /\ v <= Things[Twin!Other(t)][ref].rev
        BY <1>13, <1>14, <1>17, <1>18, <1>19, <1>20
    <2>3. Twin!Put(t, r, [Things[t][r] EXCEPT !.rev = v, !.state = s])
        BY <1>16, <1>17, <1>18
    <2>4. Things[t][r].state = "merged" <=> s = "merged"
        BY <1>17, <1>18, <1>19
    <2> QED BY <1>14, <1>19, <2>1, <2>2, <2>3, <2>4 DEF Twin!Refresh
<1>22. r \in DOMAIN items[t]
    BY <1>4, <1>11
<1> QED BY <1>16, <1>19, <1>21, <1>22, TwinMoves

(* What comments are copies of. *)
Ofs(notes) == [k \in DOMAIN notes |-> notes[k].of]

LEMMA OfsJoin ==
    ASSUME NEW s, IsSeq(s), NEW t, IsSeq(t)
    PROVE  Ofs(s \o t) = Ofs(s) \o Ofs(t)
<1>1. PICK u, v : u = Ofs(s) /\ v = Ofs(t)
    OBVIOUS
<1>2. u = [k \in DOMAIN s |-> u[k]] /\ v = [k \in DOMAIN t |-> v[k]]
    BY <1>1 DEF Ofs
<1>3. /\ IsSeq(u) /\ DOMAIN u = DOMAIN s /\ Len(u) = Len(s)
      /\ IsSeq(v) /\ DOMAIN v = DOMAIN t /\ Len(v) = Len(t)
    BY <1>2, Mapped
<1>4. PICK S, T : s \in Seq(S) /\ t \in Seq(T)
    BY DEF IsSeq
<1>5. PICK U, V : u \in Seq(U) /\ v \in Seq(V)
    BY <1>3 DEF IsSeq
<1>6. PICK A, B : A = S \cup T /\ B = U \cup V
    OBVIOUS
<1>0. s \in Seq(A) /\ t \in Seq(A)
    BY <1>4, <1>6
<1>7. u \in Seq(B) /\ v \in Seq(B)
    BY <1>5, <1>6
<1>8. PICK m \in Nat, n \in Nat : m = Len(s) /\ n = Len(t) /\ DOMAIN s = 1..m /\ DOMAIN t = 1..n
    BY <1>0
<1>9. /\ s \o t \in Seq(A) /\ Len(s \o t) = m + n
      /\ \A j \in 1..(m + n) : (s \o t)[j] = IF j <= m THEN s[j] ELSE t[j - m]
    BY <1>0, <1>8, ConcatProperties
<1>10. /\ u \o v \in Seq(B) /\ Len(u \o v) = m + n
       /\ \A j \in 1..(m + n) : (u \o v)[j] = IF j <= m THEN u[j] ELSE v[j - m]
    <2>1. Len(u) = m /\ Len(v) = n
        BY <1>3, <1>8
    <2>2. /\ u \o v \in Seq(B) /\ Len(u \o v) = Len(u) + Len(v)
          /\ \A j \in 1..(Len(u) + Len(v)) : (u \o v)[j] = IF j <= Len(u) THEN u[j] ELSE v[j - Len(u)]
        BY <1>7, ConcatProperties
    <2> QED BY <2>1, <2>2
<1>11. PICK st, uv : st = s \o t /\ uv = u \o v
    OBVIOUS
<1>12. DOMAIN st = 1..(m + n) /\ uv = [k \in 1..(m + n) |-> uv[k]]
    <2>1. DOMAIN st = 1..(m + n)
        BY <1>9, <1>11
    <2>2. uv = [k \in 1..(m + n) |-> uv[k]]
        <3>1. uv \in Seq(B) /\ Len(uv) = m + n
            BY <1>10, <1>11
        <3> QED BY <3>1
    <2> QED BY <2>1, <2>2
<1>13. ASSUME NEW k \in 1..(m + n) PROVE st[k].of = uv[k]
    <2>1. CASE k <= m
        <3>1. k \in DOMAIN s /\ u[k] = s[k].of
            BY <1>1, <1>8, <2>1 DEF Ofs
        <3> QED BY <1>9, <1>10, <1>11, <2>1, <3>1
    <2>2. CASE ~(k <= m)
        <3>1. k - m \in DOMAIN t
            BY <1>8, <2>2
        <3>2. v[k - m] = t[k - m].of
            BY <1>1, <3>1 DEF Ofs
        <3> QED BY <1>9, <1>10, <1>11, <2>2, <3>2
    <2> QED BY <2>1, <2>2
<1>14. Ofs(st) = uv
    BY <1>12, <1>13 DEF Ofs
<1> QED BY <1>1, <1>11, <1>14

LEMMA InOrderLen ==
    ASSUME NEW s, IsSeq(s)
    PROVE  DOMAIN InOrder(s) = DOMAIN s
<1>1. PICK m \in Nat : m = Len(s) /\ DOMAIN s = 1..m
    BY DEF IsSeq
<1>2. CASE From = "gitlab"
    <2>1. InOrder(s) = [j \in 1..m |-> s[(m - j) + 1]]
        BY <1>1, <1>2 DEF InOrder, Seqs!Reverse
    <2> QED BY <1>1, <2>1
<1>3. CASE From # "gitlab"
    BY <1>3 DEF InOrder
<1> QED BY <1>2, <1>3

LEMMA TwinCardinality == \A S : Twin!Cardinality(S) = Cardinality(S)
BY DEF Twin!Cardinality, Cardinality

(* The comments of t are copies of those of K, one each, in some order. *)
CopiesOf(t, K) == \E order \in Twin!Orders(K) :
    DOMAIN t = 1..Cardinality(K) /\ \A i \in DOMAIN t : t[i].of = {order[i]}

LEMMA FreshIs ==
    ASSUME NEW notes, IsSeq(notes), \A k \in DOMAIN notes : NoteOK(notes[k]), NEW have
    PROVE  CopiesOf(Fresh(notes, have), Missing(notes, have))
<1>1. PICK K, t : K = Missing(notes, have) /\ t = Fresh(notes, have)
    OBVIOUS
<1>2. DOMAIN t = 1..Cardinality(K)
    <2>1. PICK full : full = [k \in DOMAIN notes |-> [of |-> {k}, body |-> RenderComment(notes[k].body, k)]]
        OBVIOUS
    <2>2. full = [k \in DOMAIN notes |-> full[k]]
        BY <2>1
    <2>3. IsSeq(full) /\ DOMAIN full = DOMAIN notes
        BY <2>2, Mapped
    <2>4. K \in SUBSET DOMAIN full
        BY <1>1, <2>3 DEF Missing
    <2>5. IsSeq(At(full, K)) /\ DOMAIN At(full, K) = 1..Cardinality(K)
        <3>1. IsSeq(At(full, K))
            BY <2>3, <2>4, AtType
        <3>2. DOMAIN At(full, K) = 1..Cardinality(K)
            BY DEF At
        <3> QED BY <3>1, <3>2
    <2>6. t = InOrder(At(full, K))
        BY <1>1, <2>1 DEF Fresh
    <2> QED BY <2>5, <2>6, InOrderLen
<1>3. \A i \in DOMAIN t : \E k \in K : t[i].of = {k}
    <2>1. ASSUME NEW i \in DOMAIN t PROVE \E k \in K : t[i].of = {k}
        <3>1. PICK k \in DOMAIN notes : t[i].of = {k} /\ notes[k].of = {} /\ k \notin have
            BY <1>1, NewNotes
        <3>2. k \in K
            BY <1>1, <3>1 DEF Missing, NoteOK
        <3> QED BY <3>1, <3>2
    <2> QED BY <2>1
<1>4. \A i, j \in DOMAIN t : t[i].of = t[j].of => i = j
    BY <1>1, NewNotes
<1>5. PICK order : order = [i \in 1..Cardinality(K) |-> CHOOSE k \in K : t[i].of = {k}]
    OBVIOUS
<1>6. \A i \in DOMAIN t : order[i] \in K /\ t[i].of = {order[i]}
    BY <1>2, <1>3, <1>5
<1>7. order \in [1..Cardinality(K) -> K]
    BY <1>2, <1>5, <1>6
<1>8. Twin!IsInjective(order)
    <2>1. ASSUME NEW i \in DOMAIN t, NEW j \in DOMAIN t, order[i] = order[j] PROVE i = j
        BY <1>4, <1>6, <2>1
    <2>2. DOMAIN order = DOMAIN t
        BY <1>2, <1>5
    <2> QED BY <2>1, <2>2 DEF Twin!IsInjective
<1>9. order \in Twin!Orders(K)
    BY <1>7, <1>8, TwinCardinality DEF Twin!Orders, Twin!Injection
<1> QED BY <1>1, <1>2, <1>6, <1>9 DEF CopiesOf

LEMMA CommentsTwins ==
    ASSUME NotesInv, AllNotesListed, Dated, Forward, Comments
    PROVE  Dated' /\ Forward' /\ Twin!Step
<1>1. PICK r \in run.to : \E notes, have, new :
          /\ notes = items[From][run.item.ref].notes
          /\ have = UNION {NoteID(items[To][r].notes[k].body) : k \in Listed(To, r)}
          /\ new = Fresh(notes, have)
          /\ items' = With(To, r, [items[To][r] EXCEPT !.notes = items[To][r].notes \o new])
          /\ run' = [run EXCEPT !.item = NoItem, !.to = {}]
          /\ acts' = acts
    BY DEF Comments, Fresh
<1>2. PICK notes, have, new :
          /\ notes = items[From][run.item.ref].notes
          /\ have = UNION {NoteID(items[To][r].notes[k].body) : k \in Listed(To, r)}
          /\ new = Fresh(notes, have)
          /\ items' = With(To, r, [items[To][r] EXCEPT !.notes = items[To][r].notes \o new])
          /\ run' = [run EXCEPT !.item = NoItem, !.to = {}]
          /\ acts' = acts
    BY <1>1
<1>3. /\ From \in Forges /\ To \in Forges /\ Other(To) = From /\ ItemsOK(items) /\ BothWaysInv
      /\ RunOK /\ run.from # "nowhere"
    BY <1>1, InFlight DEF NotesInv, BothWaysInv
<1>4. PICK t, g, ref : t = To /\ g = From /\ ref = run.item.ref
    OBVIOUS
<1>5. /\ t \in Forges /\ g \in Forges /\ Other(t) = g
      /\ r \in DOMAIN items[t] /\ ref \in DOMAIN items[g] /\ ref \in Counterparts(t, r)
      /\ NotesOK(g, ref) /\ NotesOK(t, r)
    <2>1. r \in DOMAIN items[t] /\ ref \in DOMAIN items[g] /\ ref \in Counterparts(t, r)
        BY <1>1, <1>3, <1>4 DEF RunOK, NotesInv, HandOK
    <2>2. NotesOK(g, ref) /\ NotesOK(t, r)
        BY <1>3, <1>4, <2>1 DEF NotesInv
    <2> QED BY <1>3, <1>4, <2>1, <2>2
<1>6. PICK old : old = items[t][r] /\ Fields(old)
    <2>1. Sound(t, items[t])
        BY <1>3, <1>5 DEF ItemsOK
    <2> QED BY <1>5, <2>1 DEF Sound
<1>7. PICK was : was = old.notes
    OBVIOUS
<1>8. IsSeq(was) /\ \A j \in DOMAIN was : NoteOK(was[j]) /\ (was[j].of # {} => \E i : was[j].of = {i})
    <2>1. IsSeq(was) /\ \A j \in DOMAIN was : NoteOK(was[j]) /\ (was[j].of # {} => Crossed(t, r, was[j]))
        BY <1>5, <1>6, <1>7 DEF NotesOK
    <2> QED BY <2>1 DEF Crossed
<1>9. IsSeq(notes) /\ \A k \in DOMAIN notes : NoteOK(notes[k])
    BY <1>2, <1>4, <1>5 DEF NotesOK
<1>10. IsSeq(new)
    <2>1. IsSeq(Fresh(notes, have))
        BY <1>9, NewNotes
    <2> QED BY <1>2, <2>1
<1>11. PICK item : item = [old EXCEPT !.notes = was \o new]
    OBVIOUS
<1>12. item.of = old.of /\ item.notes = was \o new /\ item.body = old.body /\ item.state = old.state
    BY <1>6, <1>11 DEF Fields
<1>13. items' = With(t, r, item)
    BY <1>2, <1>4, <1>6, <1>7, <1>11
<1>14. /\ run'.from = run.from /\ run'.batch = run.batch
       /\ acts' \in {acts, acts + 1}
    BY <1>2, <1>3 DEF RunOK
<1>15. Follows(t, r, item) /\ Rev(item) = Rev(old)
    BY <1>3, <1>5, <1>6, <1>12, <1>14, KeepsBody
<1>16. Dated' /\ Twin!Put(t, r, Thing(item))
    BY <1>3, <1>5, <1>13, <1>14, <1>15, DatedAfter, WithMaps
<1>17. Forward'
    <2>1. ASSUME NEW b \in run'.batch, item.of = {b.ref}, items[From][b.ref].of = {}
          PROVE  Rev(item) <= Date(b.body)
        BY <1>4, <1>5, <1>6, <1>12, <1>14, <1>15, <2>1 DEF Forward
    <2> QED BY <1>3, <1>5, <1>13, <1>14, <1>15, <2>1, ForwardAfter
<1>18. PICK mine, theirs : mine = Ofs(was) /\ theirs = Ofs(notes)
    OBVIOUS
<1>19. PICK thing, half : thing = Things[t][r] /\ half = Things[g][ref]
    OBVIOUS
<1>20. /\ thing = [of |-> old.of, rev |-> Rev(old), state |-> old.state, notes |-> mine]
       /\ half = Thing(items[g][ref]) /\ half.notes = theirs
    <2>1. thing = Thing(old) /\ half = Thing(items[g][ref])
        BY <1>5, <1>6, <1>19, ThingsAre
    <2>2. thing = [of |-> old.of, rev |-> Rev(old), state |-> old.state, notes |-> mine]
        BY <1>7, <1>18, <2>1 DEF Thing, Ofs
    <2>3. Thing(items[g][ref]).notes = theirs
        BY <1>2, <1>4, <1>18 DEF Thing, Ofs
    <2> QED BY <2>1, <2>2, <2>3
<1>21. PICK K : K = Missing(notes, have)
    OBVIOUS
<1>22. Twin!Unheard(t, r, ref) = K
    <2>1. Twin!Unheard(t, r, ref) = {k \in DOMAIN theirs : theirs[k] = {} /\ \A j \in DOMAIN mine : mine[j] # {k}}
        <3>1. Twin!Other(t) = g
            BY <1>5, TwinOther
        <3>2. Things[t][r].notes = mine /\ Things[g][ref].notes = theirs
            BY <1>19, <1>20
        <3> QED BY <3>1, <3>2 DEF Twin!Unheard
    <2>2. have = UNION {was[j].of : j \in DOMAIN was}
        <3>1. have = UNION {NoteID(was[j].body) : j \in DOMAIN was}
            <4>1. Listed(t, r) = DOMAIN was
                BY <1>5, <1>6, <1>7, <1>8, AllListed
            <4> QED BY <1>2, <1>4, <1>6, <1>7, <4>1
        <3>2. \A j \in DOMAIN was : NoteID(was[j].body) = was[j].of
            BY <1>8 DEF NoteOK
        <3> QED BY <3>1, <3>2
    <2>3. \A k : k \notin have <=> \A j \in DOMAIN was : was[j].of # {k}
        BY <1>8, <2>2
    <2>4. \A k \in DOMAIN notes : NoteID(notes[k].body) = notes[k].of
        BY <1>9 DEF NoteOK
    <2>5. K = {k \in DOMAIN notes : notes[k].of = {} /\ k \notin have}
        BY <1>21, <2>4 DEF Missing
    <2>6. /\ DOMAIN mine = DOMAIN was /\ DOMAIN theirs = DOMAIN notes
          /\ \A j \in DOMAIN was : mine[j] = was[j].of
          /\ \A k \in DOMAIN notes : theirs[k] = notes[k].of
        BY <1>18 DEF Ofs
    <2>7. ASSUME NEW k \in DOMAIN notes
          PROVE  (theirs[k] = {} /\ \A j \in DOMAIN mine : mine[j] # {k}) <=> (notes[k].of = {} /\ k \notin have)
        <3>1. (\A j \in DOMAIN mine : mine[j] # {k}) <=> k \notin have
            BY <2>3, <2>6
        <3> QED BY <2>6, <3>1
    <2> QED BY <2>1, <2>5, <2>6, <2>7
<1>23. PICK order \in Twin!Orders(K) :
           DOMAIN new = 1..Cardinality(K) /\ \A i \in DOMAIN new : new[i].of = {order[i]}
    <2>1. CopiesOf(new, K)
        BY <1>2, <1>9, <1>21, FreshIs
    <2> QED BY <2>1 DEF CopiesOf
<1>24. PICK more : more = [i \in DOMAIN order |-> {order[i]}]
    OBVIOUS
<1>25. more = Ofs(new)
    <2>1. DOMAIN order = 1..Cardinality(K)
        BY TwinCardinality DEF Twin!Orders, Twin!Injection
    <2> QED BY <1>23, <1>24, <2>1 DEF Ofs
<1>26. PICK both : both = mine \o more
    OBVIOUS
<1>27. Thing(item) = [thing EXCEPT !.notes = both]
    <2>1. Ofs(was \o new) = both
        BY <1>8, <1>10, <1>18, <1>25, <1>26, OfsJoin
    <2>2. Thing(item) = [of |-> old.of, rev |-> Rev(old), state |-> old.state, notes |-> both]
        BY <1>12, <1>15, <2>1 DEF Thing, Ofs
    <2> QED BY <1>20, <2>2
<1>28. Twin!Put(t, r, [Things[t][r] EXCEPT !.notes = @ \o more])
    <2>1. [thing EXCEPT !.notes = both] = [thing EXCEPT !.notes = @ \o more]
        <3>1. thing.notes = mine
            BY <1>20
        <3> QED BY <1>26, <3>1
    <2> QED BY <1>16, <1>19, <1>27, <2>1
<1>29. ref \in Twin!Halves(t, r)
    <2>1. items[t][r].of = {ref} \/ items[g][ref].of = {r}
        BY <1>5 DEF Counterparts
    <2>2. thing.of = items[t][r].of /\ half.of = items[g][ref].of
        <3>1. thing.of = old.of
            BY <1>20
        <3>2. Thing(items[g][ref]).of = items[g][ref].of
            BY DEF Thing
        <3> QED BY <1>6, <1>20, <3>1, <3>2
    <2>3. Twin!Other(t) = g /\ ref \in DOMAIN Things[g]
        BY <1>5, TwinOther, ThingsAre
    <2> QED BY <1>19, <2>1, <2>2, <2>3 DEF Twin!Halves, Twin!Copies
<1>30. Twin!Hear(t, r)
    <2>1. order \in Twin!Orders(Twin!Unheard(t, r, ref))
        BY <1>22
    <2>2. Twin!Put(t, r, [Things[t][r] EXCEPT !.notes = @ \o [i \in DOMAIN order |-> {order[i]}]])
        BY <1>24, <1>28
    <2> QED BY <1>29, <2>1, <2>2 DEF Twin!Hear
<1> QED BY <1>5, <1>16, <1>17, <1>30, TwinMoves

LEMMA InitTwins == Init => TwinsInv /\ Twin!Init
<1> SUFFICES ASSUME Init PROVE TwinsInv /\ Twin!Init
    OBVIOUS
<1>1. NotesInv
    BY InitNotes
<1>2. (\A f \in Forges : DOMAIN items[f] = {}) /\ run.batch = {}
    BY DEF Init, NoRun
<1>3. Dated /\ Forward
    BY <1>2 DEF Dated, Forward
<1>4. Twin!Init
    <2>1. \A f \in Forges : [r \in DOMAIN items[f] |-> Thing(items[f][r])] = [r \in {} |-> 0]
        BY <1>2
    <2>2. Things = [f \in Forges |-> [r \in {} |-> 0]]
        BY <2>1 DEF Things
    <2> QED BY <2>2 DEF Twin!Init, Twin!Forges, Forges
<1> QED BY <1>1, <1>3, <1>4 DEF TwinsInv

LEMMA NextTwins ==
    ASSUME PlainText, TwinsInv, AllNotesListed, [Next]_vars
    PROVE  TwinsInv' /\ [Twin!Step]_Things
<1>1. NotesInv' /\ BothWaysInv /\ NotesInv /\ Dated /\ Forward
    BY NextNotes DEF TwinsInv, NotesInv
<1>2. CASE People
    <2>1. ASSUME NEW f \in Forges, Open(f) PROVE Dated' /\ Forward' /\ Twin!Step
        BY <1>1, <2>1, OpenTwins
    <2>2. ASSUME NEW f \in Forges, NEW r \in DOMAIN items[f],
                 Rewrite(f, r) \/ Switch(f, r) \/ Merge(f, r) \/ Say(f, r)
          PROVE  Dated' /\ Forward' /\ Twin!Step
        BY <1>1, <2>2, RewriteTwins, SwitchTwins, SayTwins
    <2> QED BY <1>1, <1>2, <2>1, <2>2 DEF People, TwinsInv
<1>3. CASE FinishRun \/ Crash \/ (\E f \in Forges : StartRun(f)) \/ UNCHANGED vars
    BY <1>1, <1>3, QuietTwins DEF TwinsInv
<1>4. CASE Comments
    BY <1>1, <1>4, CommentsTwins DEF TwinsInv
<1>5. ASSUME NEW b \in run.batch, Reflect(b) \/ Create(b) \/ Update(b) \/ Refused(b)
      PROVE  TwinsInv' /\ [Twin!Step]_Things
    BY <1>1, <1>5, ReflectTwins, CreateTwins, UpdateTwins, QuietTwins DEF Refused, TwinsInv
<1> QED BY <1>2, <1>3, <1>4, <1>5 DEF Next, Step

(* Mirror and restore, over bodies that people rewrite and quote from, killed anywhere,
   do what Twins says and nothing else while all notes of an item are on the page the
   program reads (gitlab.go:522-548): every step of theirs maps to one of its or to
   none. *)
THEOREM TwinsImplemented ==
    ASSUME PlainText PROVE Spec /\ []AllNotesListed => ImplementsTwins
<1>1. Init => TwinsInv /\ Twin!Init
    BY InitTwins
<1>2. TwinsInv /\ AllNotesListed /\ [Next]_vars => TwinsInv' /\ [Twin!Next]_Things
    BY NextTwins DEF Twin!Next
<1> QED BY <1>1, <1>2, PTL DEF Spec, ImplementsTwins, Twin!Spec

=============================================================================
