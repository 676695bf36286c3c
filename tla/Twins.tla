-------------------------------- MODULE Twins --------------------------------
(***************************************************************************)
(* What mirroring in both directions comes to, without runs, listings,     *)
(* markers, numbers to look up or faults.  Two forges hold things; each    *)
(* thing is of people, or the one copy of a thing of the other forge.  A   *)
(* copy only goes forward to revisions its original has had, what people   *)
(* wrote nobody else writes over, and each comment of theirs crosses once. *)
(* BothWays is shown to implement this.                                    *)
(***************************************************************************)
EXTENDS Integers, Sequences, FiniteSets, Functions

CONSTANTS
    Names,      \* what a forge calls its things
    Revisions   \* a set of natural numbers

VARIABLE things  \* things[f]: those of forge f by name, [of, rev, state, notes]

Forges == {"github", "gitlab"}
States == {"open", "closed"}  \* or merged, for good

Other(f) == IF f = "github" THEN "gitlab" ELSE "github"

Init == things = [f \in Forges |-> [r \in {} |-> 0]]

(* The thing a copy is a copy of, or the copies of a thing; of a comment the same is
   noted. *)
Copies(f, r) == {s \in DOMAIN things[Other(f)] : things[Other(f)][s].of = {r}}
Halves(f, r) == things[f][r].of \cup Copies(f, r)

Put(f, r, thing) == things' = [things EXCEPT ![f] =
    [q \in DOMAIN things[f] \cup {r} |-> IF q = r THEN thing ELSE things[f][q]]]

-----------------------------------------------------------------------------

Open(f, r) ==
    /\ r \notin DOMAIN things[f]
    /\ \E v \in Revisions : Put(f, r, [of |-> {}, rev |-> v, state |-> "open", notes |-> <<>>])

Rewrite(f, r) ==
    /\ things[f][r].of = {}
    /\ \E v \in Revisions : v > things[f][r].rev /\ Put(f, r, [things[f][r] EXCEPT !.rev = v])

Say(f, r) == Put(f, r, [things[f][r] EXCEPT !.notes = Append(@, {})])

(* By somebody, or because the other half is: of what people wrote that is all
   anybody else changes. *)
Turn(f, r) == \E state \in States \cup {"merged"} :
    things[f][r].state # "merged" /\ Put(f, r, [things[f][r] EXCEPT !.state = state])

Make(f, r) ==
    /\ things[f][r].of = {} /\ Copies(f, r) = {}
    /\ \E s \in Names \ DOMAIN things[Other(f)], v \in Revisions, state \in States :
        /\ v <= things[f][r].rev
        /\ Put(Other(f), s, [of |-> {r}, rev |-> v, state |-> state, notes |-> <<>>])

Refresh(f, r) == \E s \in things[f][r].of, v \in Revisions, state \in States \cup {"merged"} :
    /\ things[f][r].rev <= v /\ v <= things[Other(f)][s].rev
    /\ things[f][r].state = "merged" <=> state = "merged"
    /\ Put(f, r, [things[f][r] EXCEPT !.rev = v, !.state = state])

(* What people said of the other half and is not here. *)
Unheard(f, r, s) == {k \in DOMAIN things[Other(f)][s].notes :
    /\ things[Other(f)][s].notes[k] = {}
    /\ \A j \in DOMAIN things[f][r].notes : things[f][r].notes[j] # {k}}

(* The sequences of what is in S, once each. *)
Orders(S) == Injection(1..Cardinality(S), S)

(* All of it comes, each comment once. *)
Hear(f, r) == \E s \in Halves(f, r) : \E order \in Orders(Unheard(f, r, s)) :
    Put(f, r, [things[f][r] EXCEPT !.notes = @ \o [i \in DOMAIN order |-> {order[i]}]])

-----------------------------------------------------------------------------

Step == \E f \in Forges :
    \/ \E r \in DOMAIN things[f] :
        Rewrite(f, r) \/ Say(f, r) \/ Turn(f, r) \/ Make(f, r) \/ Refresh(f, r) \/ Hear(f, r)
    \/ \E r \in Names : Open(f, r)

(* To turn to the state it is in, or to hear nothing, is no step. *)
Next == things' # things /\ Step

Spec == Init /\ [][Next]_things

=============================================================================
