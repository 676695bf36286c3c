------------------------------- MODULE Backup -------------------------------
(***************************************************************************)
(* What the mirror promises, without runs, pages, markers or faults: each  *)
(* item that originates in the source has at most one copy, which only     *)
(* moves forward to revisions the item has had and collects its comments   *)
(* in order; and a recorded position says that everything changed up to it *)
(* is copied.  Mirror is shown to implement this.                          *)
(***************************************************************************)
EXTENDS Integers, Sequences

CONSTANTS Repos, Numbers, Paths

VARIABLES
    source,   \* source[r]: the items by number, [rev, at, state, own, notes]
    copies,   \* copies[r][n]: the copy of item n of repository r, or NoCopy
    promise   \* promise[f]: the position recorded in f

vars == <<source, copies, promise>>

NoCopy == [rev |-> 0, state |-> "none", notes |-> <<>>]

Init ==
    /\ source = [r \in Repos |-> <<>>]
    /\ copies = [r \in Repos |-> [n \in Numbers |-> NoCopy]]
    /\ promise = [f \in Paths |-> 0]

(* People only add items, revisions and comments. *)
People ==
    /\ \A r \in Repos : \A n \in DOMAIN source[r] :
        /\ n \in DOMAIN source'[r]
        /\ source[r][n].rev <= source'[r][n].rev
        /\ \A k \in DOMAIN source[r][n].notes : k \in DOMAIN source'[r][n].notes
    /\ UNCHANGED <<copies, promise>>

Write(r, n, copy) ==
    /\ n \in DOMAIN source[r] /\ source[r][n].own
    /\ copies' = [copies EXCEPT ![r][n] = copy]
    /\ UNCHANGED <<source, promise>>

Make(r, n) == \E v \in 1..source[r][n].rev :
    /\ copies[r][n] = NoCopy
    /\ Write(r, n, [rev |-> v, state |-> "open", notes |-> <<>>])

(* Forward to a revision, or a second look at the same one. *)
Refresh(r, n) == \E v \in copies[r][n].rev..source[r][n].rev, s \in {"open", "closed"} :
    /\ copies[r][n] # NoCopy
    /\ Write(r, n, [copies[r][n] EXCEPT !.rev = v, !.state = s])

(* A comment of the source's own, after those already there; or one that somebody
   wrote in the target itself, which is the entry 0. *)
Comment(r, n) == \E k \in 0..Len(source[r][n].notes) :
    /\ copies[r][n] # NoCopy
    /\ k # 0 => /\ source[r][n].notes[k]
                /\ \A j \in DOMAIN copies[r][n].notes : copies[r][n].notes[j] < k
    /\ Write(r, n, [copies[r][n] EXCEPT !.notes = Append(@, k)])

UpToDate(r, n) == LET item == source[r][n]
                      copy == copies[r][n] IN
    /\ copy.rev = item.rev /\ copy.state = item.state
    /\ \A k \in DOMAIN item.notes : item.notes[k] => \E j \in DOMAIN copy.notes : copy.notes[j] = k

(* Record a position, or lose the record. *)
Promise(f, t) ==
    /\ \A r \in Repos : \A n \in DOMAIN source[r] :
        source[r][n].own /\ source[r][n].at <= t => UpToDate(r, n)
    /\ promise' = [promise EXCEPT ![f] = t]
    /\ UNCHANGED <<source, copies>>

Next ==
    \/ People
    \/ \E r \in Repos : \E n \in DOMAIN source[r] : Make(r, n) \/ Refresh(r, n) \/ Comment(r, n)
    \/ \E f \in Paths : Promise(f, 0) \/ Promise(f, promise'[f])

Spec == Init /\ [][Next]_vars

=============================================================================
