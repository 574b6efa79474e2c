------------------------------ MODULE Matches -------------------------------
(***************************************************************************)
(* The operations of match.Matches (grype/match/matches.go) on two         *)
(* collections: matches are added in any order, one collection is merged   *)
(* into the other or replaced by its difference from it.  Merge and Diff   *)
(* walk over Go maps, in no particular order, and add match by match: one  *)
(* step of the model is one Add.                                           *)
(***************************************************************************)
EXTENDS MatchSet

CONSTANTS
  Colls,       \* the collections
  Inputs,      \* the matches the matchers produce
  MaxAdds      \* bound on the number of matches added by callers

ASSUME MatchesAssumption ==
  /\ Inputs \subseteq Match
  /\ MaxAdds \in Nat

VARIABLES
  coll,     \* the collections
  given,    \* history: for each collection, the matches given to Add
  job,      \* the Merge or Diff under way: what it writes to and has left
  adds      \* how many matches callers have added

vars == <<coll, given, job, adds>>

Idle == [into |-> "none", todo |-> {}]

Init ==
  /\ coll = [c \in Colls |-> newMatches]
  /\ given = [c \in Colls |-> {}]
  /\ job = Idle
  /\ adds = 0

AddTo(c, m) ==
  /\ coll' \in {[coll EXCEPT ![c] = r] : r \in Add(coll[c], m)}
  /\ given' = [given EXCEPT ![c] = @ \cup {m}]

(* A caller adds one match (NewMatches is a sequence of these).            *)
CallAdd(c, m) ==
  /\ job = Idle
  /\ adds < MaxAdds
  /\ adds' = adds + 1
  /\ AddTo(c, m)
  /\ UNCHANGED job

(* r.Merge(other) adds what the other's byPackage index names.             *)
CallMerge(c, d) ==
  /\ job = Idle
  /\ c # d
  /\ \E p \in Pkgs : coll[d].byPackage[p] # {}
  /\ job' = [into |-> c,
             todo |-> UNION {GetByPkgID(coll[d], p) : p \in Pkgs}]
  /\ UNCHANGED <<coll, given, adds>>

(* diff := r.Diff(other) starts from an empty collection and adds those of *)
(* r's matches whose fingerprint other does not have.                      *)
CallDiff(c, d) ==
  /\ job = Idle
  /\ c # d
  /\ LET only == {m \in Stored(coll[c]) : Fingerprint(m) \notin DOMAIN coll[d].byFingerprint}
     IN /\ Stored(coll[c]) # {}
        /\ job' = IF only = {} THEN Idle ELSE [into |-> c, todo |-> only]
  /\ coll' = [coll EXCEPT ![c] = newMatches]
  /\ given' = [given EXCEPT ![c] = {}]
  /\ UNCHANGED adds

(* The next iteration of the loop of Merge or Diff.                        *)
AddNext(m) ==
  /\ m \in job.todo
  /\ AddTo(job.into, m)
  /\ job' = IF job.todo = {m} THEN Idle ELSE [job EXCEPT !.todo = @ \ {m}]
  /\ UNCHANGED adds

Next ==
  \/ \E c \in Colls, m \in Inputs : CallAdd(c, m)
  \/ \E c, d \in Colls : CallMerge(c, d) \/ CallDiff(c, d)
  \/ \E m \in job.todo : AddNext(m)

Spec == Init /\ [][Next]_vars

-----------------------------------------------------------------------------
(* The three maps of a collection agree (see Indexed).                     *)
IndexesAgree == \A c \in Colls : Indexed(coll[c])

(* No evidence is lost: every detail of every match given to a collection  *)
(* is on a stored match of the same vulnerability and package, however     *)
(* often that match was merged or replaced since.                          *)
DetailsKept ==
  \A c \in Colls : \A m \in given[c] : \A d \in m.details :
    \E x \in Stored(coll[c]) : coreFingerprint(x) = coreFingerprint(m) /\ d \in x.details

(* And none is invented: a stored detail was given for that vulnerability  *)
(* and package.                                                            *)
DetailsGiven ==
  \A c \in Colls : \A x \in Stored(coll[c]) : \A d \in x.details :
    \E m \in given[c] : coreFingerprint(x) = coreFingerprint(m) /\ d \in m.details

(* What a direct match says is fixed stays reported: apart from Diff,      *)
(* which starts over, no operation removes a stored match unless all its   *)
(* details are indirect.                                                   *)
DirectStays ==
  [][\A c \in Colls : \A fp \in DOMAIN coll[c].byFingerprint :
       \/ fp \in DOMAIN coll'[c].byFingerprint
       \/ hasExclusivelyAnyMatchTypes(coll[c].byFingerprint[fp].details,
                                      {"exact-indirect-match"})
       \/ given'[c] = {}]_vars

=============================================================================
