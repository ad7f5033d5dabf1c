----------------------------- MODULE BeliefLog ------------------------------
(***************************************************************************)
(* What the belief repository promises (CC-01 to CC-03 of                  *)
(* src/tests/contract/test_cc_persistence.py): every belief is a log of    *)
(* revisions that only grows, one whole revision at a time; a piece of     *)
(* evidence enters a belief at most once; and each revision states how     *)
(* many independent observations the belief rests on.  Nothing is said of  *)
(* transactions, faults, producers or the order of the beliefs.            *)
(***************************************************************************)
EXTENDS Naturals, Sequences, FiniteSets, Functions

CONSTANTS
  Beliefs,      \* the beliefs that may exist
  GroupOf(_)    \* the independence group of a piece of evidence

VARIABLE log    \* per belief: its revisions

Init == \A b \in DOMAIN log : Len(log[b]) <= 1

UsedIn(revisions) == UNION {revisions[i].used : i \in DOMAIN revisions}

\* r may follow the revisions of a belief.
Follows(r, revisions) ==
  /\ r.rev = Len(revisions)
  /\ r.used \cap UsedIn(revisions) = {}
  /\ (r.used # {}) <=> (r.kind = "DIRECT")
  /\ \A e, f \in r.used \cup UsedIn(revisions) : e.obs = f.obs => e = f
  /\ r.count = Cardinality({GroupOf(e) : e \in r.used \cup UsedIn(revisions)})

Grow(b) ==
  /\ Len(log'[b]) = Len(log[b]) + 1
  /\ SubSeq(log'[b], 1, Len(log[b])) = log[b]
  /\ Follows(log'[b][Len(log'[b])], log[b])
  /\ \A other \in Beliefs \ {b} : log'[other] = log[other]

Next == \E b \in Beliefs : Grow(b)

Spec == Init /\ [][Next]_log
=============================================================================
