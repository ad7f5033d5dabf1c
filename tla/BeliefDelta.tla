----------------------------- MODULE BeliefDelta -----------------------------
(***************************************************************************)
(* Belief views and the deltas between them                                *)
(* (src/conrad/communication/delta.py).  A revision r of a belief changes  *)
(* one of two fields, r and r - 1 different ones, so that a delta put on   *)
(* the wrong base gives a view that no revision has.                       *)
(***************************************************************************)
EXTENDS Naturals

Fields == {0, 1}

\* The view of a belief nobody has told the holder about.
NoView == [rev |-> 0, fields |-> [f \in Fields |-> 0]]

\* belief_view: each field has the value of the last revision that changed it.
ViewOf(r) ==
  [rev |-> r,
   fields |-> [f \in Fields |-> IF r = 0 \/ r % 2 = f THEN r ELSE r - 1]]

\* compute_deltas has something to say.
HasNews(known, r) == known.rev < r

\* compute_deltas: the whole view to a receiver that has none, else what changed since its revision.
Delta(known, r) ==
  LET new == ViewOf(r)
      changed == {f \in Fields : new.fields[f] # known.fields[f]}
  IN [new |-> known = NoView, base |-> known.rev, rev |-> r,
      fields |-> [f \in IF known = NoView THEN Fields ELSE changed |-> new.fields[f]]]

\* apply_deltas raises ResyncRequired unless this holds.
Fits(view, d) == d.new \/ (view # NoView /\ view.rev = d.base)

\* apply_deltas: a stale full view changes nothing.
Applied(view, d) ==
  IF d.new /\ view.rev >= d.rev THEN view
  ELSE [rev |-> d.rev,
        fields |-> [f \in Fields |-> IF f \in DOMAIN d.fields THEN d.fields[f] ELSE view.fields[f]]]
=============================================================================
