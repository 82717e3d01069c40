---------------------------- MODULE ListingState ----------------------------
(***************************************************************************)
(* The listing state machine of state_machine.py: what the evidence about  *)
(* a listing says of it.  Confidence scores are kept as their labels, and  *)
(* the age of the last sighting as the class the two thresholds give it.   *)
(***************************************************************************)
EXTENDS Integers

Outcomes == {"none", "deleted", "sold", "active", "unavailable", "unknown"}

\* Hours since the last sighting: up to 24, up to 72, more.
Ages == {"recent", "dated", "stale"}

States == {"active", "sold_observed", "sold_probable", "unavailable_non_conclusive",
           "deleted", "unknown"}

Verdicts == [state : States, basis : {"observed", "inferred", "unknown"},
             confidence : {"high", "medium", "low"}]

Verdict(state, basis, confidence) ==
  [state |-> state, basis |-> basis, confidence |-> confidence]

\* What a conclusive item-page probe settles by itself.
Settled ==
  [deleted     |-> Verdict("deleted", "observed", "high"),
   sold        |-> Verdict("sold_observed", "observed", "high"),
   active      |-> Verdict("active", "observed", "high"),
   unavailable |-> Verdict("unavailable_non_conclusive", "observed", "medium")]

\* What history says where no probe settles it.
Inferred(seen, misses, scanned, age) ==
  CASE seen -> Verdict("active", "observed", "high")
    [] ~seen /\ misses > 2 -> Verdict("sold_probable", "inferred", "high")
    [] ~seen /\ misses = 2 -> Verdict("sold_probable", "inferred", "medium")
    [] ~seen /\ misses = 1 -> Verdict("unavailable_non_conclusive", "inferred", "low")
    [] ~seen /\ misses = 0 /\ ~scanned /\ age = "recent" ->
         Verdict("active", "inferred", "medium")
    [] OTHER -> Verdict("unknown", "unknown", "low")

\* evaluate_listing_state: the latest probe outcome, whether the latest successful scan of
\* the primary catalog saw the listing, the scans that missed it since, whether there was
\* such a scan, and the age of the last sighting.
Evaluate(probe, seen, misses, scanned, age) ==
  IF probe \in DOMAIN Settled THEN Settled[probe] ELSE Inferred(seen, misses, scanned, age)
=============================================================================
