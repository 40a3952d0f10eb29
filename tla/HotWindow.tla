----------------------------- MODULE HotWindow -----------------------------
(***************************************************************************)
(* The hot feed: interactions add to a bucket per minute; a window of the  *)
(* last minutes is merged on demand into a key of its own, which lives for *)
(* two minutes, and pages of it are read by rank.  The cursor of a page    *)
(* holds the end of the window and the next rank.                          *)
(***************************************************************************)
EXTENDS Integers, FiniteSets, FiniteSetsExt

CONSTANTS
  Clients,     \* clients that read the hot feed
  Ranked,      \* the videos, numbered: equal scores rank by the member
  Scores,      \* what an interaction adds, negative when it is undone
  Minutes,     \* bound: the minutes are 1..Minutes
  Window,      \* buckets of a window
  HotLimit,    \* items of a page
  NoWindow,    \* the key of the window does not exist
  MaxScores    \* bound: interactions

ASSUME HotAssumption ==
  /\ Ranked \subseteq Nat /\ IsFiniteSet(Ranked) /\ Scores \subseteq Int
  /\ {Minutes, Window, HotLimit} \subseteq Nat \ {0} /\ MaxScores \in Nat

VARIABLES
  minute,    \* the current minute
  bucket,    \* feed:hot:minute, by minute: the members and their scores
  window,    \* feed:hot:window, by the minute of its end
  reader,    \* a reader: its place in the walk and in ListHotWindowPage
  scored     \* interactions so far

hotVars == <<minute, bucket, window, reader, scored>>

\* rebuilt: the window was built anew while the walk was under way in it.
Start == [step |-> "idle", end |-> 0, offset |-> 0, shown |-> {}, rebuilt |-> FALSE, repeated |-> FALSE]

HotInit ==
  /\ minute = 1
  /\ bucket = [m \in 1 .. Minutes |-> [v \in {} |-> 0]]
  /\ window = [m \in 1 .. Minutes |-> NoWindow]
  /\ reader = [r \in Clients |-> Start]
  /\ scored = 0
----------------------------------------------------------------------------
Score(scores, v) == IF v \in DOMAIN scores THEN scores[v] ELSE 0

\* The worker adds to the bucket of the minute of the interaction.
AddHotScore(v, delta) ==
  /\ scored < MaxScores
  /\ scored' = scored + 1
  /\ bucket' = [bucket EXCEPT ![minute] =
                  [w \in DOMAIN @ \cup {v} |-> Score(@, w) + IF w = v THEN delta ELSE 0]]
  /\ UNCHANGED <<minute, window, reader>>

\* A bucket lives for two hours, twice as long as it counts.
NextMinute ==
  /\ minute < Minutes
  /\ minute' = minute + 1
  /\ UNCHANGED <<bucket, window, reader, scored>>

\* Mutant: every page is read from the window that ends now.
EndNow(r) == minute

\* The first page is read from the window that ends now, the others from that of
\* the cursor.
End(r) == IF reader[r].offset = 0 THEN minute ELSE reader[r].end

\* HotCandidateSource.Load, up to Exists.
LoadHot(r) ==
  LET end == End(r)
  IN  /\ reader[r].step = "idle"
      /\ reader' = [reader EXCEPT ![r].end = end,
                                  ![r].step = IF window[end] = NoWindow THEN "union" ELSE "list"]
      /\ UNCHANGED <<minute, bucket, window, scored>>

\* The sum of the buckets of the last minutes.
United(end) ==
  LET parts == {m \in 1 .. end : m > end - Window}
  IN  [v \in UNION {DOMAIN bucket[m] : m \in parts} |-> MapThenSumSet(LAMBDA m : Score(bucket[m], v), parts)]

\* An empty sorted set is no key.
Key(scores) == IF DOMAIN scores = {} THEN NoWindow ELSE scores

\* rebuildHotWindow takes two calls: the union, then the trim with the time to
\* live.
ZUnionStore(r) ==
  LET end == reader[r].end
  IN  /\ reader[r].step = "union"
      /\ window' = [window EXCEPT ![end] = Key(United(end))]
      /\ reader' = [q \in Clients |->
                     [reader[q] EXCEPT !.step = IF q = r THEN "trim" ELSE @,
                                       !.rebuilt = @ \/ (reader[q].offset > 0 /\ reader[q].end = end)]]
      /\ UNCHANGED <<minute, bucket, scored>>

Positive(scores) == [v \in {w \in DOMAIN scores : scores[w] > 0} |-> scores[v]]

Trim(r) ==
  LET end == reader[r].end
  IN  /\ reader[r].step = "trim"
      /\ window' = [window EXCEPT ![end] = IF @ = NoWindow THEN NoWindow ELSE Key(Positive(@))]
      /\ reader' = [reader EXCEPT ![r].step = "list"]
      /\ UNCHANGED <<minute, bucket, scored>>

Above(scores, v) ==
  {w \in DOMAIN scores : scores[w] > scores[v] \/ (scores[w] = scores[v] /\ w > v)}

\* The members at the ranks from the offset on.
Ranks(scores, offset) ==
  {v \in DOMAIN scores : Cardinality(Above(scores, v)) \in offset .. offset + HotLimit - 1}

\* The last page, or a failure, ends the walk: the next one starts at the top.
ListHot(r) ==
  LET at    == reader[r]
      items == IF window[at.end] = NoWindow THEN {} ELSE Ranks(window[at.end], at.offset)
      more  == items # {} /\ Cardinality(DOMAIN window[at.end]) > at.offset + HotLimit
  IN  /\ at.step = "list"
      /\ reader' = [reader EXCEPT ![r] =
                      IF more
                      THEN [at EXCEPT !.step = "idle", !.offset = @ + HotLimit,
                                      !.shown = @ \cup items, !.repeated = @ \/ items \cap at.shown # {}]
                      ELSE [at EXCEPT !.step = "end", !.repeated = @ \/ items \cap at.shown # {}]]
      /\ UNCHANGED <<minute, bucket, window, scored>>

StartAgain(r) ==
  /\ reader[r].step # "idle" \/ reader[r].offset > 0
  /\ reader' = [reader EXCEPT ![r] = Start]
  /\ UNCHANGED <<minute, bucket, window, scored>>

\* The time to live is set with the trim.
ExpireWindow(m) ==
  /\ window[m] # NoWindow
  /\ \A r \in Clients : reader[r].step = "trim" => reader[r].end # m
  /\ window' = [window EXCEPT ![m] = NoWindow]
  /\ UNCHANGED <<minute, bucket, reader, scored>>
----------------------------------------------------------------------------
HotNext ==
  \/ \E v \in Ranked, delta \in Scores : AddHotScore(v, delta)
  \/ NextMinute
  \/ \E r \in Clients : LoadHot(r) \/ ZUnionStore(r) \/ Trim(r) \/ ListHot(r) \/ StartAgain(r)
  \/ \E m \in 1 .. Minutes : ExpireWindow(m)

HotSpec == HotInit /\ [][HotNext]_hotVars
----------------------------------------------------------------------------
(* Properties.                                                             *)

\* Sums of scores are left untyped: a window is known by its members.
HotTypeOK ==
  /\ minute \in 1 .. Minutes
  /\ DOMAIN bucket = 1 .. Minutes /\ DOMAIN window = 1 .. Minutes
  /\ \A m \in 1 .. Minutes : DOMAIN bucket[m] \subseteq Ranked /\ bucket[m] \in [DOMAIN bucket[m] -> Int]
  /\ \A m \in 1 .. Minutes : window[m] # NoWindow => DOMAIN window[m] \subseteq Ranked
  /\ reader \in [Clients -> [step : {"idle", "union", "trim", "list", "end"}, end : 0 .. Minutes,
                             offset : Nat, shown : SUBSET Ranked, rebuilt : BOOLEAN, repeated : BOOLEAN]]
  /\ scored \in 0 .. MaxScores

\* What a walk has shown is above its next rank in the window of its cursor, or no longer there,
\* unless the window was built anew.
ShownAbove(r) ==
  LET at == reader[r]
  IN  ~at.rebuilt /\ window[at.end] # NoWindow =>
        \A v \in at.shown \cap DOMAIN window[at.end] : Cardinality(Above(window[at.end], v)) < at.offset

\* A reader that has begun a walk knows its window.
WalkHasWindow(r) ==
  /\ reader[r].step # "idle" \/ reader[r].offset > 0 => reader[r].end > 0
  /\ reader[r].offset = 0 => reader[r].shown = {}

\* A walk repeats a video only if its window was built anew under it: scores that
\* arrive, minutes that pass, the trim and other readers do not move the ranks.
HotWalkRepeatsNothing == \A r \in Clients : reader[r].repeated => reader[r].rebuilt

\* Every step of a walk preserves it: the ranks of a window that is not built anew only rise.
HotInv ==
  /\ HotTypeOK /\ HotWalkRepeatsNothing
  /\ \A r \in Clients : WalkHasWindow(r) /\ (reader[r].offset > 0 => ShownAbove(r))
============================================================================
