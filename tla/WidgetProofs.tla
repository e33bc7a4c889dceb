---------------------------- MODULE WidgetProofs ----------------------------
(***************************************************************************)
(* Proofs about a widget request: about Dispatch, for any policies and any *)
(* number of edits; about Glob, for any pattern and text; and about Reads  *)
(* and Listings, for any numbers of rows, entries, pages and bytes.        *)
(*                                                                         *)
(* For a call, what a policy allows is never looked into: the argument     *)
(* only needs that an invalid one allows nothing, and that the wanted      *)
(* operation and the widget that wants it stay the same (Settled).         *)
(*                                                                         *)
(* A scan that says yes has described the text on its way (Described).     *)
(* One that says no was never behind: however the pattern may describe     *)
(* the text, its last star ends no earlier than the scan lets it, and      *)
(* what follows the star is as long as what the scan has read since        *)
(* (NothingSkipped).                                                       *)
(*                                                                         *)
(* An answer is honest if its coverage tells everything that is missing    *)
(* from it (Tells).  What an operator of Coverage does to what a coverage  *)
(* tells is stated once, as what remains of its claims (Says, Open), and   *)
(* each answer is put together from that.  A listing is cut or fails many  *)
(* pages before it is answered: ListInv carries the reason to its end.     *)
(*                                                                         *)
(* Sorted results of one each of n jobs have job i in place i: the sort is *)
(* a bijection, so the jobs of the sorted results are increasing and each  *)
(* of 1..n is among them (InOrderPlaces).                                  *)
(*                                                                         *)
(* That every set of natural numbers has a least member (Least) gives      *)
(* induction (Induct), for what the sizes of a page sum up to.             *)
(***************************************************************************)
EXTENDS Dispatch, Glob, Listings, Reads, FiniteSetTheorems, WellFoundedInduction, TLAPS

\* A widget other than aws-cli was asked about before it is queued.
AskedFirst == ~cli /\ progress \in {"asked", "queued", "granted", "read", "made"} => Allows(snapshot)

\* The history remembers what the file allowed since the grant.
Remembered == progress \in {"granted", "read"} /\ Allows(file) => allowedSince

\* So does what was read of the file.
ReadRemembered == progress = "read" /\ Allows(current) => allowedSince

\* The last two steps of a call.
Passed ==
  /\ progress \in {"authorized", "made"} => allowedSince
  /\ progress = "made" => Allows(snapshot)
  /\ progress = "authorized" => cli

DispatchInv == AskedFirst /\ Remembered /\ ReadRemembered /\ Passed

Settled == operation' = operation /\ cli' = cli

-----------------------------------------------------------------------------
\* A policy that is missing, too long, late or malformed allows nothing.
LEMMA InvalidAllowsNothing == ~Allows(Invalid)
BY DEF Allows, Gated, GateCli, Gate

\* What a policy allows does not change while the call is on its way.
LEMMA AllowsSettled ==
  Settled => \A p :
    /\ snapshot' = p => (Allows(snapshot)' <=> Allows(p))
    /\ file' = p => (Allows(file)' <=> Allows(p))
    /\ current' = p => (Allows(current)' <=> Allows(p))
BY DEF Settled, Allows, Gated, CredentialPreflight

\* A widget's call begins before it is asked about, an aws-cli command in the queue.
LEMMA InitDispatch == Init => DispatchInv
BY DEF Init, DispatchInv, AskedFirst, Remembered, ReadRemembered, Passed

\* Every step keeps what is known of the call at its progress.
LEMMA StepDispatch == DispatchInv /\ [Next]_vars => DispatchInv'
<1> SUFFICES ASSUME DispatchInv, [Next]_vars PROVE DispatchInv'
  OBVIOUS
<1> USE DEF DispatchInv, AskedFirst, Remembered, ReadRemembered, Passed
<1>1. CASE Preflight
  BY <1>1, AllowsSettled DEF Preflight, Enter, Settled
<1>2. CASE Send
  BY <1>2, AllowsSettled DEF Send, Enter, Settled
<1>3. CASE Grant
  BY <1>3, AllowsSettled DEF Grant, Settled
<1>4. CASE ReadCurrentPolicy
  BY <1>4, AllowsSettled, InvalidAllowsNothing DEF ReadCurrentPolicy, Settled
<1>5. CASE Authorize
  BY <1>5, AllowsSettled DEF Authorize, Enter, Settled
<1>6. CASE RunCommand
  BY <1>6, AllowsSettled DEF RunCommand, Enter, Settled
<1>7. CASE GiveUp
  BY <1>7, AllowsSettled DEF GiveUp, Enter, Settled
<1>8. CASE Cancel
  BY <1>8, AllowsSettled DEF Cancel, Settled
<1>9. ASSUME NEW policy \in Policies, Edit(policy) PROVE DispatchInv'
  BY <1>9, AllowsSettled DEF Edit, Settled
<1>10. CASE UNCHANGED vars
  BY <1>10, AllowsSettled DEF vars, Settled
<1> HIDE DEF DispatchInv
<1> QED
  BY <1>1, <1>2, <1>3, <1>4, <1>5, <1>6, <1>7, <1>8, <1>9, <1>10 DEF Next

\* No call is made that the policy on disk did not allow at some time after its
\* permit was granted, however many policies there are and however often they change.
THEOREM CallsAreAllowed == Spec => []DispatchedUnderCurrentPolicy
<1>1. DispatchInv => DispatchedUnderCurrentPolicy
  BY DEF DispatchInv, Passed, DispatchedUnderCurrentPolicy
<1> QED
  BY <1>1, InitDispatch, StepDispatch, PTL DEF Spec

-----------------------------------------------------------------------------
(* The matcher: Glob *)

\* The first i characters of the pattern describe the first j of the text.
Fits(i, j) ==
  \E end \in [0..i -> Nat] : end[0] = 0 /\ end[i] = j /\ Describes(end, pattern, text)

\* How the pattern may describe the text.
Ways ==
  {end \in [0..Len(pattern) -> 0..Len(text)] :
     end[0] = 0 /\ end[Len(pattern)] = Len(text) /\ Describes(end, pattern, text)}

\* Where the scan is, and what it goes back to.
ScanTyped ==
  /\ pattern \in Seq(Letters \cup {"*", "?"}) /\ text \in Seq(Letters)
  /\ pi \in 1..(Len(pattern) + 1) /\ ti \in 1..(Len(text) + 1)
  /\ star \in 0..(pi - 1) /\ mark \in 1..ti
  /\ star > 0 => pattern[star] = "*"
  /\ star = 0 => mark = 1

Described == Fits(pi - 1, ti - 1) /\ (star > 0 => Fits(star, mark - 1))

NothingSkipped ==
  \A end \in Ways : end[star] >= mark - 1 /\ end[pi - 1] - end[star] = ti - mark

ScanInv ==
  IF matched = "scanning" THEN ScanTyped /\ Described /\ NothingSkipped
                          ELSE GlobMatchesReference

\* Nothing describes nothing.
LEMMA EmptyFits == Fits(0, 0)
  <1> DEFINE end == [k \in 0..0 |-> 0]
  <1>1. end \in [0..0 -> Nat] /\ end[0] = 0
    OBVIOUS
  <1>2. \A i \in DOMAIN end : i = 0
    OBVIOUS
  <1>3. Describes(end, pattern, text)
    BY <1>1, <1>2 DEF Describes
  <1> QED
    BY <1>1, <1>3 DEF Fits

\* A character that is described goes on the one before, a star where that stops.
LEMMA FitsNext ==
  ASSUME NEW i \in Nat, NEW j \in Nat, Fits(i, j), NEW n \in {j, j + 1},
         IF pattern[i + 1] = "*" THEN TRUE
         ELSE n = j + 1 /\ pattern[i + 1] \in {"?", text[n]}
  PROVE  Fits(i + 1, n)
  <1>1. PICK end \in [0..i -> Nat] :
          end[0] = 0 /\ end[i] = j /\ Describes(end, pattern, text)
    BY DEF Fits
  <1> DEFINE next == [k \in 0..(i + 1) |-> IF k = i + 1 THEN n ELSE end[k]]
  <1>2. next \in [0..(i + 1) -> Nat] /\ next[0] = 0 /\ next[i + 1] = n
    BY <1>1
  <1>3. \A k \in 0..i : next[k] = end[k] /\ end[k] <= j
    BY <1>1 DEF Describes
  <1>4. \A k, l \in 0..(i + 1) : k <= l => next[k] <= next[l]
    BY <1>1, <1>2, <1>3 DEF Describes
  <1>5. ASSUME NEW k \in 0..(i + 1), k > 0, pattern[k] # "*"
        PROVE  next[k] = next[k - 1] + 1 /\ pattern[k] \in {"?", text[next[k]]}
    <2>1. CASE k = i + 1
      BY <2>1, <1>1, <1>2, <1>3, <1>5
    <2>2. CASE k # i + 1
      <3>1. k \in 0..i /\ k - 1 \in 0..i
        BY <2>2, <1>5
      <3>2. end[k] = end[k - 1] + 1 /\ pattern[k] \in {"?", text[end[k]]}
        BY <3>1, <1>1, <1>5 DEF Describes
      <3> QED
        BY <3>1, <3>2, <1>3
    <2> QED
      BY <2>1, <2>2
  <1>6. Describes(next, pattern, text)
    BY <1>2, <1>4, <1>5 DEF Describes
  <1> QED
    BY <1>2, <1>6 DEF Fits

\* A star may take one character more.
LEMMA StarTakes ==
  ASSUME NEW i \in Nat \ {0}, NEW j \in Nat, Fits(i, j), pattern[i] = "*"
  PROVE  Fits(i, j + 1)
  <1>1. PICK end \in [0..i -> Nat] :
          end[0] = 0 /\ end[i] = j /\ Describes(end, pattern, text)
    BY DEF Fits
  <1> DEFINE longer == [end EXCEPT ![i] = j + 1]
  <1>2. longer \in [0..i -> Nat] /\ longer[0] = 0 /\ longer[i] = j + 1
    BY <1>1
  <1>3. \A k \in 0..i : k # i => longer[k] = end[k] /\ end[k] <= j
    BY <1>1 DEF Describes
  <1>4. Describes(longer, pattern, text)
    BY <1>1, <1>2, <1>3 DEF Describes
  <1> QED
    BY <1>2, <1>4 DEF Fits

\* What the pattern describes from end to end it matches.
LEMMA FitsMatches ==
  ASSUME ScanTyped, Fits(Len(pattern), Len(text)) PROVE Matches(pattern, text)
  <1>1. PICK end \in [0..Len(pattern) -> Nat] :
          /\ end[0] = 0 /\ end[Len(pattern)] = Len(text)
          /\ Describes(end, pattern, text)
    BY DEF Fits
  <1>2. Len(pattern) \in Nat /\ Len(text) \in Nat
    BY DEF ScanTyped
  <1>3. \A k \in 0..Len(pattern) : end[k] <= Len(text)
    BY <1>1, <1>2 DEF Describes
  <1>4. end \in [0..Len(pattern) -> 0..Len(text)]
    BY <1>1, <1>2, <1>3
  <1> QED
    BY <1>1, <1>4 DEF Matches

\* Stars at the end of a pattern describe nothing more.
LEMMA StarsFit ==
  ASSUME ScanTyped, Fits(pi - 1, Len(text)),
         \A i \in pi..Len(pattern) : pattern[i] = "*"
  PROVE  Fits(Len(pattern), Len(text))
  <1>1. PICK end \in [0..(pi - 1) -> Nat] :
          /\ end[0] = 0 /\ end[pi - 1] = Len(text)
          /\ Describes(end, pattern, text)
    BY DEF Fits
  <1>2. Len(pattern) \in Nat /\ Len(text) \in Nat /\ pi \in 1..(Len(pattern) + 1)
    BY DEF ScanTyped
  <1> DEFINE whole == [k \in 0..Len(pattern) |-> IF k < pi THEN end[k] ELSE Len(text)]
  <1>3. /\ whole \in [0..Len(pattern) -> Nat] /\ whole[0] = 0
        /\ whole[Len(pattern)] = Len(text)
    BY <1>1, <1>2
  <1>4. \A k \in 0..(pi - 1) : whole[k] = end[k] /\ end[k] <= Len(text)
    BY <1>1, <1>2 DEF Describes
  <1>5. \A k, l \in 0..Len(pattern) : k <= l => whole[k] <= whole[l]
    BY <1>1, <1>2, <1>3, <1>4 DEF Describes
  <1>6. ASSUME NEW k \in 0..Len(pattern), k > 0, pattern[k] # "*"
        PROVE  whole[k] = whole[k - 1] + 1 /\ pattern[k] \in {"?", text[whole[k]]}
    <2>1. k \in 0..(pi - 1) /\ k - 1 \in 0..(pi - 1)
      BY <1>2, <1>6
    <2>2. end[k] = end[k - 1] + 1 /\ pattern[k] \in {"?", text[end[k]]}
      BY <2>1, <1>1, <1>6 DEF Describes
    <2> QED
      BY <2>1, <2>2, <1>4
  <1>7. Describes(whole, pattern, text)
    BY <1>3, <1>5, <1>6 DEF Describes
  <1> QED
    BY <1>3, <1>7 DEF Fits

\* A way keeps its ends in order and within the text, and is strict about letters.
LEMMA WayIs ==
  ASSUME ScanTyped, NEW end \in Ways
  PROVE  /\ \A i \in 0..Len(pattern) : end[i] \in 0..Len(text)
         /\ end[0] = 0 /\ end[Len(pattern)] = Len(text)
         /\ \A i, j \in 0..Len(pattern) : i <= j => end[i] <= end[j]
         /\ \A i \in 1..Len(pattern) : pattern[i] # "*" =>
              end[i] = end[i - 1] + 1 /\ pattern[i] \in {"?", text[end[i]]}
  <1>1. Len(pattern) \in Nat
    BY DEF ScanTyped
  <1>2. end \in [0..Len(pattern) -> 0..Len(text)] /\ Describes(end, pattern, text)
    BY DEF Ways
  <1> QED
    BY <1>1, <1>2 DEF Ways, Describes

\* At a mismatch no way ends the last star where the scan does.
LEMMA MismatchSkips ==
  ASSUME ScanTyped, NothingSkipped, ti <= Len(text), ~At({"?", "*", text[ti]}),
         NEW end \in Ways
  PROVE  end[star] >= mark
  <1>1. /\ Len(pattern) \in Nat /\ Len(text) \in Nat /\ pi \in 1..(Len(pattern) + 1)
        /\ ti \in Nat /\ mark \in Nat /\ star \in 0..(pi - 1)
    BY DEF ScanTyped
  <1>2. end[star] >= mark - 1 /\ end[pi - 1] - end[star] = ti - mark
    BY DEF NothingSkipped
  <1>3. end[star] \in Nat /\ end[pi - 1] \in Nat
    BY <1>1, WayIs
  <1>4. ASSUME end[star] = mark - 1 PROVE FALSE
    <2>1. end[pi - 1] = ti - 1
      BY <1>1, <1>2, <1>3, <1>4
    <2>2. pi <= Len(pattern)
      BY <2>1, <1>1, WayIs
    <2>3. pattern[pi] \notin {"?", "*", text[ti]}
      BY <2>2 DEF At
    <2>4. end[pi] = end[pi - 1] + 1 /\ pattern[pi] \in {"?", text[end[pi]]}
      BY <2>2, <2>3, <1>1, WayIs
    <2> QED
      BY <2>1, <2>3, <2>4, <1>1
  <1> QED
    BY <1>1, <1>2, <1>3, <1>4

\* Without a way, nothing matches.
LEMMA WaysAre == Matches(pattern, text) <=> Ways # {}
  BY DEF Matches, Ways

\* The scan begins before both.
LEMMA InitScan == ASSUME ScanInit PROVE ScanInv
  <1>1. pattern \in Seq(Letters \cup {"*", "?"}) /\ text \in Seq(Letters)
    BY GlobAssumption DEF ScanInit, Strings
  <1>2. Len(pattern) \in Nat /\ Len(text) \in Nat
    BY <1>1
  <1>3. ScanTyped
    BY <1>1, <1>2 DEF ScanInit, ScanTyped
  <1>4. Described
    BY EmptyFits DEF Described, ScanInit
  <1>5. NothingSkipped
    BY <1>3, WayIs DEF NothingSkipped, ScanInit
  <1> QED
    BY <1>3, <1>4, <1>5 DEF ScanInv, ScanInit

\* Pattern and text stay, and so do the ways.
LEMMA SameText ==
  ASSUME UNCHANGED <<pattern, text>>
  PROVE  /\ Ways' = Ways /\ (Matches(pattern, text)' <=> Matches(pattern, text))
         /\ \A i, j : Fits(i, j)' <=> Fits(i, j)
  BY DEF Ways, Matches, Fits

\* A character of the pattern describes the next one of the text.
LEMMA StepScans ==
  ASSUME ScanInv, Step PROVE ScanInv'
  <1>1. /\ ScanTyped /\ Described /\ NothingSkipped /\ matched = "scanning" /\ ti <= Len(text)
        /\ pi <= Len(pattern) /\ pattern[pi] \in {"?", text[ti]}
    BY DEF ScanInv, Step, Scanning, At
  <1>2. /\ Len(pattern) \in Nat /\ Len(text) \in Nat /\ pi \in Nat \ {0} /\ ti \in Nat \ {0}
        /\ star \in 0..(pi - 1) /\ mark \in 1..ti /\ pattern[pi] # "*"
    BY <1>1, GlobAssumption DEF ScanTyped
  <1>3. ScanTyped'
    BY <1>1, <1>2 DEF ScanTyped, Step
  <1>4. Fits(pi, ti)
    BY <1>1, <1>2, FitsNext DEF Described
  <1>5. Described'
    BY <1>1, <1>2, <1>4, SameText DEF Described, Step
  <1>6. \A end \in Ways : end[pi] = end[pi - 1] + 1 /\ end[pi - 1] \in Nat /\ end[star] \in Nat
    BY <1>1, <1>2, WayIs
  <1>7. NothingSkipped'
    BY <1>1, <1>2, <1>6, SameText DEF NothingSkipped, Step
  <1> QED
    BY <1>1, <1>3, <1>5, <1>7 DEF ScanInv, Step

\* A star describes nothing yet.
LEMMA StarScans ==
  ASSUME ScanInv, Star PROVE ScanInv'
  <1>1. /\ ScanTyped /\ Described /\ NothingSkipped /\ matched = "scanning" /\ ti <= Len(text)
        /\ pi <= Len(pattern) /\ pattern[pi] = "*"
    BY DEF ScanInv, Star, Scanning, At
  <1>2. /\ Len(pattern) \in Nat /\ Len(text) \in Nat /\ pi \in Nat \ {0} /\ ti \in Nat \ {0}
        /\ star \in 0..(pi - 1) /\ mark \in 1..ti
    BY <1>1 DEF ScanTyped
  <1>3. ScanTyped'
    BY <1>1, <1>2 DEF ScanTyped, Star
  <1>4. Fits(pi, ti - 1)
    BY <1>1, <1>2, FitsNext DEF Described
  <1>5. Described'
    BY <1>1, <1>2, <1>4, SameText DEF Described, Star
  <1>6. \A end \in Ways :
          /\ end[pi] >= end[pi - 1] /\ end[pi] \in Nat
          /\ end[pi - 1] \in Nat /\ end[star] \in Nat
    BY <1>1, <1>2, WayIs
  <1>7. NothingSkipped'
    BY <1>1, <1>2, <1>6, SameText DEF NothingSkipped, Star
  <1> QED
    BY <1>1, <1>3, <1>5, <1>7 DEF ScanInv, Star

\* What the last star has left to the letters after it was too little for any way.
LEMMA BacktrackScans ==
  ASSUME ScanInv, Backtrack PROVE ScanInv'
  <1>1. /\ ScanTyped /\ Described /\ NothingSkipped /\ matched = "scanning" /\ ti <= Len(text)
        /\ ~At({"?", "*", text[ti]}) /\ star > 0 /\ pattern[star] = "*"
    BY DEF ScanInv, Backtrack, Scanning, ScanTyped
  <1>2. /\ Len(pattern) \in Nat /\ Len(text) \in Nat /\ pi \in 1..(Len(pattern) + 1)
        /\ ti \in Nat \ {0} /\ star \in 1..(pi - 1) /\ mark \in 1..ti
    BY <1>1 DEF ScanTyped
  <1>3. ScanTyped'
    BY <1>1, <1>2 DEF ScanTyped, Backtrack
  <1>4. Fits(star, mark)
    BY <1>1, <1>2, StarTakes DEF Described
  <1>5. Described'
    BY <1>1, <1>2, <1>4, SameText DEF Described, Backtrack
  <1>6. \A end \in Ways : end[star] >= mark /\ end[star] \in Nat
    BY <1>1, <1>2, MismatchSkips, WayIs
  <1>7. NothingSkipped'
    BY <1>1, <1>2, <1>6, SameText DEF NothingSkipped, Backtrack
  <1> QED
    BY <1>1, <1>3, <1>5, <1>7 DEF ScanInv, Backtrack

\* Without a star there is no other way.
LEMMA MismatchAnswers ==
  ASSUME ScanInv, Mismatch PROVE ScanInv'
  <1>1. /\ ScanTyped /\ NothingSkipped /\ ti <= Len(text) /\ star = 0 /\ mark = 1
        /\ ~At({"?", "*", text[ti]})
    BY DEF ScanInv, Mismatch, Scanning, ScanTyped
  <1>2. \A end \in Ways : end[star] >= mark /\ end[0] = 0
    BY <1>1, MismatchSkips, WayIs
  <1>3. Ways = {}
    BY <1>1, <1>2
  <1>4. ~Matches(pattern, text)'
    BY <1>3, WaysAre, SameText DEF Mismatch
  <1> QED
    BY <1>4 DEF ScanInv, Mismatch, GlobMatchesReference

\* At the end of the text every way is, and only stars can follow.
LEMMA EndAnswers ==
  ASSUME ScanInv, AtEnd PROVE ScanInv'
  <1>1. ScanTyped /\ Described /\ NothingSkipped /\ ti > Len(text)
    BY DEF ScanInv, AtEnd
  <1>2. /\ Len(pattern) \in Nat /\ Len(text) \in Nat /\ pi \in 1..(Len(pattern) + 1)
        /\ ti = Len(text) + 1 /\ star \in 0..(pi - 1) /\ mark \in 1..ti
    BY <1>1 DEF ScanTyped
  <1>3. CASE \A i \in pi..Len(pattern) : pattern[i] = "*"
    <2>1. Fits(pi - 1, Len(text))
      BY <1>1, <1>2 DEF Described
    <2>2. Matches(pattern, text)
      BY <1>1, <1>3, <2>1, StarsFit, FitsMatches
    <2> QED
      BY <1>3, <2>2, SameText DEF ScanInv, AtEnd, GlobMatchesReference
  <1>4. CASE \E i \in pi..Len(pattern) : pattern[i] # "*"
    <2>1. PICK i \in pi..Len(pattern) : pattern[i] # "*"
      BY <1>4
    <2>2. ASSUME NEW end \in Ways PROVE FALSE
      <3>1. end[star] >= mark - 1 /\ end[pi - 1] - end[star] = ti - mark
        BY <1>1, <2>2 DEF NothingSkipped
      <3>2. end[star] \in Nat /\ end[pi - 1] \in Nat
        BY <1>1, <1>2, WayIs
      <3>3. end[pi - 1] >= Len(text)
        BY <3>1, <3>2, <1>2
      <3>4. end[i - 1] >= end[pi - 1] /\ end[i] = end[i - 1] + 1 /\ end[i] <= Len(text)
        BY <1>1, <1>2, <2>1, WayIs
      <3>5. end[i - 1] \in Nat
        BY <1>1, <1>2, <2>1, WayIs
      <3> QED
        BY <3>2, <3>3, <3>4, <3>5, <1>2
    <2>3. ~Matches(pattern, text)
      BY <2>2, WaysAre
    <2> QED
      BY <1>4, <2>3, SameText DEF ScanInv, AtEnd, GlobMatchesReference
  <1> QED
    BY <1>3, <1>4

\* The scan answers what the pattern means, for every pattern and every text without a
\* star of its own, however many stars it goes back to.
THEOREM MatcherIsRight == ScanSpec => []GlobMatchesReference
  <1>1. ScanInit => ScanInv
    BY InitScan
  <1>2. ASSUME ScanInv, [ScanNext]_scanVars PROVE ScanInv'
    <2>1. CASE UNCHANGED scanVars
      BY <1>2, <2>1, SameText
      DEF ScanInv, ScanTyped, Described, NothingSkipped, GlobMatchesReference, scanVars
    <2> QED
      BY <1>2, <2>1, StepScans, StarScans, BacktrackScans, MismatchAnswers, EndAnswers
      DEF ScanNext
  <1>3. ScanInv => GlobMatchesReference
    BY DEF ScanInv, GlobMatchesReference
  <1> QED
    BY <1>1, <1>2, <1>3, PTL DEF ScanSpec

-----------------------------------------------------------------------------
(* Numbers and pages *)

\* A set of natural numbers has a least one.
LEMMA Least ==
  ASSUME NEW T, T \subseteq Nat, T # {} PROVE \E m \in T : \A k \in T : m <= k
  <1>1. \E R : IsWellFoundedOn(R, Nat) /\ \A x, y \in Nat : <<y, x>> \in R <=> y < x
    <2>1. IsWellFoundedOn(OpToRel(<, Nat), Nat)
      BY NatLessThanWellFounded
    <2>2. \A x, y \in Nat : <<y, x>> \in OpToRel(<, Nat) <=> y < x
      BY DEF OpToRel
    <2> QED
      BY <2>1, <2>2, Zenon
  <1>2. PICK R : IsWellFoundedOn(R, Nat) /\ \A x, y \in Nat : <<y, x>> \in R <=> y < x
    BY <1>1
  <1>3. PICK m \in T : \A k \in T : ~ (<<k, m>> \in R)
    BY <1>2, WFMin
  <1>4. \A k \in T : ~ (k < m) /\ k \in Nat /\ m \in Nat
    BY <1>2, <1>3
  <1>5. \A k \in T : m <= k
    BY <1>4
  <1> QED
    BY <1>5

\* A set that has 0, and with every number the next, has them all.
LEMMA Induct ==
  ASSUME NEW S, 0 \in S, \A n \in Nat : n \in S => n + 1 \in S PROVE Nat \subseteq S
  <1> SUFFICES ASSUME NEW n \in Nat, n \notin S PROVE FALSE
    OBVIOUS
  <1> DEFINE T == {k \in Nat : k \notin S}
  <1>1. PICK m \in T : \A k \in T : m <= k
    <2>1. T \subseteq Nat /\ T # {}
      OBVIOUS
    <2> QED
      BY <2>1, Least
  <1>2. m # 0 /\ m - 1 \in Nat /\ m - 1 \notin T
    BY <1>1
  <1> QED
    BY <1>1, <1>2

\* The entries are summed up one by one.
LEMMA SizeSums ==
  ASSUME NEW page \in Seq(Nat)
  PROVE  /\ Size(page, 0) = 0
         /\ \A k \in 1..Len(page) : Size(page, k) = Size(page, k - 1) + page[k]
  <1> DEFINE Sums(f, n) == f = [k \in 0..n |-> IF k = 0 THEN 0 ELSE f[k - 1] + page[k]]
  <1>1. \A n \in Nat : \E f : Sums(f, n)
    <2> DEFINE S == {n \in Nat : \E f : Sums(f, n)}
    <2>1. 0 \in S
      <3> DEFINE f == [k \in 0..0 |-> 0]
      <3>1. Sums(f, 0)
        OBVIOUS
      <3> HIDE DEF f
      <3> QED
        BY <3>1
    <2>2. ASSUME NEW n \in Nat, n \in S PROVE n + 1 \in S
      <3>1. PICK f : Sums(f, n)
        BY <2>2
      <3> DEFINE g == [k \in 0..(n + 1) |-> IF k = n + 1 THEN f[n] + page[n + 1] ELSE f[k]]
      <3>2. Sums(g, n + 1)
        BY <3>1
      <3> HIDE DEF g, Sums
      <3> QED
        BY <3>2
    <2> HIDE DEF S
    <2>3. Nat \subseteq S
      BY <2>1, <2>2, Induct
    <2> QED
      BY <2>3 DEF S
  <1> DEFINE sum == CHOOSE f : Sums(f, Len(page))
  <1>2. Sums(sum, Len(page))
    <2>1. Len(page) \in Nat
      OBVIOUS
    <2> HIDE DEF Sums
    <2> QED
      BY <1>1, <2>1
  <1>3. \A n : Size(page, n) = sum[n]
    BY DEF Size
  <1> HIDE DEF sum
  <1>4. \A k \in 0..Len(page) : sum[k] = IF k = 0 THEN 0 ELSE sum[k - 1] + page[k]
    BY <1>2
  <1> HIDE DEF Sums
  <1>5. Size(page, 0) = 0
    <2>1. sum[0] = 0
      BY <1>4
    <2> QED
      BY <1>3, <2>1
  <1>6. ASSUME NEW k \in 1..Len(page) PROVE Size(page, k) = Size(page, k - 1) + page[k]
    <2>1. sum[k] = sum[k - 1] + page[k]
      BY <1>4
    <2>2. Size(page, k) = sum[k] /\ Size(page, k - 1) = sum[k - 1]
      BY <1>3
    <2> QED
      BY <2>1, <2>2
  <1> QED
    BY <1>5, <1>6

\* A size is a number, and so is a count, which no page exceeds.
LEMMA SizeIs == ASSUME NEW page \in Seq(Nat), NEW n \in 0..Len(page) PROVE Size(page, n) \in Nat
  <1> DEFINE S == {k \in Nat : k <= Len(page) => Size(page, k) \in Nat}
  <1>1. 0 \in S
    BY SizeSums
  <1>2. ASSUME NEW k \in Nat, k \in S PROVE k + 1 \in S
    <2> SUFFICES ASSUME k + 1 <= Len(page) PROVE Size(page, k + 1) \in Nat
      OBVIOUS
    <2>1. Size(page, k + 1) = Size(page, k) + page[k + 1]
      BY SizeSums
    <2> QED
      BY <1>2, <2>1
  <1> HIDE DEF S
  <1>3. Nat \subseteq S
    BY <1>1, <1>2, Induct
  <1> QED
    BY <1>3 DEF S

\* As many entries are counted as there are, at most.
LEMMA CountIs ==
  ASSUME NEW page, NEW n \in Nat PROVE Count(page, n) \in 0..n
  <1>1. IsFiniteSet(1..n) /\ Cardinality(1..n) = n
    BY FS_Interval
  <1>2. {i \in 1..n : page[i] > 0} \subseteq 1..n
    OBVIOUS
  <1> QED
    BY <1>1, <1>2, FS_Subset, FS_CardinalityType DEF Count

\* Pages are cut where they still fit.
LEMMA CutIs ==
  ASSUME NEW page \in Seq(Nat), NEW b, NEW room, b.bytes \in Nat, b.bytes <= MaxBytes
  PROVE  /\ Cut(page, b, room) \in 0..Len(page)
         /\ Retains(b, Size(page, Cut(page, b, room)))
  <1> DEFINE cuts == {n \in 0..Len(page) :
                        Retains(b, Size(page, n)) /\ (n > 0 => Count(page, n - 1) < room)}
             left == {Len(page) - n : n \in cuts}
  <1>1. 0 \in cuts
    BY SizeSums, BudgetAssumption DEF Retains
  <1>2. left \subseteq Nat /\ left # {}
    BY <1>1
  <1>3. PICK m \in left : \A k \in left : m <= k
    BY <1>2, Least
  <1>4. PICK n \in cuts : m = Len(page) - n
    BY <1>3
  <1>5. \A k \in cuts : n >= k
    <2> SUFFICES ASSUME NEW k \in cuts PROVE n >= k
      OBVIOUS
    <2>1. Len(page) - k \in left
      OBVIOUS
    <2>2. m <= Len(page) - k
      BY <2>1, <1>3
    <2> QED
      BY <1>4, <2>2
  <1> HIDE DEF cuts
  <1>6. Max(cuts) \in cuts
    BY <1>5 DEF Max
  <1> QED
    BY <1>6 DEF Cut, cuts

\* What is taken of a page: some of it stays behind only for want of room or of bytes.
LEMMA TakenIs ==
  ASSUME NEW page \in Seq(Nat), NEW b, NEW room \in Int,
         b.bytes \in Nat, b.bytes <= MaxBytes
  PROVE  LET taken == Taken(page, b, room) IN
         /\ taken.kept \in 0..Len(page) /\ taken.size \in Nat
         /\ b.bytes + taken.size <= MaxBytes
         /\ taken.full \in BOOLEAN /\ taken.rest \in BOOLEAN
         /\ taken.overflow \in BOOLEAN /\ taken.lost \in BOOLEAN
         /\ taken.lost => taken.rest
         /\ taken.rest => taken.full \/ taken.overflow
         /\ taken.overflow => taken.rest
         /\ taken.full => taken.kept >= room
  <1> DEFINE n == Cut(page, b, room)
  <1>1. n \in 0..Len(page) /\ Retains(b, Size(page, n))
    BY CutIs
  <1>2. Size(page, n) \in Nat /\ Count(page, n) \in 0..n
    BY <1>1, SizeIs, CountIs
  <1> HIDE DEF n
  <1>3. Taken(page, b, room) =
          [kept |-> Count(page, n), size |-> Size(page, n), full |-> Count(page, n) >= room,
           rest |-> n < Len(page), overflow |-> n < Len(page) /\ Count(page, n) < room,
           lost |-> \E i \in (n + 1)..Len(page) : page[i] > 0]
    BY DEF Taken, n
  <1>4. b.bytes + Size(page, n) <= MaxBytes
    BY <1>1 DEF Retains
  <1>5. (\E i \in (n + 1)..Len(page) : page[i] > 0) => n < Len(page)
    BY <1>1
  <1> DEFINE taken == Taken(page, b, room)
  <1>6. /\ taken.kept = Count(page, n) /\ taken.size = Size(page, n)
        /\ taken.full = (taken.kept >= room) /\ taken.rest = (n < Len(page))
        /\ taken.overflow = (n < Len(page) /\ taken.kept < room)
        /\ taken.lost = (\E i \in (n + 1)..Len(page) : page[i] > 0)
    BY <1>3
  <1> HIDE DEF taken
  <1>7. /\ taken.kept \in 0..Len(page) /\ taken.size \in Nat
        /\ b.bytes + taken.size <= MaxBytes
    BY <1>1, <1>2, <1>4, <1>6
  <1>8. /\ taken.full \in BOOLEAN /\ taken.rest \in BOOLEAN
        /\ taken.overflow \in BOOLEAN /\ taken.lost \in BOOLEAN
    BY <1>6
  <1>9. /\ taken.full <=> taken.kept >= room
        /\ taken.rest <=> n < Len(page)
        /\ taken.overflow <=> n < Len(page) /\ taken.kept < room
        /\ taken.lost => n < Len(page)
    BY <1>5, <1>6
  <1>10. /\ taken.lost => taken.rest
         /\ taken.rest => taken.full \/ taken.overflow
         /\ taken.overflow => taken.rest
         /\ taken.full => taken.kept >= room
    BY <1>9, <1>7
  <1> QED
    BY <1>7, <1>8, <1>10 DEF taken

-----------------------------------------------------------------------------
(* What a coverage says *)

Says(c) ==
  /\ DOMAIN c = {"level", "more", "returned", "failed", "truncated"}
  /\ c.level \in {"complete", "unknown", "limited"} /\ c.more \in {"no", "yes", "unknown"}
  /\ c.failed \in {"no", "kept", "empty"} /\ c.truncated \in BOOLEAN

\* It claims neither that the answer is all there is nor that there is no more.
Open(c) == c.level # "complete" /\ c.more # "no"

\* What is true of an answer is what its coverage says (Honest).
Tells(c, isLost, isUnread, isFailed, isUndetailed) ==
  /\ Says(c)
  /\ c.level = "complete" => ~isLost /\ ~isUnread /\ ~isUndetailed
  /\ c.more = "no" => ~isLost /\ ~isUnread
  /\ isLost => c.truncated \/ c.failed # "no"
  /\ isFailed => c.failed # "no"

\* The two beginnings.
LEMMA CompleteSays ==
  ASSUME NEW n PROVE Says(Complete(n)) /\ ~Complete(n).truncated /\ Complete(n).failed = "no"
  BY DEF Says, Complete

\* ... and the other.
LEMMA UnknownSays ==
  ASSUME NEW n
  PROVE  Says(Unknown(n)) /\ Open(Unknown(n)) /\ ~Unknown(n).truncated
         /\ Unknown(n).failed = "no"
  BY DEF Says, Open, Complete, Unknown

\* A coverage that was cut, or cannot be known, no longer claims anything.
LEMMA LimitedSays ==
  ASSUME NEW c, Says(c)
  PROVE  /\ Says(Limited(c)) /\ Open(Limited(c)) /\ Limited(c).truncated
         /\ Limited(c).failed = c.failed
  BY DEF Says, Open, Limited, NoLongerAll

\* So does one that cannot be known.
LEMMA UnknownReasonSays ==
  ASSUME NEW c, Says(c)
  PROVE  /\ Says(UnknownReason(c)) /\ Open(UnknownReason(c))
         /\ UnknownReason(c).truncated = c.truncated /\ UnknownReason(c).failed = c.failed
  BY DEF Says, Open, UnknownReason, NoLongerAll

\* A failure is also stated.
LEMMA FailureSays ==
  ASSUME NEW c, Says(c), NEW kept
  PROVE  /\ Says(Failure(c, kept)) /\ Open(Failure(c, kept))
         /\ Failure(c, kept).truncated = c.truncated /\ Failure(c, kept).failed # "no"
  BY UnknownReasonSays DEF Says, Open, Failure, Fail

\* More that is to come changes nothing else.
LEMMA HasMoreSays ==
  ASSUME NEW c, Says(c), NEW more \in {"yes", "unknown"}
  PROVE  /\ Says(HasMore(c, more)) /\ HasMore(c, more).failed = c.failed
         /\ HasMore(c, more).truncated = c.truncated
  BY DEF Says, HasMore

\* A claim that is given up under a condition is open if it was, or if the condition holds.
LEMMA GivenUp ==
  ASSUME NEW c, Says(c), NEW condition \in BOOLEAN, NEW kept
  PROVE  /\ \A d \in {LimitedIf(condition, c), MoreIf(condition, c), UnknownIf(condition, c),
                     FailureIf(condition, c, kept)} :
              /\ Says(d) /\ (condition \/ Open(c) => Open(d))
              /\ c.truncated => d.truncated
              /\ c.failed # "no" => d.failed # "no"
              /\ ~condition => d = c
         /\ condition => LimitedIf(condition, c).truncated /\ MoreIf(condition, c).truncated
         /\ condition => FailureIf(condition, c, kept).failed # "no"
  <1>1. CASE condition
    <2>1. Says(HasMore(c, "yes")) /\ HasMore(c, "yes").failed = c.failed
      BY HasMoreSays
    <2>2. /\ Says(MoreIf(condition, c)) /\ Open(MoreIf(condition, c))
          /\ MoreIf(condition, c).truncated /\ MoreIf(condition, c).failed = c.failed
      BY <1>1, <2>1, LimitedSays DEF MoreIf
    <2>3. /\ Says(LimitedIf(condition, c)) /\ Open(LimitedIf(condition, c))
          /\ LimitedIf(condition, c).truncated /\ LimitedIf(condition, c).failed = c.failed
      BY <1>1, LimitedSays DEF LimitedIf
    <2>4. /\ Says(UnknownIf(condition, c)) /\ Open(UnknownIf(condition, c))
          /\ UnknownIf(condition, c).truncated = c.truncated
          /\ UnknownIf(condition, c).failed = c.failed
      BY <1>1, UnknownReasonSays DEF UnknownIf
    <2>5. /\ Says(FailureIf(condition, c, kept)) /\ Open(FailureIf(condition, c, kept))
          /\ FailureIf(condition, c, kept).truncated = c.truncated
          /\ FailureIf(condition, c, kept).failed # "no"
      BY <1>1, FailureSays DEF FailureIf
    <2> QED
      BY <1>1, <2>2, <2>3, <2>4, <2>5
  <1>2. CASE ~condition
    BY <1>2 DEF LimitedIf, MoreIf, UnknownIf, FailureIf
  <1> QED
    BY <1>1, <1>2

\* What remains of two sections: only what both of them claim, and every failure or cut.
LEMMA SectionSays ==
  ASSUME NEW c, Says(c), NEW other, Says(other)
  PROVE  /\ Says(Section(c, other))
         /\ Section(c, other).level = "complete"
              <=> c.level = "complete" /\ other.level = "complete"
         /\ Section(c, other).more = "no" => c.more = "no" /\ other.more = "no"
         /\ Section(c, other).truncated <=> c.truncated \/ other.truncated
         /\ Section(c, other).failed # "no" <=> c.failed # "no" \/ other.failed # "no"
  <1> DEFINE s == Section(c, other)
  <1>1. /\ c.level \in {"complete", "unknown", "limited"} /\ c.more \in {"no", "yes", "unknown"}
        /\ c.failed \in {"no", "kept", "empty"} /\ c.truncated \in BOOLEAN
        /\ DOMAIN c = {"level", "more", "returned", "failed", "truncated"}
    BY DEF Says
  <1>2. /\ other.level \in {"complete", "unknown", "limited"}
        /\ other.more \in {"no", "yes", "unknown"}
        /\ other.failed \in {"no", "kept", "empty"} /\ other.truncated \in BOOLEAN
    BY DEF Says
  <1>3. Fail(c, other.failed = "kept") \in {"kept", "empty"}
    BY DEF Fail
  <1>4. DOMAIN s = DOMAIN c
    BY DEF Section
  <1>5. /\ s.level = IF \/ other.level = "limited"
                        \/ other.level = "unknown" /\ c.level = "complete"
                       THEN other.level ELSE c.level
        /\ s.more = IF other.more = "yes" THEN "yes"
                      ELSE IF other.more = "unknown" THEN NoLongerAll(c) ELSE c.more
        /\ s.failed = IF other.failed = "no" THEN c.failed ELSE Fail(c, other.failed = "kept")
        /\ s.truncated = (c.truncated \/ other.truncated)
    BY <1>1 DEF Section
  <1> HIDE DEF s
  <1>6. s.level \in {"complete", "unknown", "limited"} /\ s.truncated \in BOOLEAN
    BY <1>1, <1>2, <1>5
  <1>7. s.more \in {"no", "yes", "unknown"} /\ s.failed \in {"no", "kept", "empty"}
    BY <1>1, <1>2, <1>3, <1>5 DEF NoLongerAll
  <1>8. Says(s)
    BY <1>1, <1>4, <1>6, <1>7 DEF Says
  <1> QED
    BY <1>1, <1>2, <1>3, <1>5, <1>8 DEF s, NoLongerAll

\* What the limits of the pages say of it.
LEMMA ApplySays ==
  ASSUME NEW c, Says(c), NEW b, b.stopped \in {"no", "pages", "bytes", "token"}, NEW kept
  PROVE  LET d == Apply(b, c, kept) IN
         /\ Says(d) /\ (b.stopped # "no" \/ Open(c) => Open(d))
         /\ c.truncated \/ b.stopped \in {"pages", "bytes"} => d.truncated
         /\ c.failed # "no" \/ b.stopped = "token" => d.failed # "no"
         /\ b.stopped = "no" => d = c
  <1>1. CASE b.stopped = "no"
    BY <1>1 DEF Apply
  <1>2. CASE b.stopped \in {"pages", "bytes"}
    <2>1. Apply(b, c, kept) = Limited(c)
      BY <1>2 DEF Apply
    <2> QED
      BY <1>2, <2>1, LimitedSays
  <1>3. CASE b.stopped = "token"
    <2>1. Apply(b, c, kept) = Failure(c, kept)
      BY <1>3 DEF Apply
    <2> QED
      BY <1>3, <2>1, FailureSays
  <1> QED
    BY <1>1, <1>2, <1>3

\* An answer with such a coverage is honest.
LEMMA AnswerTells ==
  ASSUME NEW c, Tells(c, lost', unread', failed', undetailed'), answer' = Attach(c)
  PROVE  CoverageHonest'
  <1>1. answer'.coverage = c /\ answer'.truncated = c.truncated
    BY DEF Attach
  <1>2. answer'.status = "ok" => c.failed = "no"
    BY DEF Attach, Tells, Says
  <1> QED
    BY <1>1, <1>2 DEF CoverageHonest, Honest, Tells

-----------------------------------------------------------------------------
(* Reads *)

\* Until there is an answer nothing is claimed; what the resources of a stack say is
\* kept for it.
ReadsInv ==
  /\ CoverageHonest
  /\ stage \in {"asking", "events"} => answer.status = "none"
  /\ Says(part) /\ (stage = "events" /\ unread => Open(part))

\* An answer that tells what is true of it is honest.
LEMMA AnswerStep ==
  ASSUME ReadsInv, NEW c, NEW l, NEW u, NEW f, NEW d, Answer(c, l, u, f, d), Tells(c, l, u, f, d)
  PROVE  ReadsInv'
  <1>1. answer' = Attach(c) /\ lost' = l /\ unread' = u /\ failed' = f /\ undetailed' = d
        /\ stage' = "done" /\ part' = part
    BY DEF Answer
  <1>2. CoverageHonest'
    BY <1>1, AnswerTells
  <1> QED
    BY <1>1, <1>2 DEF ReadsInv

\* Where nothing of that is touched.
LEMMA NoAnswerStep ==
  ASSUME ReadsInv, UNCHANGED <<answerVars, part>>, stage' \in {stage, "denied"}
  PROVE  ReadsInv'
  BY DEF ReadsInv, answerVars, CoverageHonest, Honest, Open, Says

\* A coverage of which all that was cut or missed has been said.
LEMMA OpenTells ==
  ASSUME NEW c, Says(c), NEW l, NEW u, NEW f, NEW d, Open(c),
         l => c.truncated \/ c.failed # "no", f => c.failed # "no"
  PROVE  Tells(c, l, u, f, d)
  BY DEF Open, Tells

\* A read that was cut only where there was more.
LEMMA MoreTells ==
  ASSUME NEW n, NEW more \in BOOLEAN, NEW l, NEW u, l => more, u => more
  PROVE  Tells(MoreIf(more, Complete(n)), l, u, FALSE, FALSE)
  <1>1. CASE more
    <2>1. Says(Complete(n))
      BY CompleteSays
    <2>2. MoreIf(more, Complete(n)) = Limited(HasMore(Complete(n), "yes"))
      BY <1>1 DEF MoreIf
    <2> QED
      BY <2>1, <2>2, HasMoreSays, LimitedSays, OpenTells
  <1>2. CASE ~more
    BY <1>2, CompleteSays DEF Tells, MoreIf
  <1> QED
    BY <1>1, <1>2

\* The first request fails.
LEMMA FailsStep == ASSUME ReadsInv, Fails PROVE ReadsInv'
  <1>1. Tells(Failure(Unknown(0), FALSE), FALSE, TRUE, TRUE, FALSE)
    BY UnknownSays, FailureSays, OpenTells
  <1> QED
    BY <1>1, AnswerStep DEF Fails

\* One page, and whether there are more.
LEMMA OnePageStep == ASSUME ReadsInv, OnePage PROVE ReadsInv'
  BY MoreTells, AnswerStep DEF OnePage, AnswerAtOnce

\* A page of which some may not have been kept, for want of room or of bytes.
LEMMA PageSays ==
  ASSUME NEW taken, taken.overflow \in BOOLEAN, NEW n, NEW kept, NEW cut \in BOOLEAN
  PROVE  /\ LET c == Apply(Retained(NoPages, taken), MoreIf(cut, Complete(n)), kept)
            IN  Says(c) /\ (cut => Open(c) /\ c.truncated)
         /\ LET c == Apply(Retained(NoPages, taken),
                           LimitedIf(cut, UnknownReason(Unknown(n))), kept)
            IN  Says(c) /\ Open(c) /\ (cut => c.truncated)
  <1> DEFINE b == Retained(NoPages, taken)
             c == MoreIf(cut, Complete(n))
             d == LimitedIf(cut, UnknownReason(Unknown(n)))
  <1>1. b.stopped \in {"no", "bytes"}
    BY DEF Retained, Keep, StopBytes, NoPages
  <1>2. /\ Says(Complete(n)) /\ Says(UnknownReason(Unknown(n))) /\ Open(UnknownReason(Unknown(n)))
    BY CompleteSays, UnknownSays, UnknownReasonSays
  <1>3. Says(c) /\ (cut => Open(c) /\ c.truncated)
    BY <1>2, GivenUp
  <1>4. Says(d) /\ Open(d) /\ (cut => d.truncated)
    BY <1>2, GivenUp
  <1> HIDE DEF b, c, d
  <1>5. Says(Apply(b, c, kept)) /\ (cut => Open(Apply(b, c, kept)) /\ Apply(b, c, kept).truncated)
    BY <1>1, <1>3, ApplySays
  <1>6. /\ Says(Apply(b, d, kept)) /\ Open(Apply(b, d, kept))
        /\ (cut => Apply(b, d, kept).truncated)
    BY <1>1, <1>4, ApplySays
  <1> QED
    BY <1>5, <1>6 DEF b, c, d

\* The first rows of a page are a page.
LEMMA ShownIs ==
  ASSUME NEW page \in Seq(Nat)
  PROVE  Shown(page).kept \in Nat /\ Shown(page).overflow \in BOOLEAN
  <1>1. FirstRows(page) \in Seq(Nat)
    BY PageAssumption DEF FirstRows
  <1>2. NoPages.bytes \in Nat /\ NoPages.bytes <= MaxBytes /\ MaxEntries + 1 \in Int
    BY BudgetAssumption, PageAssumption DEF NoPages
  <1>3. Shown(page).kept \in 0..Len(FirstRows(page)) /\ Shown(page).overflow \in BOOLEAN
    BY <1>1, <1>2, TakenIs DEF Shown
  <1> QED
    BY <1>1, <1>3

\* A page of entries is a sequence of sizes.
LEMMA EntriesAre ==
  ASSUME NEW sizes \in {0..2, 1..2}, NEW page \in Entries(sizes) PROVE page \in Seq(Nat)
  BY DEF Entries

\* Streams: a stream without a name is not shown.
LEMMA StreamsStep == ASSUME ReadsInv, Streams PROVE ReadsInv'
  <1>1. PICK page \in Entries(0..2), more \in BOOLEAN :
          AnswerAtOnce(Apply(Retained(NoPages, Shown(page)),
                             MoreIf(more \/ Len(page) > Shown(page).kept,
                                    Complete(Shown(page).kept)),
                             Shown(page).kept > 0),
                       Count(page, Len(page)) > Shown(page).kept, more)
    BY DEF Streams
  <1>2. page \in Seq(Nat)
    BY EntriesAre
  <1>3. Shown(page).kept \in Nat /\ Shown(page).overflow \in BOOLEAN /\ Len(page) \in Nat
    BY <1>2, ShownIs
  <1> DEFINE shown == Shown(page)
             cut == more \/ Len(page) > shown.kept
             l == Count(page, Len(page)) > shown.kept
             any == shown.kept > 0
             c == Apply(Retained(NoPages, shown), MoreIf(cut, Complete(shown.kept)), any)
  <1>4. l => cut
    BY <1>2, <1>3, CountIs
  <1>5. cut \in BOOLEAN /\ shown.overflow \in BOOLEAN /\ (more => cut)
    BY <1>3
  <1>6. AnswerAtOnce(c, l, more)
    BY <1>1
  <1> HIDE DEF shown, cut, l, any
  <1>7. Says(c) /\ (cut => Open(c) /\ c.truncated)
    BY <1>5, PageSays
  <1> HIDE DEF c
  <1>8. Tells(c, l, more, FALSE, FALSE)
    BY <1>4, <1>5, <1>7 DEF Tells, Open
  <1> QED
    BY <1>6, <1>8, AnswerStep DEF AnswerAtOnce

\* The newest events of a page.
LEMMA TailStep == ASSUME ReadsInv, TailPage PROVE ReadsInv'
  <1>1. PICK page \in Entries(1..2), more \in BOOLEAN :
          AnswerAtOnce(Apply(Retained(NoPages, Shown(page)),
                             MoreIf(more \/ Len(page) > Shown(page).kept,
                                    Complete(Shown(page).kept)),
                             Shown(page).kept > 0),
                       Len(page) > Shown(page).kept, more)
    BY DEF TailPage
  <1> DEFINE shown == Shown(page)
             l == Len(page) > shown.kept
             cut == more \/ l
             any == shown.kept > 0
             c == Apply(Retained(NoPages, shown), MoreIf(cut, Complete(shown.kept)), any)
  <1>2. shown.overflow \in BOOLEAN
    BY EntriesAre, ShownIs
  <1>3. cut \in BOOLEAN /\ (more => cut) /\ (l => cut)
    OBVIOUS
  <1>4. AnswerAtOnce(c, l, more)
    BY <1>1
  <1> HIDE DEF shown, cut, l, any
  <1>5. Says(c) /\ (cut => Open(c) /\ c.truncated)
    BY <1>2, <1>3, PageSays
  <1> HIDE DEF c
  <1>6. Tells(c, l, more, FALSE, FALSE)
    BY <1>3, <1>5 DEF Tells, Open
  <1> QED
    BY <1>4, <1>6, AnswerStep DEF AnswerAtOnce

\* The events of a stream, whose end cannot be told.
LEMMA StreamEventsStep == ASSUME ReadsInv, StreamEvents PROVE ReadsInv'
  <1>1. PICK page \in Entries(1..2) :
          AnswerAtOnce(Apply(Retained(NoPages, Shown(page)),
                             LimitedIf(Len(page) > Shown(page).kept,
                                       UnknownReason(Unknown(Shown(page).kept))),
                             Shown(page).kept > 0),
                       Len(page) > Shown(page).kept, TRUE)
    BY DEF StreamEvents
  <1> DEFINE shown == Shown(page)
             l == Len(page) > shown.kept
             any == shown.kept > 0
             c == Apply(Retained(NoPages, shown),
                        LimitedIf(l, UnknownReason(Unknown(shown.kept))), any)
  <1>2. shown.overflow \in BOOLEAN /\ l \in BOOLEAN
    BY EntriesAre, ShownIs
  <1>3. AnswerAtOnce(c, l, TRUE)
    BY <1>1
  <1> HIDE DEF shown, l, any
  <1>4. Says(c) /\ Open(c) /\ (l => c.truncated)
    BY <1>2, PageSays
  <1> HIDE DEF c
  <1>5. Tells(c, l, TRUE, FALSE, FALSE)
    BY <1>2, <1>4 DEF Tells, Open
  <1> QED
    BY <1>3, <1>5, AnswerStep DEF AnswerAtOnce

\* Package names, with the token of the next page.
LEMMA IdentitiesStep == ASSUME ReadsInv, Identities PROVE ReadsInv'
  <1>1. PICK page \in Entries(0..2), next \in {"none", "good", "invalid"} :
          LET kept == Taken(page, NoPages, MaxRows)
          IN AnswerAtOnce(
               FailureIf(next = "invalid",
                         MoreIf(next = "good" \/ kept.lost,
                                Apply(Retained(NoPages, kept), Complete(kept.kept),
                                      kept.kept > 0)),
                         kept.kept > 0),
               kept.lost, next # "none")
    BY DEF Identities
  <1> DEFINE kept == Taken(page, NoPages, MaxRows)
             any == kept.kept > 0
             b == Retained(NoPages, kept)
             more == next = "good" \/ kept.lost
             bad == next = "invalid"
             c == Apply(b, Complete(kept.kept), any)
             d == MoreIf(more, c)
             e == FailureIf(bad, d, any)
  <1>2. page \in Seq(Nat)
    BY EntriesAre
  <1>3. kept.lost \in BOOLEAN
    <2>1. NoPages.bytes \in Nat /\ NoPages.bytes <= MaxBytes /\ MaxRows \in Int
      BY BudgetAssumption, PageAssumption DEF NoPages
    <2> QED
      BY <1>2, <2>1, TakenIs
  <1>4. AnswerAtOnce(e, kept.lost, next # "none")
    BY <1>1
  <1>5. /\ more \in BOOLEAN /\ bad \in BOOLEAN
        /\ kept.lost => more
        /\ next # "none" => more \/ bad
    BY <1>3
  <1>6. b.stopped \in {"no", "bytes"}
    BY DEF Retained, Keep, StopBytes, NoPages
  <1> HIDE DEF kept, any, b, more, bad
  <1>7. Says(c)
    BY <1>6, CompleteSays, ApplySays
  <1> HIDE DEF c
  <1>8. Says(d) /\ (more => Open(d) /\ d.truncated)
    BY <1>5, <1>7, GivenUp
  <1> HIDE DEF d
  <1>9. Says(e) /\ (bad \/ Open(d) => Open(e)) /\ (d.truncated => e.truncated)
    BY <1>5, <1>8, GivenUp
  <1> HIDE DEF e
  <1>10. Tells(e, kept.lost, next # "none", FALSE, FALSE)
    BY <1>3, <1>5, <1>8, <1>9 DEF Tells, Open
  <1> QED
    BY <1>4, <1>10, AnswerStep DEF AnswerAtOnce

-----------------------------------------------------------------------------
\* Of a stack, only what its resources and its events both say is said.
LEMMA DetailSays ==
  ASSUME NEW a, Says(a), NEW b, Says(b)
  PROVE  LET d == Detail(a, b) IN
         /\ Says(d)
         /\ d.level = "complete" => a.level = "complete" /\ b.level = "complete"
         /\ d.more = "no" => a.more = "no" /\ b.more = "no"
         /\ b.truncated => d.truncated
         /\ a.failed # "no" \/ b.failed # "no" => d.failed # "no"
  <1> DEFINE c == Complete(a.returned + b.returned)
             s == Section(c, a)
  <1>1. Says(c)
    BY CompleteSays
  <1> HIDE DEF c
  <1>2. Says(s) /\ (s.level = "complete" => a.level = "complete")
        /\ (s.more = "no" => a.more = "no") /\ (a.failed # "no" => s.failed # "no")
    BY <1>1, SectionSays
  <1> HIDE DEF s
  <1>3. LET d == Section(s, b) IN
        /\ Says(d)
        /\ d.level = "complete" => s.level = "complete" /\ b.level = "complete"
        /\ d.more = "no" => s.more = "no" /\ b.more = "no"
        /\ b.truncated => d.truncated
        /\ s.failed # "no" \/ b.failed # "no" => d.failed # "no"
    BY <1>2, SectionSays
  <1>4. Detail(a, b) = Section(s, b)
    BY DEF Detail, s, c
  <1> QED
    BY <1>2, <1>3, <1>4

\* Neither resources nor events.
LEMMA StackFailsStep == ASSUME ReadsInv, StackFails PROVE ReadsInv'
  <1> DEFINE a == Failure(Unknown(0), FALSE)
             b == UnknownReason(Unknown(0))
             d == Detail(a, b)
  <1>1. Answer(d, FALSE, TRUE, TRUE, FALSE)
    BY DEF StackFails
  <1>2. Says(a) /\ a.failed # "no" /\ Says(b) /\ Open(b)
    BY UnknownSays, UnknownReasonSays, FailureSays
  <1> HIDE DEF a, b
  <1>3. Says(d) /\ d.level # "complete" /\ d.more # "no" /\ d.failed # "no"
    BY <1>2, DetailSays DEF Open
  <1> QED
    BY <1>1, <1>3, AnswerStep DEF Tells

\* The resources of a stack: as many as the service returns may not be all.
LEMMA StackResourcesStep == ASSUME ReadsInv, StackResources PROVE ReadsInv'
  <1>1. PICK n \in 0..MaxRows :
          part' = UnknownIf(n >= MaxRows, Complete(n)) /\ unread' = (n >= MaxRows)
    BY DEF StackResources
  <1>2. UNCHANGED <<answer, lost, failed, undetailed>> /\ stage' = "events" /\ stage = "asking"
    BY DEF StackResources, Asking
  <1>3. (n >= MaxRows) \in BOOLEAN /\ Says(Complete(n))
    BY CompleteSays
  <1>4. Says(part') /\ (unread' => Open(part'))
    BY <1>1, <1>3, GivenUp
  <1>5. answer.status = "none"
    BY <1>2 DEF ReadsInv
  <1> QED
    BY <1>2, <1>4, <1>5 DEF ReadsInv, CoverageHonest

\* The events of the stack, whatever was said of its resources.
LEMMA StackEventsStep == ASSUME ReadsInv, StackEvents PROVE ReadsInv'
  <1>1. Says(part) /\ (unread => Open(part))
    BY DEF ReadsInv, StackEvents
  <1>2. CASE Answer(Detail(part, Failure(Unknown(0), FALSE)), FALSE, TRUE, TRUE, FALSE)
    <2> DEFINE b == Failure(Unknown(0), FALSE)
    <2>1. Says(b) /\ Open(b) /\ b.failed # "no"
      BY UnknownSays, FailureSays
    <2> HIDE DEF b
    <2>2. Tells(Detail(part, b), FALSE, TRUE, TRUE, FALSE)
      BY <1>1, <2>1, DetailSays DEF Tells, Open
    <2> QED
      BY <1>2, <2>2, AnswerStep DEF b
  <1>3. ASSUME NEW n \in 0..MaxEntries, NEW more \in BOOLEAN, NEW shown,
               Answer(Detail(part, MoreIf(n > MaxRows \/ more, Complete(shown))),
                      n > MaxRows, unread \/ more, FALSE, FALSE)
        PROVE  ReadsInv'
    <2> DEFINE l == n > MaxRows
               cut == l \/ more
               b == MoreIf(cut, Complete(shown))
    <2>1. cut \in BOOLEAN /\ Says(Complete(shown)) /\ (l => cut) /\ (more => cut)
      BY CompleteSays
    <2> HIDE DEF l, cut
    <2>2. Says(b) /\ (cut => Open(b) /\ b.truncated)
      BY <2>1, GivenUp
    <2> HIDE DEF b
    <2>3. Tells(Detail(part, b), l, unread \/ more, FALSE, FALSE)
      BY <1>1, <2>1, <2>2, DetailSays DEF Tells, Open
    <2> QED
      BY <1>3, <2>3, AnswerStep DEF b, cut, l
  <1> QED
    BY <1>2, <1>3 DEF StackEvents

-----------------------------------------------------------------------------
\* The details of several packages or versions.
LEMMA BatchAnswerStep == ASSUME ReadsInv, BatchAnswer PROVE ReadsInv'
  <1> DEFINE fits == Taken([j \in 1..jobs |-> 1], NoPages, jobs).kept
             n == IF widget = "version dates" THEN jobs ELSE fits
             short == n < jobs
             failures == WithOutcome({"failed", "refused"}) # {}
             more == WithOutcome({"more"}) # {}
             b == IF short THEN StopBytes(NoPages) ELSE NoPages
             kept == IF widget = "version dates" THEN TRUE ELSE n > 0
             c == FailureIf(failures, UnknownReason(Unknown(n)), kept)
             d == LimitedIf(more, c)
             e == Apply(b, d, n > 0)
  <1>1. Answer(e, short, TRUE, failures, more)
    BY DEF BatchAnswer
  <1>2. /\ short \in BOOLEAN /\ failures \in BOOLEAN /\ more \in BOOLEAN
        /\ b.stopped \in {"no", "bytes"} /\ (short => b.stopped = "bytes")
    <2>1. NoPages.stopped = "no" /\ StopBytes(NoPages).stopped = "bytes"
      BY DEF StopBytes, NoPages
    <2> HIDE DEF n
    <2> QED
      BY <2>1
  <1>3. Says(UnknownReason(Unknown(n))) /\ Open(UnknownReason(Unknown(n)))
    BY UnknownSays, UnknownReasonSays
  <1> HIDE DEF short, failures, more, b, n, kept
  <1>4. Says(c) /\ Open(c) /\ (failures => c.failed # "no")
    BY <1>2, <1>3, GivenUp
  <1> HIDE DEF c
  <1>5. Says(d) /\ Open(d) /\ (failures => d.failed # "no")
    BY <1>2, <1>4, GivenUp
  <1> HIDE DEF d
  <1>6. /\ Says(e) /\ Open(e) /\ (failures => e.failed # "no")
        /\ short => e.truncated
    BY <1>2, <1>5, ApplySays
  <1> HIDE DEF e
  <1>7. Tells(e, short, TRUE, failures, more)
    BY <1>2, <1>6 DEF Tells, Open
  <1> QED
    BY <1>1, <1>7, AnswerStep

\* The rows of a query.
LEMMA InsightsStep == ASSUME ReadsInv, Insights PROVE ReadsInv'
  <1>1. PICK n \in 0..MaxRows, more \in BOOLEAN :
          AnswerAtOnce(IF more THEN MoreIf(TRUE, Complete(n))
                       ELSE UnknownIf(n >= MaxRows, Complete(n)),
                       FALSE, more \/ n >= MaxRows)
    BY DEF Insights
  <1> DEFINE full == n >= MaxRows
             a == MoreIf(TRUE, Complete(n))
             b == UnknownIf(full, Complete(n))
             c == IF more THEN a ELSE b
  <1>2. AnswerAtOnce(c, FALSE, more \/ full)
    BY <1>1
  <1>3. full \in BOOLEAN /\ Says(Complete(n))
    BY CompleteSays
  <1> HIDE DEF full
  <1>4. Says(a) /\ Open(a) /\ Says(b) /\ (full => Open(b))
    BY <1>3, GivenUp
  <1> HIDE DEF a, b
  <1>5. Tells(c, FALSE, more \/ full, FALSE, FALSE)
    BY <1>3, <1>4 DEF Tells, Open
  <1> QED
    BY <1>2, <1>5, AnswerStep DEF AnswerAtOnce

\* The counts of the groups that were found.
LEMMA ErrorsStep == ASSUME ReadsInv, Errors PROVE ReadsInv'
  <1>1. PICK groups \in 0..(MaxRows + 1), more \in BOOLEAN :
          LET queried == IF groups > MaxRows THEN MaxRows ELSE groups
              discovery == MoreIf(more \/ groups > MaxRows, Complete(queried))
          IN \E counts \in [1..queried -> {"failed", "none", "some", "full", "paged"}] :
               LET of(outcome) == Cardinality({g \in 1..queried : counts[g] = outcome})
                   shown == of("some") + of("full") + of("paged")
                   c == IF of("paged") > 0 THEN MoreIf(TRUE, Complete(shown))
                        ELSE UnknownIf(of("full") > 0, Complete(shown))
               IN Answer(Section(FailureIf(of("failed") > 0, c, of("failed") < queried),
                                 discovery),
                         groups > MaxRows, more, of("failed") > 0,
                         of("full") + of("paged") > 0)
    BY DEF Errors
  <1> DEFINE queried == IF groups > MaxRows THEN MaxRows ELSE groups
             over == groups > MaxRows
             cut == more \/ over
             discovery == MoreIf(cut, Complete(queried))
  <1>2. PICK counts \in [1..queried -> {"failed", "none", "some", "full", "paged"}] :
          LET of(outcome) == Cardinality({g \in 1..queried : counts[g] = outcome})
              shown == of("some") + of("full") + of("paged")
              c == IF of("paged") > 0 THEN MoreIf(TRUE, Complete(shown))
                   ELSE UnknownIf(of("full") > 0, Complete(shown))
          IN Answer(Section(FailureIf(of("failed") > 0, c, of("failed") < queried),
                            discovery),
                    over, more, of("failed") > 0, of("full") + of("paged") > 0)
    BY <1>1
  <1> DEFINE of(outcome) == Cardinality({g \in 1..queried : counts[g] = outcome})
             shown == of("some") + of("full") + of("paged")
             paged == of("paged") > 0
             full == of("full") > 0
             failures == of("failed") > 0
             kept == of("failed") < queried
             cutGroups == of("full") + of("paged") > 0
             a == MoreIf(TRUE, Complete(shown))
             b == UnknownIf(full, Complete(shown))
             c == IF paged THEN a ELSE b
             d == FailureIf(failures, c, kept)
  <1>3. Answer(Section(d, discovery), over, more, failures, cutGroups)
    BY <1>2
  <1>4. \A outcome : of(outcome) \in Nat
    <2>1. queried \in Int
      BY PageAssumption
    <2>2. IsFiniteSet(1..queried)
      BY <2>1, FS_Interval
    <2> QED
      BY <2>2, FS_Subset, FS_CardinalityType
  <1>5. cutGroups => paged \/ full
    <2>1. of("full") \in Nat /\ of("paged") \in Nat
      BY <1>4
    <2> HIDE DEF of
    <2> QED
      BY <2>1
  <1>6. /\ paged \in BOOLEAN /\ full \in BOOLEAN /\ failures \in BOOLEAN /\ cutGroups \in BOOLEAN
        /\ cut \in BOOLEAN /\ over \in BOOLEAN /\ (over => cut) /\ (more => cut)
    OBVIOUS
  <1>7. Says(Complete(shown)) /\ Says(Complete(queried))
    BY CompleteSays
  <1> HIDE DEF of, shown, paged, full, failures, kept, cutGroups, cut, over, queried
  <1>8. Says(discovery) /\ (cut => Open(discovery) /\ discovery.truncated)
    BY <1>6, <1>7, GivenUp
  <1>9. Says(a) /\ Open(a) /\ Says(b) /\ (full => Open(b))
    BY <1>6, <1>7, GivenUp
  <1> HIDE DEF discovery, a, b
  <1>10. Says(c) /\ (paged \/ full => Open(c))
    BY <1>6, <1>9
  <1> HIDE DEF c
  <1>11. Says(d) /\ (failures \/ Open(c) => Open(d)) /\ (failures => d.failed # "no")
    BY <1>6, <1>10, GivenUp
  <1> HIDE DEF d
  <1>12. LET s == Section(d, discovery) IN
         /\ Says(s)
         /\ s.level = "complete" => d.level = "complete" /\ discovery.level = "complete"
         /\ s.more = "no" => d.more = "no" /\ discovery.more = "no"
         /\ s.truncated <=> d.truncated \/ discovery.truncated
         /\ d.failed # "no" => s.failed # "no"
    BY <1>8, <1>11, SectionSays
  <1>13. Tells(Section(d, discovery), over, more, failures, cutGroups)
    BY <1>5, <1>6, <1>8, <1>10, <1>11, <1>12 DEF Tells, Open
  <1> QED
    BY <1>3, <1>13, AnswerStep

\* The table of a command's output.
LEMMA CommandOutputStep == ASSUME ReadsInv, CommandOutput PROVE ReadsInv'
  <1>1. PICK page \in Entries(1..2),
             query \in BOOLEAN, more \in BOOLEAN, single \in BOOLEAN,
             clipped \in BOOLEAN, fields \in BOOLEAN, withheld \in BOOLEAN :
          LET table == Taken(page, NoPages, MaxRows)
              base == UnknownReason(Unknown(table.kept))
              paged == IF query THEN UnknownReason(base) ELSE MoreIf(more, base)
              cut == clipped \/ fields \/ withheld \/ table.rest
          IN Answer(LimitedIf(cut, UnknownIf(single, paged)),
                    table.rest \/ fields, TRUE, FALSE, withheld)
    BY DEF CommandOutput
  <1> DEFINE table == Taken(page, NoPages, MaxRows)
             base == UnknownReason(Unknown(table.kept))
             paged == IF query THEN UnknownReason(base) ELSE MoreIf(more, base)
             cut == clipped \/ fields \/ withheld \/ table.rest
             l == table.rest \/ fields
             c == UnknownIf(single, paged)
             d == LimitedIf(cut, c)
  <1>2. Answer(d, l, TRUE, FALSE, withheld)
    BY <1>1
  <1>3. cut \in BOOLEAN /\ (l => cut)
    OBVIOUS
  <1>4. Says(base) /\ Open(base)
    BY UnknownSays, UnknownReasonSays
  <1> HIDE DEF table, cut, l, base
  <1>5. Says(paged) /\ Open(paged)
    <2>1. Says(MoreIf(more, base)) /\ Open(MoreIf(more, base))
      BY <1>4, GivenUp
    <2>2. Says(UnknownReason(base)) /\ Open(UnknownReason(base))
      BY <1>4, UnknownReasonSays
    <2> QED
      BY <2>1, <2>2
  <1> HIDE DEF paged
  <1>6. Says(c) /\ Open(c)
    BY <1>5, GivenUp
  <1> HIDE DEF c
  <1>7. Says(d) /\ Open(d) /\ (cut => d.truncated)
    BY <1>3, <1>6, GivenUp
  <1> HIDE DEF d
  <1>8. Tells(d, l, TRUE, FALSE, withheld)
    BY <1>3, <1>7 DEF Tells, Open
  <1> QED
    BY <1>2, <1>8, AnswerStep

\* An answer that is withheld claims nothing.
LEMMA WithholdStep == ASSUME ReadsInv, Withhold PROVE ReadsInv'
  <1>1. /\ answer'.coverage = Unknown(0) /\ answer'.status = "failed" /\ part' = part
        /\ stage' = "withheld"
    BY DEF Withhold, Attach
  <1>2. CoverageHonest'
    BY <1>1, UnknownSays DEF CoverageHonest, Honest, Open
  <1> QED
    BY <1>1, <1>2 DEF ReadsInv

\* Every step of a read.
LEMMA ReadsInvStep == ReadsInv /\ [ReadsNext]_<<readVars, stage, answerVars>> => ReadsInv'
  <1> SUFFICES ASSUME ReadsInv, [ReadsNext]_<<readVars, stage, answerVars>> PROVE ReadsInv'
    OBVIOUS
  <1>1. CASE UNCHANGED <<readVars, stage, answerVars>>
    BY <1>1, NoAnswerStep DEF readVars, answerVars
  <1>2. CASE Denied
    BY <1>2, NoAnswerStep DEF Denied, answerVars
  <1>3. CASE Start
    BY <1>3, NoAnswerStep DEF Start, answerVars
  <1>4. ASSUME NEW job \in running, NEW outcome \in Outcomes, Settle(job, outcome)
        PROVE  ReadsInv'
    BY <1>4, NoAnswerStep DEF Settle, answerVars
  <1> QED
    BY <1>1, <1>2, <1>3, <1>4, FailsStep, OnePageStep, StreamsStep, StreamEventsStep, TailStep,
       IdentitiesStep, StackFailsStep, StackResourcesStep, StackEventsStep, BatchAnswerStep,
       InsightsStep, ErrorsStep, CommandOutputStep, WithholdStep
    DEF ReadsNext

\* No answer of these widgets claims more than was read.
THEOREM ReadsAreHonest == ReadsSpec => []CoverageHonest
  <1>1. ReadsInit => ReadsInv
    BY UnknownSays DEF ReadsInit, AnswerInit, Unanswered, Attach, ReadsInv, CoverageHonest
  <1>2. ReadsInv => CoverageHonest
    BY DEF ReadsInv
  <1> QED
    BY <1>1, <1>2, ReadsInvStep, PTL DEF ReadsSpec

-----------------------------------------------------------------------------
(* The order of the rows *)

\* Results of all the jobs, one of each, are sorted into their places.
LEMMA InOrderPlaces ==
  ASSUME NEW n \in Nat, NEW results, DOMAIN results = 1..n,
         \A i \in 1..n : results[i].job \in 1..n,
         \A i, j \in 1..n : results[i].job = results[j].job => i = j
  PROVE  \A i \in 1..n : InOrder(results)[i].job = i
  <1> DEFINE S == 1..n
             job == [i \in S |-> results[i].job]
             Sorts(p) == \A i, j \in DOMAIN p : i < j => results[p[i]].job <= results[p[j]].job
             back == [j \in S |-> CHOOSE i \in S : job[i] = j]
             sorted == CHOOSE p \in Bijection(S, S) : Sorts(p)
             g == [i \in S |-> job[sorted[i]]]
  <1>1. IsFiniteSet(S)
    BY FS_Interval
  <1>2. \A k \in S : \E i \in S : job[i] = k
    <2>1. job \in Injection(S, S)
      BY DEF Injection, IsInjective
    <2> HIDE DEF S, job
    <2>2. job \in Surjection(S, S)
      BY <1>1, <2>1, FS_Injection
    <2> QED
      BY <2>2 DEF Surjection
  <1>3. \A j \in S : back[j] \in S /\ job[back[j]] = j
    <2> HIDE DEF S, job
    <2> QED
      BY <1>2
  <1>4. back \in Bijection(S, S) /\ Sorts(back)
    <2>1. back \in [S -> S]
      <3> HIDE DEF S, job
      <3>1. \A j \in S : (CHOOSE i \in S : job[i] = j) \in S
        BY <1>2
      <3> QED
        BY <3>1
    <2> HIDE DEF back
    <2>2. \A w \in S : back[job[w]] = w /\ job[w] \in S
      BY <1>3
    <2>3. \A j \in S : results[back[j]].job = j
      BY <1>3
    <2>4. Sorts(back)
      <3>1. DOMAIN back = S /\ S \subseteq Int
        BY <2>1
      <3> HIDE DEF S, back
      <3>2. ASSUME NEW i \in S, NEW j \in S, i < j
            PROVE  results[back[i]].job <= results[back[j]].job
        BY <2>3, <3>1, <3>2
      <3> QED
        BY <3>1, <3>2
    <2>5. back \in Injection(S, S)
      <3> HIDE DEF S, job
      <3>1. \A a, b \in S : back[a] = back[b] => a = b
        BY <1>3
      <3> QED
        BY <2>1, <3>1 DEF Injection, IsInjective
    <2>6. back \in Surjection(S, S)
      <3> HIDE DEF S, job
      <3> QED
        BY <2>1, <2>2 DEF Surjection
    <2> QED
      BY <2>4, <2>5, <2>6 DEF Bijection
  <1>5. sorted \in Bijection(S, S) /\ Sorts(sorted)
    <2> HIDE DEF Sorts, back, S
    <2> QED
      BY <1>4
  <1>6. InOrder(results) = [i \in S |-> results[sorted[i]]]
    BY DEF InOrder
  <1> HIDE DEF sorted, back
  <1>7. /\ sorted \in [S -> S]
        /\ \A w \in S : \E v \in S : sorted[v] = w
        /\ \A i, j \in S : sorted[i] = sorted[j] => i = j
    <2> HIDE DEF S, Sorts
    <2> QED
      BY <1>5 DEF Bijection, Injection, IsInjective, Surjection
  <1>8. /\ \A i \in S : g[i] \in S
        /\ \A i, j \in S : i < j => g[i] < g[j]
    <2>1. \A i \in S : sorted[i] \in S /\ g[i] = results[sorted[i]].job /\ g[i] \in S
      BY <1>7
    <2>2. ASSUME NEW i \in S, NEW j \in S, i < j PROVE g[i] <= g[j] /\ g[i] # g[j]
      <3>1. g[i] <= g[j]
        BY <1>5, <1>7, <2>1, <2>2
      <3>2. sorted[i] # sorted[j]
        BY <1>7, <2>2
      <3> QED
        BY <2>1, <3>1, <3>2
    <2>3. \A i \in S : g[i] \in Int
      BY <2>1
    <2>4. \A i, j \in S : i < j => g[i] <= g[j] /\ g[i] # g[j]
      BY <2>2
    <2> HIDE DEF g, S, sorted
    <2>5. \A i, j \in S : i < j => g[i] < g[j]
      BY <2>3, <2>4
    <2> QED
      BY <2>1, <2>5
  <1>9. ASSUME NEW k \in S PROVE \E i \in S : g[i] = k
    <2> HIDE DEF S, job
    <2>1. PICK w \in S : job[w] = k
      BY <1>2
    <2>2. PICK v \in S : sorted[v] = w
      BY <1>7
    <2> QED
      BY <2>1, <2>2
  <1> HIDE DEF g, Sorts
  <1>10. ASSUME NEW k \in S, g[k] # k PROVE FALSE
    <2> DEFINE T == {i \in S : g[i] # i}
    <2>1. PICK m \in T : \A i \in T : m <= i
      <3>1. T \subseteq Nat /\ T # {}
        BY <1>10
      <3> QED
        BY <3>1, Least
    <2>2. PICK i \in S : g[i] = m
      BY <1>9
    <2>3. \A l \in S : l < m => g[l] = l
      BY <2>1
    <2>4. i > m
      BY <2>1, <2>2, <2>3
    <2>5. g[m] < m /\ g[m] \in S
      BY <1>8, <2>1, <2>2, <2>4
    <2> QED
      BY <1>8, <2>1, <2>3, <2>5
  <1>11. \A i \in S : g[i] = i /\ g[i] = results[sorted[i]].job
    BY <1>7, <1>10 DEF g
  <1> QED
    BY <1>6, <1>11

\* A job is waiting, running or settled, and settled once.
OrderInv ==
  /\ jobs \in Nat /\ running \subseteq 1..jobs
  /\ settled \in Seq([job : 1..jobs, outcome : {"loaded", "failed", "more", "refused"}])
  /\ \A i \in DOMAIN settled : settled[i].job \notin running
  /\ \A i, j \in DOMAIN settled : settled[i].job = settled[j].job => i = j
  /\ RowsInRequestOrder

\* The job that is started was neither running nor settled.
LEMMA OrderStart == ASSUME OrderInv, Start PROVE OrderInv'
  <1>1. Waiting \subseteq Nat /\ Waiting # {} /\ Waiting \subseteq 1..jobs
    BY DEF Start, Waiting, OrderInv
  <1>2. Min(Waiting) \in Waiting
    <2>1. PICK m \in Waiting : \A k \in Waiting : m <= k
      BY <1>1, Least
    <2> QED
      BY <2>1 DEF Min
  <1>3. Min(Waiting) \in 1..jobs /\ \A i \in DOMAIN settled : settled[i].job # Min(Waiting)
    BY <1>2 DEF Waiting
  <1> QED
    BY <1>3 DEF Start, OrderInv, RowsInRequestOrder

\* The job that has settled had not.
LEMMA OrderSettle ==
  ASSUME OrderInv, NEW job, NEW outcome \in Outcomes, Settle(job, outcome) PROVE OrderInv'
  <1>1. job \in running /\ running' = running \ {job} /\ jobs' = jobs /\ order' = order
        /\ settled' = Append(settled, [job |-> job, outcome |-> outcome])
    BY DEF Settle
  <1>2. job \in 1..jobs /\ outcome \in {"loaded", "failed", "more", "refused"}
    BY <1>1 DEF OrderInv, Outcomes
  <1>3. /\ settled' \in Seq([job : 1..jobs, outcome : {"loaded", "failed", "more", "refused"}])
        /\ DOMAIN settled' = 1..(Len(settled) + 1) /\ DOMAIN settled = 1..Len(settled)
        /\ settled'[Len(settled) + 1].job = job
        /\ \A i \in DOMAIN settled : settled'[i] = settled[i]
    BY <1>1, <1>2 DEF OrderInv
  <1>4. \A i \in DOMAIN settled : settled[i].job # job
    BY <1>1 DEF OrderInv
  <1> QED
    BY <1>1, <1>3, <1>4 DEF OrderInv, RowsInRequestOrder

\* When all jobs have settled, each is in its place.
LEMMA OrderBatchAnswer == ASSUME OrderInv, BatchAnswer PROVE OrderInv'
  <1> DEFINE results == InOrder(settled)
             fits == Taken([j \in 1..jobs |-> 1], NoPages, jobs).kept
             dates == widget = "version dates"
             n == IF dates THEN jobs ELSE fits
  <1>1. /\ order' = [i \in 1..n |-> results[i].job] /\ Len(settled) = jobs
        /\ UNCHANGED <<jobs, running, settled>>
    BY DEF BatchAnswer, Answer
  <1>2. fits \in 0..jobs
    <2> DEFINE page == [j \in 1..jobs |-> 1]
    <2>1. page \in Seq(Nat) /\ Len(page) = jobs
      BY DEF OrderInv
    <2>2. NoPages.bytes \in Nat /\ NoPages.bytes <= MaxBytes /\ jobs \in Int
      BY BudgetAssumption DEF NoPages, OrderInv
    <2> HIDE DEF page
    <2>3. Taken(page, NoPages, jobs).kept \in 0..Len(page)
      BY <2>1, <2>2, TakenIs
    <2> QED
      BY <2>1, <2>3 DEF page
  <1>3. n \in 0..jobs /\ jobs \in Nat
    <2>1. jobs \in Nat
      BY DEF OrderInv
    <2> HIDE DEF fits, dates
    <2> QED
      BY <1>2, <2>1
  <1>4. \A i \in 1..jobs : results[i].job = i
    <2> HIDE DEF results, n
    <2>1. /\ DOMAIN settled = 1..jobs
          /\ \A i \in 1..jobs : settled[i].job \in 1..jobs
          /\ \A i, j \in 1..jobs : settled[i].job = settled[j].job => i = j
      <3> DEFINE Result == [job : 1..jobs, outcome : {"loaded", "failed", "more", "refused"}]
      <3>1. /\ settled \in Seq(Result)
            /\ \A i, j \in DOMAIN settled : settled[i].job = settled[j].job => i = j
        BY DEF OrderInv
      <3>2. \A r \in Result : r.job \in 1..jobs
        OBVIOUS
      <3> HIDE DEF Result
      <3> QED
        BY <1>1, <3>1, <3>2
    <2> QED
      BY <1>1, <1>3, <2>1, InOrderPlaces DEF results
  <1> HIDE DEF results, n
  <1>5. RowsInRequestOrder'
    BY <1>1, <1>3, <1>4 DEF RowsInRequestOrder
  <1> QED
    BY <1>1, <1>5 DEF OrderInv

\* Every step of a read, once more.
LEMMA OrderInvStep == OrderInv /\ [ReadsNext]_<<readVars, stage, answerVars>> => OrderInv'
  <1> SUFFICES ASSUME OrderInv, [ReadsNext]_<<readVars, stage, answerVars>> PROVE OrderInv'
    OBVIOUS
  <1>1. CASE UNCHANGED <<jobs, running, settled, order>>
    BY <1>1 DEF OrderInv, RowsInRequestOrder
  <1>2. CASE Start
    BY <1>2, OrderStart
  <1>3. ASSUME NEW job \in running, NEW outcome \in Outcomes, Settle(job, outcome)
        PROVE  OrderInv'
    BY <1>3, OrderSettle
  <1>4. CASE BatchAnswer
    BY <1>4, OrderBatchAnswer
  <1>5. CASE Fails \/ OnePage \/ Streams \/ StreamEvents \/ TailPage \/ Identities \/ Insights
    BY <1>1, <1>5
    DEF Fails, OnePage, Streams, StreamEvents, TailPage, Identities, Insights, AnswerAtOnce,
        Answer
  <1>6. CASE StackFails \/ StackResources \/ StackEvents
    BY <1>1, <1>6 DEF StackFails, StackResources, StackEvents, Answer
  <1>8. CASE Errors
    <2>1. UNCHANGED <<jobs, running, settled, order>>
      BY <1>8 DEF Errors, Answer
    <2> QED
      BY <1>1, <2>1
  <1>9. CASE CommandOutput
    <2>1. UNCHANGED <<jobs, running, settled, order>>
      BY <1>9 DEF CommandOutput, Answer
    <2> QED
      BY <1>1, <2>1
  <1>7. CASE Denied \/ Withhold \/ UNCHANGED <<readVars, stage, answerVars>>
    BY <1>1, <1>7 DEF Denied, Withhold, readVars
  <1> QED
    BY <1>2, <1>3, <1>4, <1>5, <1>6, <1>7, <1>8, <1>9 DEF ReadsNext

\* The rows of any number of jobs, whatever the order in which they settle, are in the
\* order of the requests.
THEOREM RowsStayInOrder == ReadsSpec => []RowsInRequestOrder
  <1>1. ReadsInit => OrderInv
    BY ReadsAssumption DEF ReadsInit, OrderInv, RowsInRequestOrder
  <1>2. OrderInv => RowsInRequestOrder
    BY DEF OrderInv
  <1> QED
    BY <1>1, <1>2, OrderInvStep, PTL DEF ReadsSpec

-----------------------------------------------------------------------------
(* Listings *)

Budgets ==
  [pages : Nat, bytes : 0..MaxBytes, tokens : SUBSET NextTokens,
   stopped : {"no", "pages", "bytes", "token"}]

\* A kind that names its rows is cut where it is full and a token is left.
Named == kind \in {"groups", "functions", "packages"} /\ Overfull

\* Until the scan is over nothing has been left out; when it is, whatever was left out
\* or unread has a reason that the answer will state.
ListInv ==
  /\ CoverageHonest
  /\ budget \in Budgets /\ rows \in Nat /\ limited \in BOOLEAN
  /\ error \in {"no", "failed", "denied"}
  /\ stage \in {"asking", "ending"} => answer.status = "none" /\ ~undetailed
  /\ stage = "asking" => ~lost /\ ~failed /\ error = "no"
  /\ stage = "ending" =>
       /\ lost => ~Broken /\ (limited \/ budget.stopped = "bytes")
       /\ unread => Broken \/ limited \/ budget.stopped # "no" \/ Named
       /\ failed => Broken

\* Following a token, a budget stops or goes on.
LEMMA AdvanceIs ==
  ASSUME NEW b \in Budgets, NEW next \in NextTokens
  PROVE  LET step == Advance(b, next) IN
         /\ step.budget \in Budgets /\ step.budget.bytes = b.bytes /\ step.on \in BOOLEAN
         /\ ~step.on => next = NoToken \/ step.budget.stopped # "no"
         /\ b.stopped # "no" => ~step.on /\ step.budget.stopped = b.stopped
  <1> DEFINE page == [b EXCEPT !.pages = @ + 1]
             seen == [page EXCEPT !.tokens = @ \cup {next}]
             odd == [page EXCEPT !.stopped = "token"]
             last == [seen EXCEPT !.stopped = "pages"]
  <1>1. page \in Budgets /\ page.bytes = b.bytes /\ page.stopped = b.stopped
    BY DEF Budgets
  <1>2. Advance(b, next) =
          IF b.stopped # "no" \/ next = NoToken THEN [budget |-> page, on |-> FALSE]
          ELSE IF next = Oversized \/ next \in b.tokens THEN [budget |-> odd, on |-> FALSE]
          ELSE IF page.pages >= MaxPages THEN [budget |-> last, on |-> FALSE]
          ELSE [budget |-> seen, on |-> TRUE]
    BY DEF Advance
  <1> HIDE DEF page
  <1>3. seen \in Budgets /\ seen.bytes = b.bytes
    BY <1>1 DEF Budgets
  <1>4. odd \in Budgets /\ odd.bytes = b.bytes /\ odd.stopped = "token"
    BY <1>1 DEF Budgets
  <1> HIDE DEF seen
  <1>5. last \in Budgets /\ last.bytes = b.bytes /\ last.stopped = "pages"
    BY <1>3 DEF Budgets
  <1> HIDE DEF odd, last
  <1>6. CASE b.stopped # "no" \/ next = NoToken
    BY <1>1, <1>2, <1>6
  <1>7. CASE b.stopped = "no" /\ next # NoToken
    BY <1>2, <1>3, <1>4, <1>5, <1>7
  <1> QED
    BY <1>6, <1>7

\* What is kept of a page is within the budget, and stops it if bytes were missing.
LEMMA RetainedIs ==
  ASSUME NEW b \in Budgets, NEW taken, taken.size \in Nat, b.bytes + taken.size <= MaxBytes,
         taken.overflow \in BOOLEAN
  PROVE  LET c == Retained(b, taken) IN
         c \in Budgets /\ c.stopped = IF taken.overflow THEN "bytes" ELSE b.stopped
  <1>1. Keep(b, taken.size) \in Budgets /\ Keep(b, taken.size).stopped = b.stopped
    BY BudgetAssumption DEF Budgets, Keep
  <1>2. \A p \in Budgets : StopBytes(p) \in Budgets /\ StopBytes(p).stopped = "bytes"
    BY DEF Budgets, StopBytes
  <1> QED
    BY <1>1, <1>2 DEF Retained

\* What is taken of a page while a listing is read.
LEMMA PageTaken ==
  ASSUME rows \in Nat, NEW page \in Pages, NEW b \in Budgets
  PROVE  LET taken == Taken(page, b, MaxRows - rows) IN
         /\ taken.kept \in Nat /\ taken.size \in Nat /\ b.bytes + taken.size <= MaxBytes
         /\ taken.full \in BOOLEAN /\ taken.rest \in BOOLEAN
         /\ taken.overflow \in BOOLEAN /\ taken.lost \in BOOLEAN
         /\ taken.lost => taken.rest
         /\ taken.rest => taken.full \/ taken.overflow
         /\ taken.full => rows + taken.kept >= MaxRows
  <1>1. page \in Seq(Nat)
    BY DEF Pages
  <1>2. b.bytes \in Nat /\ b.bytes <= MaxBytes
    BY BudgetAssumption DEF Budgets
  <1>3. MaxRows - rows \in Int
    BY PageAssumption
  <1> DEFINE taken == Taken(page, b, MaxRows - rows)
  <1>4. /\ taken.kept \in 0..Len(page) /\ taken.size \in Nat
        /\ b.bytes + taken.size <= MaxBytes
        /\ taken.full \in BOOLEAN /\ taken.rest \in BOOLEAN
        /\ taken.overflow \in BOOLEAN /\ taken.lost \in BOOLEAN
        /\ taken.lost => taken.rest
        /\ taken.rest => taken.full \/ taken.overflow
        /\ taken.full => taken.kept >= MaxRows - rows
    BY <1>1, <1>2, <1>3, TakenIs
  <1> HIDE DEF taken
  <1>5. taken.kept \in Nat /\ Len(page) \in Nat
    BY <1>1, <1>4
  <1>6. taken.full => rows + taken.kept >= MaxRows
    BY <1>4, <1>5, PageAssumption
  <1> QED
    BY <1>4, <1>5, <1>6 DEF taken

\* A page whose token was looked at first.
LEMMA FollowedIs ==
  ASSUME rows \in Nat, budget \in Budgets, NEW page \in Pages, NEW next \in NextTokens
  PROVE  LET read == Followed(page, next) IN
         /\ read.after \in Budgets /\ read.taken.kept \in Nat /\ read.over \in BOOLEAN
         /\ read.taken.full \in BOOLEAN /\ read.taken.rest \in BOOLEAN
         /\ read.taken.overflow \in BOOLEAN /\ read.taken.lost \in BOOLEAN
         /\ read.taken.lost => read.taken.rest /\ read.over
         /\ read.taken.rest => read.taken.full \/ read.taken.overflow
         /\ read.taken.overflow => read.after.stopped = "bytes"
         /\ read.taken.full => rows + read.taken.kept >= MaxRows
         /\ read.over => next = NoToken \/ read.after.stopped # "no" \/ read.taken.full
  <1> DEFINE step == Advance(budget, next)
             taken == Taken(page, step.budget, MaxRows - rows)
             after == Retained(step.budget, taken)
             over == ~step.on \/ taken.overflow \/ taken.full
             read == Followed(page, next)
  <1>1. /\ step.budget \in Budgets /\ step.on \in BOOLEAN
        /\ ~step.on => next = NoToken \/ step.budget.stopped # "no"
    BY AdvanceIs
  <1>2. read.taken = taken /\ read.after = after /\ read.over = over
    BY DEF Followed
  <1> HIDE DEF read, step
  <1>3. /\ taken.kept \in Nat /\ taken.size \in Nat /\ step.budget.bytes + taken.size <= MaxBytes
        /\ taken.full \in BOOLEAN /\ taken.rest \in BOOLEAN
        /\ taken.overflow \in BOOLEAN /\ taken.lost \in BOOLEAN
        /\ taken.lost => taken.rest
        /\ taken.rest => taken.full \/ taken.overflow
        /\ taken.full => rows + taken.kept >= MaxRows
    BY <1>1, PageTaken
  <1> HIDE DEF taken
  <1>4. /\ after \in Budgets
        /\ after.stopped = IF taken.overflow THEN "bytes" ELSE step.budget.stopped
    BY <1>1, <1>3, RetainedIs
  <1> HIDE DEF after
  <1>5. over \in BOOLEAN /\ (over <=> ~step.on \/ taken.overflow \/ taken.full)
    OBVIOUS
  <1> HIDE DEF over
  <1>6. /\ read.after \in Budgets /\ read.taken.kept \in Nat /\ read.over \in BOOLEAN
        /\ read.taken.full \in BOOLEAN /\ read.taken.rest \in BOOLEAN
        /\ read.taken.overflow \in BOOLEAN /\ read.taken.lost \in BOOLEAN
        /\ read.taken.full => rows + read.taken.kept >= MaxRows
    BY <1>2, <1>3, <1>4, <1>5
  <1>7. /\ read.taken.lost => read.taken.rest /\ read.over
        /\ read.taken.rest => read.taken.full \/ read.taken.overflow
        /\ read.taken.overflow => read.after.stopped = "bytes"
        /\ read.over => next = NoToken \/ read.after.stopped # "no" \/ read.taken.full
    BY <1>1, <1>2, <1>3, <1>4, <1>5
  <1> QED
    BY <1>6, <1>7 DEF read

\* A page that was kept, and whose token is followed unless the scan is over.
LEMMA TurnStep ==
  ASSUME ListInv, stage = "asking",
         NEW taken, taken.kept \in Nat, NEW after \in Budgets, NEW next,
         NEW over \in BOOLEAN, NEW cut \in BOOLEAN, Turn(taken, after, next, over, cut),
         taken.lost => over /\ (cut \/ after.stopped = "bytes"),
         over /\ unread' =>
           \/ cut \/ after.stopped # "no"
           \/ /\ kind \in {"groups", "functions", "packages"}
              /\ rows + taken.kept >= MaxRows /\ next # NoToken
  PROVE  ListInv'
  <1>1. /\ budget' = after /\ rows' = rows + taken.kept /\ token' = next /\ limited' = cut
        /\ lost' = taken.lost /\ stage' = IF over THEN "ending" ELSE "asking"
        /\ UNCHANGED <<kind, error, answer, failed, undetailed>>
    BY DEF Turn
  <1>2. /\ budget \in Budgets /\ rows \in Nat /\ error = "no" /\ ~failed
        /\ answer.status = "none" /\ ~undetailed
    BY DEF ListInv
  <1>3. CoverageHonest' /\ budget' \in Budgets /\ rows' \in Nat /\ limited' \in BOOLEAN
        /\ error' = "no" /\ answer'.status = "none" /\ ~undetailed' /\ ~failed'
    BY <1>1, <1>2 DEF CoverageHonest
  <1>4. CASE over
    <2>1. stage' = "ending" /\ (lost' => ~Broken' /\ (limited' \/ budget'.stopped = "bytes"))
      BY <1>1, <1>3, <1>4 DEF Broken
    <2>2. unread' => limited' \/ budget'.stopped # "no" \/ Named'
      BY <1>1, <1>4 DEF Named, Overfull
    <2> QED
      BY <1>3, <2>1, <2>2 DEF ListInv
  <1>5. CASE ~over
    BY <1>1, <1>3, <1>5 DEF ListInv
  <1> QED
    BY <1>4, <1>5

\* Stacks are kept before the token is looked at.
LEMMA StacksPageStep ==
  ASSUME ListInv, stage = "asking", NEW page \in Pages, NEW next \in NextTokens,
         StacksPage(page, next)
  PROVE  ListInv'
  <1> DEFINE taken == Taken(page, budget, MaxRows - rows)
             kept == Retained(budget, taken)
             step == Advance(kept, next)
             over == ~step.on \/ taken.full
             cut == taken.full /\ (taken.rest \/ next # NoToken)
  <1>1. Turn(taken, step.budget, next, over, cut) /\ unread' = (next # NoToken)
    BY DEF StacksPage
  <1>2. rows \in Nat /\ budget \in Budgets
    BY DEF ListInv
  <1>3. /\ taken.kept \in Nat /\ taken.size \in Nat /\ budget.bytes + taken.size <= MaxBytes
        /\ taken.full \in BOOLEAN /\ taken.rest \in BOOLEAN
        /\ taken.overflow \in BOOLEAN /\ taken.lost \in BOOLEAN
        /\ taken.lost => taken.rest
        /\ taken.rest => taken.full \/ taken.overflow
    BY <1>2, PageTaken
  <1> HIDE DEF taken
  <1>4. kept \in Budgets /\ (taken.overflow => kept.stopped = "bytes")
    BY <1>2, <1>3, RetainedIs
  <1> HIDE DEF kept
  <1>5. /\ step.budget \in Budgets /\ step.on \in BOOLEAN
        /\ ~step.on => next = NoToken \/ step.budget.stopped # "no"
        /\ taken.overflow => ~step.on /\ step.budget.stopped = "bytes"
    BY <1>4, AdvanceIs
  <1> HIDE DEF step
  <1>6. over \in BOOLEAN /\ cut \in BOOLEAN
    OBVIOUS
  <1>7. taken.lost => over /\ (cut \/ step.budget.stopped = "bytes")
    BY <1>3, <1>5
  <1>8. over /\ unread' => cut \/ step.budget.stopped # "no"
    BY <1>1, <1>5
  <1> HIDE DEF over, cut
  <1> QED
    BY <1>1, <1>3, <1>5, <1>6, <1>7, <1>8, TurnStep

\* The kinds that look at the token first, and stop where they are full with more to come.
LEMMA FollowedStep ==
  ASSUME ListInv, stage = "asking", NEW page \in Pages, NEW next \in NextTokens,
         NEW came \in NextTokens, NEW cut \in BOOLEAN,
         LET read == Followed(page, next)
         IN Turn(read.taken, read.after, came, read.over, cut)
            /\ (read.taken.lost => cut \/ read.taken.overflow),
         unread' => next # NoToken,
         unread' /\ Followed(page, next).taken.full =>
           cut \/ (kind \in {"groups", "functions", "packages"} /\ came # NoToken)
  PROVE  ListInv'
  <1> DEFINE read == Followed(page, next)
  <1>1. rows \in Nat /\ budget \in Budgets
    BY DEF ListInv
  <1>2. /\ read.after \in Budgets /\ read.taken.kept \in Nat /\ read.over \in BOOLEAN
        /\ read.taken.lost => read.taken.rest /\ read.over
        /\ read.taken.rest => read.taken.full \/ read.taken.overflow
        /\ read.taken.overflow => read.after.stopped = "bytes"
        /\ read.taken.full => rows + read.taken.kept >= MaxRows
        /\ read.over => next = NoToken \/ read.after.stopped # "no" \/ read.taken.full
    BY <1>1, FollowedIs
  <1>3. Turn(read.taken, read.after, came, read.over, cut)
        /\ (read.taken.lost => cut \/ read.taken.overflow)
    OBVIOUS
  <1>4. unread' /\ read.taken.full =>
          cut \/ (kind \in {"groups", "functions", "packages"} /\ came # NoToken)
    OBVIOUS
  <1> HIDE DEF read
  <1> QED
    BY <1>2, <1>3, <1>4, TurnStep

\* Log groups, functions and packages.
LEMMA NamesPageStep ==
  ASSUME ListInv, stage = "asking", NEW page \in Pages, NEW next \in NextTokens,
         NamesPage(page, next) \/ PackagesPage(page, next)
  PROVE  ListInv'
  <1> DEFINE read == Followed(page, next)
  <1>1. rows \in Nat /\ budget \in Budgets
    BY DEF ListInv
  <1>2. /\ read.taken.rest \in BOOLEAN /\ read.taken.lost \in BOOLEAN
        /\ read.taken.lost => read.taken.rest
    BY <1>1, FollowedIs
  <1>3. /\ kind \in {"groups", "functions", "packages"} /\ unread' = (next # NoToken)
        /\ \/ Turn(read.taken, read.after, next, read.over, read.taken.rest)
           \/ Turn(read.taken, read.after, next, read.over, read.taken.lost)
    BY DEF NamesPage, PackagesPage
  <1>4. PICK cut \in {read.taken.rest, read.taken.lost} :
          Turn(read.taken, read.after, next, read.over, cut)
    BY <1>3
  <1>5. cut \in BOOLEAN /\ (read.taken.lost => cut)
    BY <1>2
  <1> HIDE DEF read
  <1> QED
    BY <1>3, <1>4, <1>5, FollowedStep DEF read

\* Resources and pipelines.
LEMMA RowsPageStep ==
  ASSUME ListInv, stage = "asking", NEW page \in Pages, NEW next \in NextTokens,
         ResourcesPage(page, next) \/ PipelinesPage(page, next)
  PROVE  ListInv'
  <1> DEFINE read == Followed(page, next)
             cut == read.taken.full /\ (read.taken.rest \/ next # NoToken)
  <1>1. rows \in Nat /\ budget \in Budgets
    BY DEF ListInv
  <1>2. /\ read.taken.lost => read.taken.rest
        /\ read.taken.rest => read.taken.full \/ read.taken.overflow
    BY <1>1, FollowedIs
  <1>3. Turn(read.taken, read.after, next, read.over, cut) /\ unread' = (next # NoToken)
    BY DEF ResourcesPage, PipelinesPage
  <1>4. cut \in BOOLEAN /\ (read.taken.lost => cut \/ read.taken.overflow)
        /\ (unread' /\ read.taken.full => cut)
    BY <1>2, <1>3
  <1> HIDE DEF cut
  <1> QED
    BY <1>3, <1>4, FollowedStep

\* The log of a build ends where its token comes back.
LEMMA BuildLogPageStep ==
  ASSUME ListInv, stage = "asking", NEW page \in Pages, NEW next \in NextTokens,
         BuildLogPage(page, next)
  PROVE  ListInv'
  <1> DEFINE end == next \in {NoToken, token}
             sent == IF end THEN NoToken ELSE next
             read == Followed(page, sent)
             cut == read.taken.overflow \/ (read.taken.full /\ (read.taken.rest \/ ~end))
  <1>1. Turn(read.taken, read.after, next, read.over, cut) /\ unread' = ~end
    BY DEF BuildLogPage
  <1>2. sent \in NextTokens /\ (~end => sent # NoToken)
    BY DEF NextTokens
  <1>3. rows \in Nat /\ budget \in Budgets
    BY DEF ListInv
  <1> HIDE DEF sent, end
  <1>4. /\ read.taken.lost => read.taken.rest
        /\ read.taken.rest => read.taken.full \/ read.taken.overflow
    BY <1>2, <1>3, FollowedIs
  <1>5. cut \in BOOLEAN /\ (read.taken.lost => cut) /\ (unread' /\ read.taken.full => cut)
    BY <1>1, <1>4
  <1> HIDE DEF cut
  <1> QED
    BY <1>1, <1>2, <1>5, FollowedStep

\* A page comes, fails or is denied.
LEMMA PageStep == ASSUME ListInv, Page PROVE ListInv'
  <1>1. stage = "asking"
    BY DEF Page
  <1>2. /\ CoverageHonest /\ budget \in Budgets /\ rows \in Nat /\ limited \in BOOLEAN
        /\ error = "no" /\ answer.status = "none" /\ ~undetailed /\ ~lost /\ ~failed
    BY <1>1 DEF ListInv
  <1>3. CASE PageFails
    <2>1. limited' \in BOOLEAN
      BY <1>3 DEF PageFails
    <2>2. /\ error' = "failed" /\ stage' = "ending"
          /\ UNCHANGED <<budget, rows, answer, lost, undetailed>>
      BY <1>3, Zenon DEF PageFails
    <2> QED
      BY <1>2, <2>1, <2>2 DEF ListInv, CoverageHonest, Broken
  <1>4. CASE PageDenied
    <2>1. /\ error' = "denied" /\ stage' \in {"denied", "ending"}
          /\ UNCHANGED <<budget, rows, limited, answer, lost, undetailed>>
      BY <1>4 DEF PageDenied
    <2> QED
      BY <1>2, <2>1 DEF ListInv, CoverageHonest, Broken
  <1> QED
    BY <1>1, <1>3, <1>4, StacksPageStep, NamesPageStep, RowsPageStep, BuildLogPageStep DEF Page

-----------------------------------------------------------------------------
(* The answers of listings *)

\* Everything that was left out or failed while the rows were read is in the coverage.
Accounts(c) ==
  /\ Says(c)
  /\ lost \/ unread \/ Broken => Open(c)
  /\ lost => c.truncated
  /\ Broken => c.failed # "no"

\* What is left out and why, when the scan is over.
LEMMA Ended ==
  ASSUME ListInv, stage = "ending"
  PROVE  /\ lost => ~Broken /\ (limited \/ budget.stopped = "bytes")
         /\ unread => Broken \/ limited \/ budget.stopped # "no" \/ Named
         /\ limited \in BOOLEAN /\ Broken \in BOOLEAN /\ Overfull \in BOOLEAN
         /\ budget.stopped \in {"no", "pages", "bytes", "token"} /\ (limited => Overfull)
  BY DEF ListInv, Broken, Overfull, Budgets

\* A cut after which there may be more.
LEMMA MaybeMoreSays ==
  ASSUME NEW c, Says(c), NEW condition \in BOOLEAN
  PROVE  LET d == MaybeMoreIf(condition, c) IN
         /\ Says(d) /\ (condition \/ Open(c) => Open(d))
         /\ condition \/ c.truncated => d.truncated
         /\ c.failed # "no" => d.failed # "no"
  <1>1. CASE condition
    <2>1. MaybeMoreIf(condition, c) = Limited(HasMore(c, "unknown"))
      BY <1>1 DEF MaybeMoreIf
    <2> QED
      BY <2>1, HasMoreSays, LimitedSays
  <1>2. CASE ~condition
    BY <1>2 DEF MaybeMoreIf
  <1> QED
    BY <1>1, <1>2

\* The listings, one by one.
LEMMA StacksAccounts ==
  ASSUME ListInv, stage = "ending", kind = "stacks" PROVE Accounts(StacksListing)
  <1> DEFINE a == Apply(budget, Complete(rows), Kept)
             m == MaybeMoreIf(limited, a)
             c == FailureIf(Broken, m, PagesRead)
  <1>1. /\ lost => limited \/ budget.stopped = "bytes"
        /\ unread => Broken \/ limited \/ budget.stopped # "no"
        /\ limited \in BOOLEAN /\ Broken \in BOOLEAN
        /\ budget.stopped \in {"no", "pages", "bytes", "token"}
    BY Ended DEF ListInv, Named
  <1>2. /\ Says(a) /\ (budget.stopped # "no" => Open(a))
        /\ budget.stopped = "bytes" => a.truncated
    BY <1>1, CompleteSays, ApplySays
  <1> HIDE DEF a
  <1>3. /\ Says(m) /\ (limited \/ Open(a) => Open(m))
        /\ limited \/ a.truncated => m.truncated
    BY <1>1, <1>2, MaybeMoreSays
  <1> HIDE DEF m
  <1>4. /\ Says(c) /\ (Broken \/ Open(m) => Open(c))
        /\ m.truncated => c.truncated
        /\ Broken => c.failed # "no"
    BY <1>1, <1>3, GivenUp
  <1>5. StacksListing = c
    BY DEF StacksListing, c, m, a
  <1> HIDE DEF c
  <1> QED
    BY <1>1, <1>2, <1>3, <1>4, <1>5 DEF Accounts

\* Failures are stated first, and the budget's limits last.
LEMMA AppliedAccounts ==
  ASSUME ListInv, stage = "ending", NEW c, Says(c), NEW kept,
         unread => Open(c) \/ Broken \/ budget.stopped # "no",
         lost => (Open(c) /\ c.truncated) \/ budget.stopped = "bytes"
  PROVE  Accounts(Apply(budget, FailureIf(Broken, c, kept), Kept))
  <1> DEFINE f == FailureIf(Broken, c, kept)
             d == Apply(budget, f, Kept)
  <1>1. Broken \in BOOLEAN /\ budget.stopped \in {"no", "pages", "bytes", "token"}
    BY Ended
  <1>2. /\ Says(f) /\ (Broken \/ Open(c) => Open(f))
        /\ c.truncated => f.truncated
        /\ Broken => f.failed # "no"
    BY <1>1, GivenUp
  <1> HIDE DEF f
  <1>3. /\ Says(d) /\ (budget.stopped # "no" \/ Open(f) => Open(d))
        /\ f.truncated \/ budget.stopped = "bytes" => d.truncated
        /\ f.failed # "no" => d.failed # "no"
    BY <1>1, <1>2, ApplySays
  <1> HIDE DEF d
  <1>4. Accounts(d)
    BY <1>1, <1>2, <1>3 DEF Accounts
  <1> QED
    BY <1>4 DEF d, f

\* Log groups, functions and packages say where they were full.
LEMMA NamesAccounts ==
  ASSUME ListInv, stage = "ending" PROVE Accounts(NamesListing) /\ Accounts(PackagesListing)
  <1> DEFINE c == MoreIf(Overfull, Complete(rows))
  <1>1. /\ lost => limited \/ budget.stopped = "bytes"
        /\ unread => Broken \/ limited \/ budget.stopped # "no" \/ Named
        /\ Overfull \in BOOLEAN /\ (limited => Overfull)
    BY Ended DEF ListInv
  <1>2. Says(c) /\ (Overfull => Open(c) /\ c.truncated)
    BY <1>1, CompleteSays, GivenUp
  <1>3. NamesListing = Apply(budget, FailureIf(Broken, c, Kept), Kept)
        /\ PackagesListing = Apply(budget, FailureIf(Broken, c, PagesRead), Kept)
    BY DEF NamesListing, PackagesListing
  <1> HIDE DEF c
  <1>4. /\ unread => Open(c) \/ Broken \/ budget.stopped # "no"
        /\ lost => (Open(c) /\ c.truncated) \/ budget.stopped = "bytes"
    BY <1>1, <1>2 DEF Named
  <1> QED
    BY <1>2, <1>3, <1>4, AppliedAccounts

\* Resources also say where the scan was capped.
LEMMA ResourcesAccounts ==
  ASSUME ListInv, stage = "ending", kind = "resources" PROVE Accounts(ResourcesListing)
  <1> DEFINE a == MoreIf(Capped, Complete(rows))
             c == MoreIf(limited, a)
  <1>1. /\ lost => limited \/ budget.stopped = "bytes"
        /\ unread => Broken \/ limited \/ budget.stopped # "no"
        /\ limited \in BOOLEAN /\ Capped \in BOOLEAN
    BY Ended DEF ListInv, Named, Capped
  <1>2. Says(a)
    BY <1>1, CompleteSays, GivenUp
  <1> HIDE DEF a
  <1>3. Says(c) /\ (limited => Open(c) /\ c.truncated)
    BY <1>1, <1>2, GivenUp
  <1>4. ResourcesListing = Apply(budget, FailureIf(Broken, c, PagesRead), Kept)
    BY DEF ResourcesListing, c, a
  <1> HIDE DEF c
  <1> QED
    BY <1>1, <1>3, <1>4, AppliedAccounts

\* Pipelines state the failure last.
LEMMA PipelinesAccounts ==
  ASSUME ListInv, stage = "ending", kind = "pipelines" PROVE Accounts(PipelinesListing)
  <1> DEFINE m == MoreIf(limited, Complete(rows))
             a == Apply(budget, m, Kept)
             c == FailureIf(Broken, a, PagesRead)
  <1>1. /\ lost => limited \/ budget.stopped = "bytes"
        /\ unread => Broken \/ limited \/ budget.stopped # "no"
        /\ limited \in BOOLEAN /\ Broken \in BOOLEAN
        /\ budget.stopped \in {"no", "pages", "bytes", "token"}
    BY Ended DEF ListInv, Named
  <1>2. Says(m) /\ (limited => Open(m) /\ m.truncated)
    BY <1>1, CompleteSays, GivenUp
  <1> HIDE DEF m
  <1>3. /\ Says(a) /\ (budget.stopped # "no" \/ Open(m) => Open(a))
        /\ m.truncated \/ budget.stopped = "bytes" => a.truncated
    BY <1>1, <1>2, ApplySays
  <1> HIDE DEF a
  <1>4. /\ Says(c) /\ (Broken \/ Open(a) => Open(c))
        /\ a.truncated => c.truncated
        /\ Broken => c.failed # "no"
    BY <1>1, <1>3, GivenUp
  <1>5. PipelinesListing = c
    BY DEF PipelinesListing, c, a, m
  <1> HIDE DEF c
  <1> QED
    BY <1>1, <1>2, <1>3, <1>4, <1>5 DEF Accounts

\* The log of a build was not cut if it failed, so the failure says enough.
LEMMA BuildLogAccounts ==
  ASSUME ListInv, stage = "ending", kind \notin {"groups", "functions", "packages"}
  PROVE  Accounts(BuildLogListing)
  <1> DEFINE c == Apply(budget, Complete(rows), Kept)
             f == Failure(c, Kept)
             m == MaybeMoreIf(limited, c)
  <1>1. /\ lost => ~Broken /\ (limited \/ budget.stopped = "bytes")
        /\ unread => Broken \/ limited \/ budget.stopped # "no"
        /\ limited \in BOOLEAN /\ Broken \in BOOLEAN
        /\ budget.stopped \in {"no", "pages", "bytes", "token"}
    BY Ended DEF ListInv, Named
  <1>2. /\ Says(c) /\ (budget.stopped # "no" => Open(c))
        /\ budget.stopped = "bytes" => c.truncated
    BY <1>1, CompleteSays, ApplySays
  <1> HIDE DEF c
  <1>3. Says(f) /\ Open(f) /\ f.truncated = c.truncated /\ f.failed # "no"
    BY <1>2, FailureSays
  <1>4. /\ Says(m) /\ (limited \/ Open(c) => Open(m))
        /\ limited \/ c.truncated => m.truncated
    BY <1>1, <1>2, MaybeMoreSays
  <1>5. BuildLogListing = IF Broken THEN f ELSE m
    BY DEF BuildLogListing, c, f, m
  <1> HIDE DEF f, m
  <1> QED
    BY <1>1, <1>2, <1>3, <1>4, <1>5 DEF Accounts

-----------------------------------------------------------------------------
\* An answer that tells what is true of it.
LEMMA FinishStep ==
  ASSUME ListInv, NEW c, NEW u, NEW f, Finish(c, u, f), Tells(c, lost, unread, failed \/ f, u)
  PROVE  ListInv'
  <1>1. /\ answer' = Attach(c) /\ stage' = "done" /\ lost' = lost /\ unread' = unread
        /\ failed' = (failed \/ f) /\ undetailed' = u
        /\ UNCHANGED <<kind, budget, rows, token, error, limited>>
    BY DEF Finish
  <1>2. CoverageHonest'
    <2>1. Tells(c, lost', unread', failed', undetailed')
      BY <1>1
    <2> QED
      BY <1>1, <2>1, AnswerTells
  <1> QED
    BY <1>1, <1>2 DEF ListInv

\* A listing without details.
LEMMA ListAnswerStep == ASSUME ListInv, ListAnswer PROVE ListInv'
  <1>1. PICK c \in {NamesListing, PipelinesListing, BuildLogListing} :
          Accounts(c) /\ Finish(c, FALSE, FALSE)
    <2>1. stage = "ending"
      BY DEF ListAnswer, Finish
    <2>2. CASE kind \in {"groups", "functions"} /\ Finish(NamesListing, FALSE, FALSE)
      BY <2>1, <2>2, NamesAccounts
    <2>3. CASE kind = "pipelines" /\ Finish(PipelinesListing, FALSE, FALSE)
      BY <2>1, <2>3, PipelinesAccounts
    <2>4. CASE kind = "build log" /\ Finish(BuildLogListing, FALSE, FALSE)
      <3>1. kind \notin {"groups", "functions", "packages"}
        BY <2>4
      <3> QED
        BY <2>1, <2>4, <3>1, BuildLogAccounts
    <2> QED
      BY <2>2, <2>3, <2>4 DEF ListAnswer
  <1>2. failed => Broken
    BY <1>1 DEF ListInv, Finish
  <1>3. Tells(c, lost, unread, failed \/ FALSE, FALSE)
    BY <1>1, <1>2 DEF Accounts, Tells, Open
  <1> QED
    BY <1>1, <1>3, FinishStep

\* A listing and the details of its rows, if each accounts for what it has missed.
LEMMA SectionsStep ==
  ASSUME ListInv, NEW listing, NEW details, NEW u, NEW f,
         Finish(Sections(listing, details), u, f), Accounts(listing), Says(details),
         u => details.level # "complete", f => details.failed # "no"
  PROVE  ListInv'
  <1> DEFINE c == Section(Complete(rows), listing)
             s == Section(c, details)
  <1>1. Says(Complete(rows)) /\ Says(listing)
    BY CompleteSays DEF Accounts
  <1>2. /\ Says(c) /\ (c.level = "complete" => listing.level = "complete")
        /\ c.more = "no" => listing.more = "no"
        /\ listing.truncated => c.truncated
        /\ listing.failed # "no" => c.failed # "no"
    BY <1>1, SectionSays
  <1> HIDE DEF c
  <1>3. /\ Says(s) /\ (s.level = "complete" => c.level = "complete" /\ details.level = "complete")
        /\ s.more = "no" => c.more = "no"
        /\ c.truncated => s.truncated
        /\ c.failed # "no" \/ details.failed # "no" => s.failed # "no"
    BY <1>2, SectionSays
  <1>4. Sections(listing, details) = s
    BY DEF Sections, s, c
  <1> HIDE DEF s
  <1>5. failed => Broken
    BY DEF ListInv, Finish
  <1>6. Tells(s, lost, unread, failed \/ f, u)
    BY <1>2, <1>3, <1>5 DEF Accounts, Tells, Open
  <1> QED
    BY <1>4, <1>6, FinishStep

\* What details have in common: failures are stated, and whatever keeps rows from being
\* asked for.
LEMMA DetailsSay ==
  ASSUME ListInv, NEW good, NEW failures, NEW denied \in BOOLEAN
  PROVE  LET c == Details(good, failures, denied) IN
         /\ Says(c)
         /\ failures > 0 \/ denied => c.failed # "no"
         /\ failures > 0 \/ denied \/ Broken \/ rows > DetailLimit => Open(c)
  <1> DEFINE some == failures > 0
             many == rows > DetailLimit
             c == FailureIf(some, Complete(good), TRUE)
             d == IF denied THEN Failure(c, Kept)
                  ELSE IF Broken THEN UnknownReason(c) ELSE LimitedIf(many, c)
  <1>1. some \in BOOLEAN /\ many \in BOOLEAN /\ Broken \in BOOLEAN /\ Says(Complete(good))
    BY CompleteSays DEF Broken
  <1>2. Details(good, failures, denied) = d
    BY DEF Details
  <1>3. (failures > 0 <=> some) /\ (rows > DetailLimit <=> many)
    OBVIOUS
  <1> HIDE DEF some, many
  <1>4. Says(c) /\ (some => Open(c) /\ c.failed # "no")
    BY <1>1, GivenUp
  <1> HIDE DEF c
  <1>5. /\ Says(Failure(c, Kept)) /\ Open(Failure(c, Kept)) /\ Failure(c, Kept).failed # "no"
        /\ Says(UnknownReason(c)) /\ Open(UnknownReason(c))
        /\ UnknownReason(c).failed = c.failed
    BY <1>4, FailureSays, UnknownReasonSays
  <1>6. /\ Says(LimitedIf(many, c)) /\ (many \/ Open(c) => Open(LimitedIf(many, c)))
        /\ c.failed # "no" => LimitedIf(many, c).failed # "no"
    BY <1>1, <1>4, GivenUp
  <1> QED
    BY <1>1, <1>2, <1>3, <1>4, <1>5, <1>6

\* Where all rows were asked for and none failed or had more, all have their detail.
LEMMA AllLoaded ==
  ASSUME rows \in Nat, ~Broken, rows <= DetailLimit,
         NEW d \in [Targets -> {"loaded", "full", "failed"}],
         ~(Having("full", d) > 0), ~(Having("failed", d) > 0)
  PROVE  Having("loaded", d) = rows
  <1>1. Targets = 1..rows
    BY ListingsAssumption DEF Targets
  <1>2. IsFiniteSet(1..rows) /\ Cardinality(1..rows) = rows
    BY FS_Interval
  <1>3. ASSUME NEW outcome, ~(Having(outcome, d) > 0) PROVE \A i \in 1..rows : d[i] # outcome
    <2> DEFINE T == {i \in DOMAIN d : d[i] = outcome}
    <2>1. T \subseteq 1..rows
      BY <1>1
    <2>2. IsFiniteSet(T) /\ Cardinality(T) \in Nat
      BY <1>2, <2>1, FS_Subset, FS_CardinalityType
    <2>3. Cardinality(T) = 0
      BY <1>3, <2>2 DEF Having
    <2>4. T = {}
      BY <2>2, <2>3, FS_EmptySet
    <2> QED
      BY <1>1, <2>4
  <1>4. \A i \in 1..rows : d[i] = "loaded"
    BY <1>1, <1>3
  <1>5. {i \in DOMAIN d : d[i] = "loaded"} = 1..rows
    BY <1>1, <1>4
  <1> QED
    BY <1>2, <1>5 DEF Having

\* Stacks and their details.
LEMMA StacksAnswerStep == ASSUME ListInv, StacksAnswer PROVE ListInv'
  <1>1. stage = "ending" /\ kind = "stacks" /\ rows \in Nat
    BY DEF StacksAnswer, Finish, ListInv
  <1>2. Accounts(StacksListing)
    BY <1>1, StacksAccounts
  <1>3. ASSUME NEW d \in [Targets -> {"loaded", "full", "failed"}],
               Finish(Sections(StacksListing, StackDetails(d, FALSE)),
                      Having("loaded", d) < rows, Having("failed", d) > 0)
        PROVE  ListInv'
    <2> DEFINE full == Having("full", d) > 0
               bad == Having("failed", d) > 0
               short == Having("loaded", d) < rows
               e == Details(Having("loaded", d) + Having("full", d), Having("failed", d), FALSE)
               c == UnknownIf(full, e)
    <2>1. /\ Says(e) /\ (bad => e.failed # "no")
          /\ bad \/ Broken \/ rows > DetailLimit => Open(e)
      BY DetailsSay
    <2>2. short => full \/ bad \/ Broken \/ rows > DetailLimit
      BY <1>1, AllLoaded, ListingsAssumption
    <2>3. full \in BOOLEAN
      OBVIOUS
    <2> HIDE DEF e, full, bad, short
    <2>4. Says(c) /\ (full \/ Open(e) => Open(c)) /\ (e.failed # "no" => c.failed # "no")
      BY <2>1, <2>3, GivenUp
    <2>5. StackDetails(d, FALSE) = c
      BY DEF StackDetails, c, e, full
    <2> HIDE DEF c
    <2>6. Finish(Sections(StacksListing, c), short, bad)
      BY <1>3, <2>5 DEF short, bad
    <2>7. (short => c.level # "complete") /\ (bad => c.failed # "no")
      BY <2>1, <2>2, <2>4 DEF Open
    <2> QED
      BY <1>2, <2>4, <2>6, <2>7, SectionsStep
  <1>4. CASE Finish(Sections(StacksListing, StackDetails(<<>>, TRUE)), TRUE, TRUE)
    <2> DEFINE full == Having("full", <<>>) > 0
               e == Details(Having("loaded", <<>>) + Having("full", <<>>),
                            Having("failed", <<>>), TRUE)
               c == UnknownIf(full, e)
    <2>1. Says(e) /\ e.failed # "no" /\ Open(e)
      BY DetailsSay
    <2>2. full \in BOOLEAN
      OBVIOUS
    <2> HIDE DEF e, full
    <2>3. Says(c) /\ Open(c) /\ c.failed # "no"
      BY <2>1, <2>2, GivenUp
    <2>4. StackDetails(<<>>, TRUE) = c
      BY DEF StackDetails, c, e, full
    <2> HIDE DEF c
    <2> QED
      BY <1>2, <1>4, <2>3, <2>4, SectionsStep DEF Open
  <1> QED
    BY <1>3, <1>4 DEF StacksAnswer

\* Resources and their owners.
LEMMA ResourcesAnswerStep == ASSUME ListInv, ResourcesAnswer PROVE ListInv'
  <1>1. stage = "ending" /\ kind = "resources"
    BY DEF ResourcesAnswer, Finish
  <1>2. Accounts(ResourcesListing)
    BY <1>1, ResourcesAccounts
  <1>3. ASSUME NEW d, NEW denied \in BOOLEAN
        PROVE  LET c == ResourceDetails(d, denied) IN
               /\ Says(c) /\ (Having("confirmed", d) < rows => Open(c))
               /\ Having("failed", d) > 0 \/ denied => c.failed # "no"
               /\ denied => Open(c)
    <2> DEFINE short == Having("confirmed", d) < rows
               e == Details(Having("confirmed", d), Having("failed", d), denied)
               c == UnknownIf(short, e)
    <2>1. /\ Says(e) /\ (Having("failed", d) > 0 \/ denied => e.failed # "no")
          /\ denied => Open(e)
      BY DetailsSay
    <2>2. short \in BOOLEAN /\ (Having("confirmed", d) < rows <=> short)
      OBVIOUS
    <2> HIDE DEF e, short
    <2>3. /\ Says(c) /\ (short \/ Open(e) => Open(c))
          /\ e.failed # "no" => c.failed # "no"
      BY <2>1, <2>2, GivenUp
    <2>4. ResourceDetails(d, denied) = c
      BY DEF ResourceDetails, c, e, short
    <2> HIDE DEF c
    <2> QED
      BY <2>1, <2>2, <2>3, <2>4
  <1>4. ASSUME NEW d,
               Finish(Sections(ResourcesListing, ResourceDetails(d, FALSE)),
                      Having("confirmed", d) < rows, Having("failed", d) > 0)
        PROVE  ListInv'
    <2> DEFINE c == ResourceDetails(d, FALSE)
               short == Having("confirmed", d) < rows
               bad == Having("failed", d) > 0
    <2>1. Says(c) /\ (short => Open(c)) /\ (bad => c.failed # "no")
      BY <1>3
    <2>2. Finish(Sections(ResourcesListing, c), short, bad)
      BY <1>4
    <2> HIDE DEF c, short, bad
    <2> QED
      BY <1>2, <2>1, <2>2, SectionsStep DEF Open
  <1>5. CASE Finish(Sections(ResourcesListing, ResourceDetails(<<>>, TRUE)), TRUE, TRUE)
    <2> DEFINE c == ResourceDetails(<<>>, TRUE)
    <2>1. Says(c) /\ Open(c) /\ c.failed # "no"
      BY <1>3
    <2>2. Finish(Sections(ResourcesListing, c), TRUE, TRUE)
      BY <1>5
    <2> HIDE DEF c
    <2> QED
      BY <1>2, <2>1, <2>2, SectionsStep DEF Open
  <1> QED
    BY <1>4, <1>5 DEF ResourcesAnswer

\* A package that was not reached was left because one before it was denied.
LEMMA NotReached ==
  ASSUME NEW n \in Nat, NEW d, DOMAIN d \in {{}, 1..n}, NEW i \in DOMAIN d, i \notin Reached(d)
  PROVE  \E j \in Reached(d) : Denies(d[j])
  <1> DEFINE T == {k \in DOMAIN d : Denies(d[k])}
  <1>1. T \subseteq Nat /\ T # {}
    BY DEF Reached
  <1>2. PICK j \in T : \A k \in T : j <= k
    BY <1>1, Least
  <1>3. j \in Reached(d)
    BY <1>1, <1>2 DEF Reached
  <1> QED
    BY <1>2, <1>3

\* Packages and their versions, up to the first that is denied.
LEMMA PackagesAnswerStep == ASSUME ListInv, PackagesAnswer PROVE ListInv'
  <1>1. stage = "ending" /\ rows \in Nat
    BY DEF PackagesAnswer, Finish, ListInv
  <1>2. PICK d \in [(IF Broken THEN {} ELSE 1..rows) -> PackageSteps] :
          Finish(Sections(PackagesListing, PackageDetails(d)),
                 \/ Broken /\ rows > 0
                 \/ \E i \in DOMAIN d :
                      i \notin Reached(d) \/ d[i].more \/ Denies(d[i]) \/ DetailFailed(d[i]),
                 \E i \in Reached(d) : Denies(d[i]) \/ DetailFailed(d[i]))
    BY DEF PackagesAnswer
  <1> DEFINE attempted == {i \in Reached(d) : d[i].step # "refused"}
             failures == {i \in attempted : DetailFailed(d[i])}
             bad == failures # {}
             denied == \E i \in Reached(d) : Denies(d[i])
             more == \E i \in attempted : d[i].more
             c == FailureIf(bad, Complete(Cardinality(attempted \ failures)), TRUE)
             e == IF denied THEN Failure(c, Kept) ELSE UnknownIf(Broken, c)
             all == MoreIf(more, e)
             u == \/ Broken /\ rows > 0
                  \/ \E i \in DOMAIN d :
                       i \notin Reached(d) \/ d[i].more \/ Denies(d[i]) \/ DetailFailed(d[i])
             f == \E i \in Reached(d) : Denies(d[i]) \/ DetailFailed(d[i])
  <1>3. Finish(Sections(PackagesListing, all), u, f)
    BY <1>2 DEF PackageDetails
  <1>4. \A i \in Reached(d) : /\ i \in DOMAIN d
                              /\ DetailFailed(d[i]) => i \in failures
                              /\ d[i].more => i \in attempted
    <2>1. \A i \in DOMAIN d : d[i] \in PackageSteps
      OBVIOUS
    <2>2. \A p \in PackageSteps : p.step = "refused" => ~p.more
      BY DEF PackageSteps
    <2>3. Reached(d) \subseteq DOMAIN d
      BY DEF Reached
    <2> QED
      BY <2>1, <2>2, <2>3 DEF DetailFailed
  <1>5. \A i \in DOMAIN d : i \notin Reached(d) => denied
    BY <1>1, NotReached
  <1>6. f => bad \/ denied
    BY <1>4
  <1>7. u => Broken \/ denied \/ bad \/ more
    BY <1>4, <1>5
  <1>8. bad \in BOOLEAN /\ denied \in BOOLEAN /\ more \in BOOLEAN /\ Broken \in BOOLEAN
        /\ Says(Complete(Cardinality(attempted \ failures)))
    BY CompleteSays DEF Broken
  <1> HIDE DEF bad, denied, more, attempted, failures, u, f
  <1>9. Says(c) /\ (bad => Open(c) /\ c.failed # "no")
    BY <1>8, GivenUp
  <1> HIDE DEF c
  <1>10. /\ Says(e) /\ (denied \/ Broken \/ bad => Open(e))
         /\ bad \/ denied => e.failed # "no"
    <2>1. Says(Failure(c, Kept)) /\ Open(Failure(c, Kept)) /\ Failure(c, Kept).failed # "no"
      BY <1>9, FailureSays
    <2>2. /\ Says(UnknownIf(Broken, c)) /\ (Broken \/ Open(c) => Open(UnknownIf(Broken, c)))
          /\ c.failed # "no" => UnknownIf(Broken, c).failed # "no"
      BY <1>8, <1>9, GivenUp
    <2> QED
      BY <1>9, <2>1, <2>2
  <1> HIDE DEF e
  <1>11. /\ Says(all) /\ (more \/ Open(e) => Open(all))
         /\ e.failed # "no" => all.failed # "no"
    BY <1>8, <1>10, GivenUp
  <1> HIDE DEF all
  <1>12. (u => all.level # "complete") /\ (f => all.failed # "no")
    BY <1>6, <1>7, <1>10, <1>11 DEF Open
  <1> QED
    BY <1>1, <1>3, <1>11, <1>12, NamesAccounts, SectionsStep

\* There is no log to read.
LEMMA NoBuildLogStep == ASSUME ListInv, NoBuildLog PROVE ListInv'
  <1>1. /\ stage = "asking" /\ stage' = "done" /\ unread' = TRUE
        /\ UNCHANGED <<budget, rows, error, limited, lost, undetailed>>
    BY Zenon DEF NoBuildLog
  <1>2. /\ ~lost /\ ~failed /\ ~undetailed
    BY <1>1 DEF ListInv
  <1>3. CASE failed' = TRUE /\ answer' = Attach(Failure(Unknown(0), FALSE))
    <2>1. Says(Failure(Unknown(0), FALSE)) /\ Open(Failure(Unknown(0), FALSE))
          /\ Failure(Unknown(0), FALSE).failed # "no"
      BY UnknownSays, FailureSays
    <2>2. Tells(Failure(Unknown(0), FALSE), lost', unread', failed', undetailed')
      BY <1>1, <1>2, <2>1 DEF Tells, Open
    <2>3. CoverageHonest'
      BY <1>3, <2>2, AnswerTells
    <2> QED
      BY <1>1, <2>3 DEF ListInv
  <1>4. CASE UNCHANGED failed /\ answer' = Attach(UnknownReason(Unknown(0)))
    <2>1. Says(UnknownReason(Unknown(0))) /\ Open(UnknownReason(Unknown(0)))
      BY UnknownSays, UnknownReasonSays
    <2>2. Tells(UnknownReason(Unknown(0)), lost', unread', failed', undetailed')
      BY <1>1, <1>2, <1>4, <2>1 DEF Tells, Open
    <2>3. CoverageHonest'
      BY <1>4, <2>2, AnswerTells
    <2> QED
      BY <1>1, <2>3 DEF ListInv
  <1> QED
    BY <1>3, <1>4 DEF NoBuildLog

\* Every step of a listing.
LEMMA ListInvStep == ListInv /\ [ListNext]_<<listVars, stage, answerVars>> => ListInv'
  <1> SUFFICES ASSUME ListInv, [ListNext]_<<listVars, stage, answerVars>> PROVE ListInv'
    OBVIOUS
  <1>1. CASE UNCHANGED <<listVars, stage, answerVars>>
    BY <1>1
    DEF listVars, answerVars, ListInv, CoverageHonest, Honest, Broken, Named, Overfull
  <1> QED
    BY <1>1, PageStep, NoBuildLogStep, StacksAnswerStep, ResourcesAnswerStep, PackagesAnswerStep,
       ListAnswerStep
    DEF ListNext

\* No answer of a listing claims more than was read.
THEOREM ListingsAreHonest == ListSpec => []CoverageHonest
  <1>1. ListInit => ListInv
    <2> SUFFICES ASSUME ListInit PROVE ListInv
      OBVIOUS
    <2>1. /\ stage = "asking" /\ budget = NoPages /\ rows = 0 /\ error = "no"
          /\ limited = FALSE /\ AnswerInit
      BY Zenon DEF ListInit
    <2>2. NoPages \in Budgets
      BY BudgetAssumption DEF NoPages, Budgets
    <2>3. answer.status = "none" /\ lost = FALSE /\ failed = FALSE /\ undetailed = FALSE
      BY <2>1 DEF AnswerInit, Unanswered, Attach
    <2> QED
      BY <2>1, <2>2, <2>3 DEF ListInv, CoverageHonest
  <1>2. ListInv => CoverageHonest
    BY DEF ListInv
  <1> QED
    BY <1>1, <1>2, ListInvStep, PTL DEF ListSpec
=============================================================================
