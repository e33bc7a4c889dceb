-------------------------------- MODULE Glob --------------------------------
(***************************************************************************)
(* glob_match of the policy: one scan over pattern and text that goes back *)
(* to the last star when it meets a mismatch, against what the pattern     *)
(* means.                                                                  *)
(*                                                                         *)
(* A text has neither "*" nor "?": it is an operation of the registry.     *)
(***************************************************************************)
EXTENDS Integers, Sequences

CONSTANTS
  Letters,        \* of the texts
  PatternLength,  \* bounds of what is explored
  TextLength

\* A text has no star of its own.
ASSUME GlobAssumption == "*" \notin Letters /\ {PatternLength, TextLength} \subseteq Nat

VARIABLES
  pattern, text,
  pi, ti,         \* positions, from 1
  star, mark,     \* the last star, 0 for None, and where its run ends
  matched         \* "scanning", "yes" or "no"

scanVars == <<pattern, text, pi, ti, star, mark, matched>>

Strings(alphabet, length) == UNION {[1..n -> alphabet] : n \in 0..length}

ScanInit ==
  /\ pattern \in Strings(Letters \cup {"*", "?"}, PatternLength)
  /\ text \in Strings(Letters, TextLength)
  /\ pi = 1 /\ ti = 1 /\ star = 0 /\ mark = 1 /\ matched = "scanning"

Scanning == matched = "scanning" /\ ti <= Len(text)

At(characters) == pi <= Len(pattern) /\ pattern[pi] \in characters

Step ==
  /\ Scanning /\ At({"?", text[ti]})
  /\ pi' = pi + 1 /\ ti' = ti + 1
  /\ UNCHANGED <<pattern, text, star, mark, matched>>

Star ==
  /\ Scanning /\ ~At({"?", text[ti]}) /\ At({"*"})
  /\ star' = pi /\ mark' = ti /\ pi' = pi + 1
  /\ UNCHANGED <<pattern, text, ti, matched>>

\* Mutant: the star takes the same character again.
BacktrackInPlace ==
  /\ Scanning /\ ~At({"?", "*", text[ti]}) /\ star > 0
  /\ pi' = star + 1 /\ ti' = ti + 1
  /\ UNCHANGED <<pattern, text, star, mark, matched>>

\* The last star takes one character more.
Backtrack ==
  /\ Scanning /\ ~At({"?", "*", text[ti]}) /\ star > 0
  /\ pi' = star + 1 /\ mark' = mark + 1 /\ ti' = mark + 1
  /\ UNCHANGED <<pattern, text, star, matched>>

Mismatch ==
  /\ Scanning /\ ~At({"?", "*", text[ti]}) /\ star = 0
  /\ matched' = "no"
  /\ UNCHANGED <<pattern, text, pi, ti, star, mark>>

\* What is left of the pattern may only be stars.
AtEnd ==
  /\ matched = "scanning" /\ ti > Len(text)
  /\ matched' = IF \A i \in pi..Len(pattern) : pattern[i] = "*" THEN "yes" ELSE "no"
  /\ UNCHANGED <<pattern, text, pi, ti, star, mark>>

ScanNext == Step \/ Star \/ Backtrack \/ Mismatch \/ AtEnd

ScanSpec == ScanInit /\ [][ScanNext]_scanVars

-----------------------------------------------------------------------------
\* end[i] is where the text described by the first i characters of p ends: each takes
\* one character that it is or stands for, a star any number of them.
Describes(end, p, t) ==
  /\ \A i, j \in DOMAIN end : i <= j => end[i] <= end[j]
  /\ \A i \in DOMAIN end : i > 0 /\ p[i] # "*" =>
       end[i] = end[i - 1] + 1 /\ p[i] \in {"?", t[end[i]]}

\* What a pattern means.
Matches(p, t) ==
  \E end \in [0..Len(p) -> 0..Len(t)] :
    end[0] = 0 /\ end[Len(p)] = Len(t) /\ Describes(end, p, t)

\* The scan answers what the pattern means, however many stars it went back to.
GlobMatchesReference ==
  matched \in {"yes", "no"} => ((matched = "yes") <=> Matches(pattern, text))
=============================================================================
