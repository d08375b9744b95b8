------------------------------ MODULE MCDrafts ------------------------------
EXTENDS Drafts
CONSTANTS d1, d2, celsius, kelvin, hour
MCDeclared == d1 :> Unset @@ d2 :> kelvin
MCDimension == celsius :> "temperature" @@ kelvin :> "temperature" @@ hour :> "time"
\* d1 alone, or shown below an attached d2.
MCInitialRefs == {[list |-> <<d1>>, attached |-> Unset], [list |-> <<d1, d2>>, attached |-> d2]}

Plain(tool) == [tool |-> tool, ref |-> Unset, args |-> Unset, note |-> Unset, claim |-> Unset]
Claim == [unit |-> celsius, newest |-> TRUE]
Train(ref, note, claim) == [Plain("train") EXCEPT !.ref = ref, !.note = note, !.claim = claim]
Lab(temp, value, unit) ==
  [Plain("lab") EXCEPT !.args = [temp |-> temp, time |-> [value |-> value, unit |-> unit]]]
Convert(to, note, claim) ==
  [Plain("convert") EXCEPT !.args = [from |-> celsius, to |-> to], !.note = note, !.claim = claim]

\* The same input twice, one at a boundary, one beyond it with an open field.
MCOffers ==
  {Train(1, n, c) : n \in {Unset, celsius}, c \in {Unset, Claim}}
    \cup {Train(2, Unset, Unset), Train(2, celsius, Claim), Train(3, Unset, Unset)}
    \cup {Train(0, celsius, Unset), Train(Unset, Unset, Claim), Train(1, celsius, [Claim EXCEPT !.newest = FALSE])}
    \cup {Lab(9500, 120, "h"), Lab(9500, 7200, "min"), Lab(11000, 30000, "min"), Lab(Ambiguous, 6100, "min")}
    \cup {Convert(kelvin, Unset, Unset), Convert(kelvin, celsius, Unset), Convert(hour, Unset, Unset),
          Convert(kelvin, celsius, Claim)}
    \cup {Plain("ask_user")}
=============================================================================
