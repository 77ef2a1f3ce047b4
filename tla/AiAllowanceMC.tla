--------------------------- MODULE AiAllowanceMC ---------------------------
EXTENDS AiAllowance, TLC

\* Months of three days, the third of two: its neighbours' last days have no match in it.
ShortMonth == <<3, 3, 2, 3, 3, 3>>

ChatSymmetry == Permutations(Requests) \cup Permutations(Messages)
=============================================================================
