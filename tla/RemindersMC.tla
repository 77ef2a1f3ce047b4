---------------------------- MODULE RemindersMC ----------------------------
EXTENDS Reminders, TLC

CONSTANTS o1

DueAtOnce == o1 :> 0

RunSymmetry == Permutations(Runs)
ReminderSymmetry == Permutations(Runs) \cup Permutations(Recipients)
=============================================================================
