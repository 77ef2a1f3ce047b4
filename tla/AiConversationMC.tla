-------------------------- MODULE AiConversationMC --------------------------
EXTENDS AiConversation, TLC

\* Months of a day: the model does not leave the second.
ShortMonth == <<1, 1, 1, 1>>

RequestSymmetry == Permutations(Requests) \cup Permutations(Proposals) \cup Permutations(Messages)
=============================================================================
