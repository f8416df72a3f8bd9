----------------------------- MODULE MCLiveChat -----------------------------
EXTENDS LiveChat, TLC

\* Model values of one kind are interchangeable; the rows are only when none of
\* them exists at the start.
PeopleSymmetry == Permutations(Turns) \cup Permutations(Desk)
                    \cup Permutations(Agents) \cup Permutations(Pods)
RowSymmetry == PeopleSymmetry \cup Permutations(Rows)
=============================================================================
