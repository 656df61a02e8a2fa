----------------------------- MODULE MCAppAccounts -----------------------------
EXTENDS AppAccounts, TLC
CONSTANTS u1, u2, e1, c1, s1
Symmetry == Permutations(User)

\* Open registration whose email has to be verified, and passwords that are off.
TwoConfigs ==
  {[password |-> TRUE, open |-> TRUE, mode |-> "required"], [password |-> FALSE, open |-> FALSE, mode |-> "optional"]}

\* Bound: either several passwords and tokens, with mails that are settled by
\* their first attempt and no test mails, or one of each without Sessions, with attempts that fail,
\* retries and restarts.
FirstAttempt ==
  /\ crashes = 0 /\ work["test"] = Idle
  /\ \A m \in Mail : mails[m].tries <= 1 /\ mails[m].attempts <= IF mails[m].status \in Open THEN 0 ELSE 1
OneOfEach    == drawn <= 1 /\ Newest <= 1 /\ \A s \in Session : sessions[s] = NoSession
Scope        == FirstAttempt \/ OneOfEach
=============================================================================
