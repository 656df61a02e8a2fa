---------------------------- MODULE MCAdminAccounts ----------------------------
EXTENDS AdminAccounts, TLC

CONSTANTS a1, a2, s1, s2

MCGrants == {FullAccess, {"records.read"}, {"serviceAccounts.manage", "records.read"}}
Interchangeable == Permutations({a1, a2}) \cup Permutations({s1, s2})
================================================================================
