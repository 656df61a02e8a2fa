SPECIFICATION Spec
CONSTANTS
  Client = {c1, c2}
  a1 = a1
  a2 = a2
  s1 = s1
  s2 = s2
  Administrator = {s1, s2}
  Account = {a1, a2}
  Key = {k1}
  Session = {v1, v2}
  Email = {e1, e2}
  Owner = Owner
  None = None
  Grants <- MCGrants
  MaxAdministrators = 2
  MaxSecrets = 2
SYMMETRY Interchangeable
INVARIANTS OneIdentityPerEmail
PROPERTIES OwnerStands NothingRegained
