SPECIFICATION FairSpec
CONSTANTS
  a1 = a1
  a2 = a2
  r1 = r1
  r2 = r2
  ann = ann
  first = first
  second = second
  brief = brief
  none = none
  Account <- MCAccounts
  Request <- MCRequests
  Address = {ann}
  Password = {first, second, brief}
  Short = {brief}
  Release <- MCReleases
  First <- MCFirst
  NoAccount = none
  MaxMishaps = 1
  MaxReplaced = 1
INVARIANTS OneLiveAccount OpensWithOwnPassword
PROPERTIES DeletedStays OKMeansSignedIn UsedAccountsHeal KeepsBook
