\* Two calls of any kind; a limit between the lengths of the requests, and the
\* largest one an int64 can hold.
CONSTANTS
  a = a
  b = b
  Calls <- CallSet
  Kinds <- KindSet
  Type <- TypeOf
  MethodType <- MethodTypeOf
  Misfits <- MisfitsOf
  Req <- Request
  Size <- SizeOf
  Unencodable = {"odd"}
  Methods <- Table
  Aliases <- AliasTable
  Cred <- CredOf
  Perm <- PermOf
  Verify <- VerifyOf
  ValidPerms = {"read", "write"}
  DefaultPerms = {"read"}
  Returns <- Outcomes
  MaxSizes = {2, 7}
  IntLimit = 8
SPECIFICATION FairSpec
INVARIANTS TypeOK CallLikeLocal RunsPermitted WithinLimit BodyHeld
PROPERTIES Rendezvous ReadReleasesPost RefinesRpcCall
CHECK_DEADLOCK FALSE
