SPECIFICATION FairSpec
CONSTANTS
  Procs <- MCProcs
  Envs <- MCEnvs
  NoStamp = "none"
  Users = {u1, u2}
  NoUser = NoUser
INVARIANTS TypeOK GuardedRowsMatch OneOwner
PROPERTIES StampIsForLife MigratesItsOwn BootEnds
