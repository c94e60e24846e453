CONSTANTS
  Programs = {"rdm_one_sided", "rdm_pingpong", "rdm_mbw_mr", "rdm_mbw_mr_cntr",
              "random_access", "random_access_drc", "auth_key_test"}
  num_ranks = 2
  Threads = 2
  MaxFailures = 2
SPECIFICATION Spec
INVARIANTS StartsReady ErrorPathsClean CredentialOutlivesUse
PROPERTIES Completes
CHECK_DEADLOCK FALSE
