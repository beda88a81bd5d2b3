CONSTANTS
  report = report
  article = article
  memo = memo
  consumer = consumer
  grpc = grpc
  expert = expert
  editor = editor
  matte = matte
  mattes = mattes
  material = material
  process = process
  New = new
  Workers = {consumer}
  Mergers = {expert}
  Docs <- MCDocs
  Names <- MCNames
  Slugs <- MCSlugs
  Values <- MCValues
  Access <- MCAccess
  Bundles <- MCBundles
  MergePairs <- MCMergePairs
  MaxAttempts = 4
  MaxMerges = 2
SPECIFICATION Spec
INVARIANT RecommitSucceeds
CHECK_DEADLOCK FALSE
