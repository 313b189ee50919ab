SPECIFICATION Spec
CONSTANTS
  u1 = u1
  u2 = u2
  t1 = t1
  v1 = v1
  v2 = v2
  i1 = i1
  i2 = i2
  s1 = s1
  a1 = a1
  k1 = k1
  k2 = k2
  NULL = NULL
  Tables <- SqlSchema
  Rows <- PipelineRows
  TableOf <- PipelineTableOf
  Contents <- PipelineContents
PROPERTIES WorkOutlivesUsers AuditAppendOnly
