\* One session (sessions share nothing but the sweep) and three requests: two
\* contents and a finalize, or one content and two finalizes, overlap in every
\* order; one content fits, one has the wrong type.
CONSTANTS
  Session = {s1}
  Request = {r1, r2, r3}
  Content = {image, text}
  RightSize = {image, text}
  RightSignature = {image}
  NoContent = NoContent
  NoSession = NoSession
SPECIFICATION Spec
INVARIANTS
  OneAssetPerUpload
  AssetHasObject
  NoStrayObject
  NoStrayTemp
  ObjectIsAsVerified
PROPERTY SessionsClose
\* Every request is answered once.
CHECK_DEADLOCK FALSE
