CONSTANT Docs <- MCDocs
SPECIFICATION Spec
INVARIANT OutputDenotesValue
INVARIANT WrittenCountsBytes
INVARIANT RoundTrip
