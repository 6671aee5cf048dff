CONSTANT Docs <- NegativeNaNDocs
SPECIFICATION Spec
INVARIANT OutputDenotesValue
