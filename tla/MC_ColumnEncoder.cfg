SPECIFICATION Spec
INVARIANT BiasMatchesReference
INVARIANT EncodingOrderPreserving
