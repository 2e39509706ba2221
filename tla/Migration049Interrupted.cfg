SPECIFICATION Spec
INVARIANT
    SchemaMatchesVersion
