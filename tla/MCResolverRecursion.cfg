SPECIFICATION Spec
CONSTANT Schemas <- FoldersAndDocs
CHECK_DEADLOCK FALSE
INVARIANT RecursionIsExact
