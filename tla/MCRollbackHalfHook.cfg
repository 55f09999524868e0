SPECIFICATION Spec
INVARIANT RollbackLeavesNoHalfHook
