SPECIFICATION ShellSpec
CONSTANTS
    Visitor = {ann, ben}
    NoVisitor = novisitor
    MaxSignIns = 2
INVARIANTS NeverAnothersGrants
CHECK_DEADLOCK FALSE
