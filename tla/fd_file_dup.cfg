SPECIFICATION Spec
CONSTANTS
    Objs = {o1, o2}
    Classes = {"file"}
    Numbers = {0, 1}
    MaxFiles = 1
INVARIANTS
    FilesStayOpen
CHECK_DEADLOCK FALSE
