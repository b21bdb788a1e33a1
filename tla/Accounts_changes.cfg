SPECIFICATION Spec
CONSTANTS
    r1 = r1  r2 = r2  i1 = i1
    Users = {"a", "b", "c"}  Admins = {"a"}  Members = {}
    Requests = {r1, r2}
    Invitations = {i1}
    Nobody = "nobody"
    Spellings = {"false", "0"}
    Scripts = {"retention", "reset"}
    MaxVersion = 3
SYMMETRY Interchangeable
PROPERTIES AdminRemains NoLostUpdate PrivilegeIsCurrent
CHECK_DEADLOCK FALSE
