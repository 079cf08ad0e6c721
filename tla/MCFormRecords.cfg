SPECIFICATION Spec
CONSTANTS
    h1 = h1  h2 = h2  u1 = u1  u2 = u2
    Hosts = {h1, h2}
    Uids = {u1, u2}
    UidOf <- MCUidOf
    Forms = {f1, f2}
    Threads = {t1}
    MAX_TEMP_FORMS = 1
SYMMETRY Alike
INVARIANTS TypeOK OwnersAreStored LiveTempAgrees
PROPERTIES UsersKeepTheirForms
CHECK_DEADLOCK FALSE
