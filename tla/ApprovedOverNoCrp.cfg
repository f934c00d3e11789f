SPECIFICATION Spec
CONSTANTS
    Threads = {t1, t2}
    Runs = {r1}
    Mrps = {m1}
    auth = auth
    Auth = Auth
    billing = billing
    Domains = {auth, Auth, billing}
    Upper <- UpperCase
    MaxSeq = 1
    Resolutions = {v1, v2}
    None = None
PROPERTY ApprovedOverNoCrp
