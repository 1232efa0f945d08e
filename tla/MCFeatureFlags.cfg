SPECIFICATION Spec
CONSTANTS
    Key = {f1, f2}
    Entity = {e1, e2, e3}
    e1 = e1
    e2 = e2
    e3 = e3
    Bucket <- BucketOf
    Percentage = {0, 60, 100}
    EnvKeys = {f1}
    Undefined = Undefined
INVARIANTS
    GlobalMeansEveryone
