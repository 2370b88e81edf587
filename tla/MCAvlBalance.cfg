SPECIFICATION ContainersSpec
CONSTANTS
    Keys <- MCKeys
    AvlKeys <- MCAvlKeys
    ValuesOf <- MCValuesOf
    ListNodes = {n1, n2, n3}
    Heads = {h1, h2}
    Null = null
    WordBits = 2
    MaxBits = 5
    Vectors = {v1, v2}
    Elements = {e0, e1}
    Fresh = e0
    InlineN = 1
    MaxLength = 3
    Kinds <- MCAvlKinds
INVARIANTS AvlBalanced
