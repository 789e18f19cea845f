SPECIFICATION AuthFairSpec
CONSTANTS
    a = a
    b = b
    Clients = {a, b}
    Right = {a}
    n1 = n1
    n2 = n2
    n3 = n3
    n4 = n4
    n5 = n5
    n6 = n6
    Nonces = {n1, n2, n3, n4, n5, n6}
    play = play
    teardown = teardown
    Methods = {play, teardown}
    None = None
INVARIANTS OnlyLastChallenged RefusedOnlyIfOvertaken
PROPERTY GetsInUndisturbed
