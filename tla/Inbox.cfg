\* Two messages, two requests and two workers, one fault.
CONSTANTS
    c1 = c1
    m1 = m1
    m2 = m2
    h1 = h1
    h2 = h2
    w1 = w1
    w2 = w2
    Convs = {c1}
    Messages = {m1, m2}
    From <- OnlyConversation
    Handlers = {h1, h2}
    Workers = {w1, w2}
    Window = 1
    MaxAttempts = 2
    MaxTime = 2
    MaxFaults = 1
SPECIFICATION Spec
SYMMETRY InboxSymmetry
INVARIANTS
    GreetedAtMostOnce
    FirstContactOnce
    ThreadsMatchMessages
