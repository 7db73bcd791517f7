\* Two webhook requests about one message at once.
CONSTANTS
    template = template
    note = note
    h1 = h1
    h2 = h2
    Messages = {template}
    Replies = {}
    Media = {}
    Handlers = {h1, h2}
    MaxFaults = 0
SPECIFICATION Spec
PROPERTIES
    NeverRegresses
CHECK_DEADLOCK FALSE
