\* Android's background and default priorities; two pointer low words.
CONSTANTS
    Priorities = {0, 10}
    EnvWords = {4096, 77824}
SPECIFICATION Spec
INVARIANT PriorityForwarded
