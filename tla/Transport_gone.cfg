CONSTANTS
    t1 = t1  t2 = t2  d1 = d1  m1 = m1  m2 = m2
    Remote = Remote
    NoHost = NoHost
    Threads = {t1}
    DockerPaths = {d1}
    PodmanPaths = {m1, m2}
    Serves <- Answering
    Choices <- ChoicesMade
    Calls <- CallsMade
    MaxMoves = 1
SPECIFICATION Spec
PROPERTIES
    AnsweredIsAvailable
