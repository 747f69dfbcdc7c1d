\* More connections than workers.
CONSTANTS
    Handler = {h1, h2, h3}
    Worker = {w1, w2}
    None = none
SPECIFICATION FairSpec
INVARIANTS TypeOK ServedWhileWaiting AnsweredBeforeReturn
PROPERTIES EveryRequestEnds WorkersStop
