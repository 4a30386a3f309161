\* Two callers, two subjects, two statuses: a caller can find that the other
\* one moved its subject since it was called; with room for three events a
\* subject can go there and back while the other one changes too.
SPECIFICATION FairSpec
CONSTANTS
    Callers = {c1, c2}
    Subjects = {web, database}
    Statuses = {ok, down}
    Absent = Absent
    Nobody = Nobody
    MaxEvents = 3
INVARIANTS TypeOK EventChain PreviousIsCurrent
PROPERTIES ImplementsStatusLog CallsReturn
