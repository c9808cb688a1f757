\* Two documents, one test, one request of an admin at a time, which may die, and a student whose report pulls a question.
SPECIFICATION Spec
CONSTANTS
    Ids = {q1, q2}
    Uploaded = {q1, q2}
    Tests = {t1}
    Editors = {e1}
    Students = {s1}
    Enough = 1
    Expected = 1
    MaxContent = 2
    MayDie = TRUE
SYMMETRY Symmetry
INVARIANTS PublishedComplete OneLatest
PROPERTIES PublishedFrozen PullSurvives
CHECK_DEADLOCK FALSE
