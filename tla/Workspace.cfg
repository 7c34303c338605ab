SPECIFICATION WorkspaceSpec
CONSTANTS
    Person = {x1, x2}
    Open = {o1, o2}
    Send = {g1}
    Mark = {k1, k2}
    Look = {l1}
    Admin = {}
    Nobody = Nobody
    Create = {n1}
    Replace = {h1, h2}
    Remove = {z1}
    Edit = {y1}
    View = {w1}
    Pool = 2
    Figure <- MCFigure
    Body <- MCBody
    q1 = q1
    q2 = q2
    Faq = {q1, q2}
    Batch = {b1, b2}
    List <- MCList
    New = New
    Post = {p1}
    Patch = {p2}
    Publish = {w2, w3}
    Peek = {l2}
    Null = Null
SYMMETRY Symmetry
CONSTRAINT FewRequests
CHECK_DEADLOCK FALSE
INVARIANTS TypeOK OneConversation AnswersAreTrue StatusNewsAgree ReplacesReplace StuckIsExplained SummaryAddsUp ContentIsWhole
