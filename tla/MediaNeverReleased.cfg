SPECIFICATION MediaSpec
CONSTANTS
    Hashes = {h1}
    Articles = {a1, a2}
    NoArticle = NoArticle
    Editors = {e1}
    Quota = 1
    MaxImages = 1
    OrphanPage = 1
    JobPage = 1
PROPERTIES
    ReleasedWhenDue
CHECK_DEADLOCK FALSE
