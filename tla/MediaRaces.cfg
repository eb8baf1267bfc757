SPECIFICATION AuthorSpec
CONSTANTS
    Hashes = {h1, h2}
    Articles = {a1}
    NoArticle = NoArticle
    Editors = {e1, e2}
    Quota = 1
    MaxImages = 1
    OrphanPage = 1
    JobPage = 1
    Platforms = {p1}
    MaxCreds = 2
SYMMETRY Symmetry
INVARIANT
    ImagesKept
PROPERTY
    AccountsSound
CHECK_DEADLOCK FALSE
