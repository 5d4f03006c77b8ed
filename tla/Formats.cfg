SPECIFICATION Spec

CONSTANTS
    MaxChoices = 2

INVARIANTS
    DocumentsReadBack
    FilesAreFound
    StatementsBindInOrder
    ChoicesAreExact
