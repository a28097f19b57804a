--------------------------- MODULE MCGenericPage ---------------------------
\* The site's new-conversation page and one other conversation.
EXTENDS GenericPage

CONSTANTS s, c
MCChat == {s, c}
=============================================================================
